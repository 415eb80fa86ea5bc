--------------------------- MODULE UpstreamStreams ---------------------------
(***************************************************************************)
(* The part of upstream_call.py that outlives the step: the body streamed  *)
(* through the proxy pool with its redirects and retries, the accumulator  *)
(* that counts it, stream_with_billing around it, the callback that books  *)
(* it and schedules tasks for after a commit, the polled result of an      *)
(* asynchronous call, and the health the step writes of the instance.      *)
(***************************************************************************)
EXTENDS Naturals, Sequences, FiniteSets

CONSTANTS
  Calls,          \* calls of one provider instance
  Kind,           \* Calls -> {"stream", "async"}
  Endpoints,      \* proxies of the pool
  MaxChunks,      \* chunks of a whole answer; the last carries the usage
  ProxyAttempts,  \* UPSTREAM_PROXY_MAX_RETRIES + 1
  MaxRedirects    \* MAX_UPSTREAM_REDIRECTS

VARIABLES
  call,      \* per call: where it is, its connection and its accumulator
  pool,      \* Redis: the available set, the cooldown keys, the switch
  health,    \* Redis: provider:health:{instance}, and whether it is throttled
  reached,   \* whether the upstream ever answered with a status
  sent       \* tasks handed to Celery

\* Every call is a stream.
AllStreams == [c \in Calls |-> "stream"]

streamVars == <<call, pool, health, reached, sent>>

Statuses == {"healthy", "degraded", "down"}

\* StreamTokenAccumulator and the generator's locals.
Fresh ==
  [at |-> "idle", attempt |-> 0, tried |-> {}, proxy |-> "none", hops |-> 0,
   pos |-> 0, shown |-> <<>>, counted |-> 0, usage |-> FALSE, complete |-> FALSE,
   error |-> FALSE, output |-> 0, callbacks |-> 0, pending |-> {},
   outcome |-> "none", after |-> "none"]

Init ==
  /\ call = [c \in Calls |-> Fresh]
  /\ pool \in [available : {Endpoints}, cooldown : {{}}, on : BOOLEAN]
  /\ health = [status |-> "unknown", throttled |-> FALSE]
  /\ reached = FALSE
  /\ sent = {}

At(c, s) == call[c].at = s

-----------------------------------------------------------------------------
(* The health of the instance: record_request_result *)

\* 2xx to 4xx is reachable, 5xx degraded, no status down.
StatusOf(r) == IF r = "5xx" THEN "degraded" ELSE IF r = "none" THEN "down" ELSE "healthy"

Report(r, result, next) == [r EXCEPT !.at = "report", !.outcome = StatusOf(result), !.after = next]

\* _should_skip_write: the same status within the throttle is not written again.
CheckThrottle(c) ==
  /\ At(c, "report")
  /\ call' = [call EXCEPT ![c].at =
       IF health = [status |-> call[c].outcome, throttled |-> TRUE] THEN call[c].after ELSE "write"]
  /\ UNCHANGED <<pool, health, reached, sent>>

WriteHeartbeat(c) ==
  /\ At(c, "write")
  /\ health' = [status |-> call[c].outcome, throttled |-> TRUE]
  /\ call' = [call EXCEPT ![c].at = call[c].after]
  /\ UNCHANGED <<pool, reached, sent>>

ThrottlePasses ==
  /\ health.throttled /\ health' = [health EXCEPT !.throttled = FALSE]
  /\ UNCHANGED <<call, pool, reached, sent>>

\* check_all_instances: a probe, whatever its answer.
Probe ==
  \E s \in Statuses :
    /\ \/ s = "down" /\ UNCHANGED reached
       \/ s # "down" /\ reached' = TRUE
    /\ health # [status |-> s, throttled |-> TRUE]
    /\ health' = [status |-> s, throttled |-> TRUE]
    /\ UNCHANGED <<call, pool, sent>>

\* get_health_status: an old entry reads as unknown.
Shown == health.status

-----------------------------------------------------------------------------
(* The pool of proxies *)

\* pick: eight draws from the available set; one that cools down is removed,
\* and no endpoint is returned when the draws meet only excluded ones.
Picks(tried) ==
  IF ~pool.on THEN {[proxy |-> "none", available |-> pool.available]}
  ELSE LET cold == pool.available \cap pool.cooldown
           good == pool.available \ (tried \cup pool.cooldown)
       IN [proxy : good, available : {pool.available \ d : d \in SUBSET cold}]
          \cup [proxy : IF good = {} \/ pool.available \cap tried # {} THEN {"none"} ELSE {},
                available : {pool.available \ cold}]

\* report_failure.
Reported(proxy) ==
  IF proxy = "none" \/ ~pool.on THEN pool
  ELSE [pool EXCEPT !.available = @ \ {proxy}, !.cooldown = @ \cup {proxy}]

CooldownExpires(e) ==
  /\ e \in pool.cooldown /\ pool' = [pool EXCEPT !.cooldown = @ \ {e}]
  /\ UNCHANGED <<call, health, reached, sent>>

\* The job that keeps the available set is not part of this code.
Replenish(e) ==
  /\ e \notin pool.available /\ pool' = [pool EXCEPT !.available = @ \cup {e}]
  /\ UNCHANGED <<call, health, reached, sent>>

\* _refresh_runtime_flags: the switch in Redis, read at most every five seconds.
RefreshFlags ==
  /\ pool' = [pool EXCEPT !.on = ~@]
  /\ UNCHANGED <<call, health, reached, sent>>

-----------------------------------------------------------------------------
(* _call_upstream_stream and _stream_with_redirects *)

\* execute: the generator is created, and the call is reported a success.
StartStream(c) ==
  /\ At(c, "idle") /\ Kind[c] = "stream"
  /\ call' = [call EXCEPT ![c] = Report(@, "2xx", "pick")]
  /\ UNCHANGED <<pool, health, reached, sent>>

\* The key's models are checked only now: a refusal is an empty stream.
NotAllowed(c) ==
  /\ At(c, "pick") /\ call[c].attempt = 0
  /\ call' = [call EXCEPT ![c].at = "closing"]
  /\ UNCHANGED <<pool, health, reached, sent>>

Pick(c) ==
  /\ At(c, "pick")
  /\ \E p \in Picks(call[c].tried) :
       /\ call' = [call EXCEPT ![c].at = "connect", ![c].proxy = p.proxy,
                               ![c].hops = 0, ![c].pos = 0]
       /\ pool' = [pool EXCEPT !.available = p.available]
  /\ UNCHANGED <<health, reached, sent>>

\* Mutant of Redirected: a hop too many is followed.
RedirectedBeyond(c) ==
  /\ At(c, "connect") /\ call[c].hops <= MaxRedirects
  /\ call' = [call EXCEPT ![c].hops = @ + 1]
  /\ reached' = TRUE
  /\ UNCHANGED <<pool, health, sent>>

\* A followed hop is within the limit and to a safe address.
Redirected(c) ==
  /\ At(c, "connect") /\ call[c].hops < MaxRedirects
  /\ call' = [call EXCEPT ![c].hops = @ + 1]
  /\ reached' = TRUE
  /\ UNCHANGED <<pool, health, sent>>

\* An error status, a redirect too many or to nowhere, or any other exception.
Raises(c) ==
  /\ At(c, "connect")
  /\ call' = [call EXCEPT ![c].at = "closing", ![c].error = TRUE]
  /\ pool' = Reported(call[c].proxy)
  /\ reached' \in {reached, TRUE}
  /\ UNCHANGED <<health, sent>>

Answers(c) ==
  /\ At(c, "connect")
  /\ call' = [call EXCEPT ![c].at = "open"]
  /\ reached' = TRUE
  /\ UNCHANGED <<pool, health, sent>>

\* A timeout or a network error, before the answer or in its middle: the next
\* attempt starts the answer again.
Interrupted(c) ==
  LET r == call[c]
      tried == r.tried \cup ({r.proxy} \ {"none"}) IN
  /\ r.at \in {"connect", "open"}
  /\ call' = [call EXCEPT ![c] =
       IF r.attempt + 1 < ProxyAttempts
       THEN [r EXCEPT !.at = "pick", !.attempt = @ + 1, !.tried = tried]
       ELSE [r EXCEPT !.at = "closing", !.error = TRUE, !.tried = tried]]
  /\ pool' = Reported(r.proxy)
  /\ UNCHANGED <<health, reached, sent>>

\* parse_sse_chunk.
Parsed(r) == [r EXCEPT !.counted = @ + 1, !.usage = @ \/ r.pos = MaxChunks]

\* The upstream's next chunk; the generator parses it before it yields it.
Chunk(c) ==
  /\ At(c, "open") /\ call[c].pos < MaxChunks
  /\ call' = [call EXCEPT ![c] = Parsed([@ EXCEPT !.pos = call[c].pos + 1, !.at = "chunk"])]
  /\ UNCHANGED <<pool, health, reached, sent>>

\* The body ends: with [DONE] after the last chunk, or cut short.
BodyEnds(c) ==
  /\ At(c, "open")
  /\ call' = [call EXCEPT ![c].at = "closing", ![c].complete = call[c].pos = MaxChunks]
  /\ UNCHANGED <<pool, health, reached, sent>>

-----------------------------------------------------------------------------
(* stream_with_billing *)

\* A chunk is parsed once more, its blocks are emitted, and it is yielded.
Relay(c) ==
  /\ At(c, "chunk")
  /\ LET r == Parsed(call[c]) IN
     call' = [call EXCEPT ![c] = [r EXCEPT !.shown = Append(r.shown, r.pos), !.at = "open"]]
  /\ UNCHANGED <<pool, health, reached, sent>>

\* The cancel flag is looked at before the chunk is shown.
Cancelled(c) ==
  /\ At(c, "chunk")
  /\ call' = [call EXCEPT ![c].at = "closing", ![c].error = TRUE]
  /\ UNCHANGED <<pool, health, reached, sent>>

\* The client leaves: the generator is closed at its yield or cancelled at a
\* wait, and its finally runs.
ClientLeaves(c) ==
  /\ call[c].at \in {"pick", "connect", "open"}
  /\ call' = [call EXCEPT ![c].at = "closing"]
  /\ UNCHANGED <<pool, health, reached, sent>>

\* estimate_output_tokens, three a chunk and never none.
Estimate(r) == IF r.counted = 0 THEN 1 ELSE 3 * r.counted

\* The finally: what is billed is the usage, or else the estimate.
Close(c) ==
  /\ At(c, "closing")
  /\ call' = [call EXCEPT ![c].at = "billing",
       ![c].output = IF call[c].usage THEN MaxChunks ELSE Estimate(call[c])]
  /\ UNCHANGED <<pool, health, reached, sent>>

-----------------------------------------------------------------------------
(* stream_billing_callback and the tasks after a commit *)

\* _on_commit: a pending task is sent; _record_usage_task is no Celery task.
AfterCommit(pending) == pending \ {"usage"}

\* The charge and its commit; an error is logged and rolled back.
Bill(c) ==
  /\ At(c, "billing")
  /\ \E booked \in BOOLEAN :
       /\ call' = [call EXCEPT ![c].at = IF booked THEN "booked" ELSE "unbooked",
                               ![c].callbacks = @ + 1, ![c].pending = {}]
       /\ sent' = IF booked THEN sent \cup AfterCommit(call[c].pending) ELSE sent
  /\ UNCHANGED <<pool, health, reached>>

\* delay_after_commit and apply_async_after_commit: nothing without a broker.
Deferred(broker, tasks) == IF broker THEN tasks ELSE {}

\* The usage of every stream, and the key's budget when the charge is booked.
Schedule(c) ==
  /\ call[c].at \in {"booked", "unbooked"}
  /\ \E broker \in BOOLEAN :
       call' = [call EXCEPT ![c].at = "scheduled",
         ![c].pending = Deferred(broker, {"usage"} \cup (IF At(c, "booked") THEN {"budget"} ELSE {}))]
  /\ UNCHANGED <<pool, health, reached, sent>>

\* The request's session is closed; the hooks go with it.
CloseSession(c) ==
  /\ At(c, "scheduled")
  /\ call' = [call EXCEPT ![c].at = "over", ![c].pending = {}]
  /\ UNCHANGED <<pool, health, reached, sent>>

-----------------------------------------------------------------------------
(* The asynchronous call: submitted, then polled *)

Submit(c) ==
  /\ At(c, "idle") /\ Kind[c] = "async"
  /\ call' = [call EXCEPT ![c].at = "submit"]
  /\ UNCHANGED <<pool, health, reached, sent>>

\* _request_with_redirects.
SubmitRedirected(c) ==
  /\ At(c, "submit") /\ call[c].hops < MaxRedirects
  /\ call' = [call EXCEPT ![c].hops = @ + 1]
  /\ reached' = TRUE
  /\ UNCHANGED <<pool, health, sent>>

\* The answer names a task to poll, or the call fails.
Submitted(c) ==
  /\ At(c, "submit")
  /\ \/ call' = [call EXCEPT ![c].at = "poll"] /\ reached' = TRUE
     \/ /\ call' = [call EXCEPT ![c] = Report([@ EXCEPT !.error = TRUE], "none", "over")]
        /\ reached' \in {reached, TRUE}
  /\ UNCHANGED <<pool, health, sent>>

\* The task's status: a success is extracted; a failure, an error status or
\* the timeout raises; anything else is asked again after the interval.
PollAnswers(c) ==
  /\ At(c, "poll")
  /\ \/ call' = [call EXCEPT ![c] = Report([@ EXCEPT !.complete = TRUE], "2xx", "over")]
     \/ call' = [call EXCEPT ![c] = Report([@ EXCEPT !.error = TRUE], "none", "over")]
  /\ UNCHANGED <<pool, health, reached, sent>>

-----------------------------------------------------------------------------

CallStep(c) ==
  \/ CheckThrottle(c) \/ WriteHeartbeat(c)
  \/ Pick(c) \/ Redirected(c) \/ Raises(c) \/ Answers(c) \/ Interrupted(c)
  \/ Chunk(c) \/ BodyEnds(c) \/ Relay(c) \/ Cancelled(c) \/ NotAllowed(c) \/ ClientLeaves(c)
  \/ Close(c) \/ Bill(c) \/ Schedule(c) \/ CloseSession(c)
  \/ SubmitRedirected(c) \/ Submitted(c) \/ PollAnswers(c)

Begin(c) == StartStream(c) \/ Submit(c)

Next ==
  \/ \E c \in Calls : Begin(c) \/ CallStep(c)
  \/ \E e \in Endpoints : CooldownExpires(e) \/ Replenish(e)
  \/ RefreshFlags \/ ThrottlePasses \/ Probe

\* The event loop goes on with every call, whose every wait has a timeout.
Spec == Init /\ [][Next]_streamVars /\ \A c \in Calls : WF_streamVars(CallStep(c))

-----------------------------------------------------------------------------
(* Properties *)

\* The type of the state.
TypeOK ==
  /\ \A c \in Calls :
       /\ call[c].at \in {"idle", "report", "write", "pick", "connect", "open", "chunk", "closing",
                          "billing", "booked", "unbooked", "scheduled", "submit", "poll", "over"}
       /\ call[c].attempt < ProxyAttempts /\ call[c].hops <= MaxRedirects
       /\ call[c].tried \subseteq Endpoints /\ call[c].proxy \in Endpoints \cup {"none"}
  /\ pool \in [available : SUBSET Endpoints, cooldown : SUBSET Endpoints, on : BOOLEAN]
  /\ health \in [status : Statuses \cup {"unknown"}, throttled : BOOLEAN]
  /\ reached \in BOOLEAN /\ sent \subseteq {"budget"}

\* However a stream ends (its end, an error after the last attempt, a cancel,
\* the client's leaving) the finally of stream_with_billing has run its
\* callback once, on tokens that cover at least every chunk the client was
\* shown in the last attempt.
SettledOnce ==
  \A c \in Calls :
    Kind[c] = "stream" /\ At(c, "over") =>
      /\ call[c].callbacks = 1
      /\ call[c].output >= 1 /\ (~call[c].usage => call[c].output >= 3 * Len(call[c].shown))

\* A retry never uses a proxy that failed this call, even when the cooldown is
\* over and the endpoint is back in the set ("避免同一请求重复使用").
OtherProxyEachTime ==
  \A c \in Calls : call[c].at \in {"connect", "open", "chunk"} => call[c].proxy \notin call[c].tried

\* Every call that began is over at last: redirects and attempts are counted,
\* and the callback never holds the stream.
StreamsEnd == \A c \in Calls : []<>(At(c, "idle") \/ At(c, "over"))

\* proxy_pool and _call_upstream_stream: a client is shown each chunk once.
\* Not so: an attempt that fails in the middle is repeated from the start.
ChunksShownOnce == \A c \in Calls : \A i \in DOMAIN call[c].shown : call[c].shown[i] = i

\* transaction_celery: a scheduled task is sent ("任务会在这里提交后执行").
\* Not so for a stream, which schedules after its only commit.
ScheduledIsSent == \A c \in Calls : "budget" \in call[c].pending ~> "budget" \in sent

\* health_monitor: the health comes from real results ("基于真实请求结果更新
\* provider 健康状态"). Not so: a stream is reported healthy before its request.
HealthIsReal == Shown = "healthy" => reached
=============================================================================
