-------------------------- MODULE UpstreamRouting --------------------------
(***************************************************************************)
(* Upstream calls to one host with one secret: the candidates a request is *)
(* routed to, the call with its retries and its failover, and the circuit  *)
(* breaker in Redis.                                                       *)
(*                                                                         *)
(* The breaker is a hash that a process reads, changes and writes back, so *)
(* requests work on snapshots. opened_at is kept as one bit: less than     *)
(* CIRCUIT_BREAKER_RESET_SECONDS ago, or not. The failure count saturates  *)
(* at the threshold, the only value it is compared with. A request's       *)
(* candidates are numbered as in routing.candidates, from 0; which they    *)
(* are is drawn with weights or by the bandit and open here.               *)
(*                                                                         *)
(* Bandit feedback and provider health are statistics and left out. So is  *)
(* the session's affinity: upstream_call passes record_request a keyword   *)
(* it does not have (item_id), the error is logged, and the state stays    *)
(* init, in which routing ignores it.                                      *)
(***************************************************************************)
EXTENDS Integers

CONSTANTS
  Calls,           \* requests in flight at a time
  Threshold,       \* CIRCUIT_BREAKER_FAILURE_THRESHOLD
  HalfOpenSuccess, \* CIRCUIT_BREAKER_HALF_OPEN_SUCCESS
  UpRetries,       \* config.max_retries of upstream_call
  Width            \* bound on the candidates of a request

VARIABLES
  breaker,    \* the hash of the host and secret
  call,       \* call[r]: what request r is at
  marked      \* failures marked so far, saturating at Threshold (history)

upVars == <<breaker, call, marked>>

\* What _get_cb_state returns for a missing hash.
Closed == [failures |-> 0, state |-> "closed", fresh |-> FALSE, successes |-> 0]
Breaker == [failures : 0..Threshold, state : {"closed", "open", "half_open"},
            fresh : BOOLEAN, successes : 0..HalfOpenSuccess]

\* How a call ended: answered, an error worth a retry (time-out, 5xx, network), an
\* error that is not (4xx and others), a response too large, no credential.
Outcomes == {"ok", "retryable", "fatal", "oversize", "auth"}

\* index: routing.candidate_index; rendered: the candidate template_render rendered
\* the url for, whose secret auth_config names; marks: marks that are still to make.
Call == [at : {"idle", "check", "half", "send", "mark", "write", "decide"},
         count : 0..Width, index : 0..1, rendered : {0}, attempt : 0..(UpRetries + 1),
         marks : 0..2, outcome : Outcomes \cup {"none"}, snap : Breaker]

NoCall == [at |-> "idle", count |-> 0, index |-> 0, rendered |-> 0, attempt |-> 0, marks |-> 0,
           outcome |-> "none", snap |-> Closed]

Init ==
  /\ breaker = Closed
  /\ call = [r \in Calls |-> NoCall]
  /\ marked = 0

Least(m, n) == IF m < n THEN m ELSE n
At(r, s) == call[r].at = s
Go(r, s) == call' = [call EXCEPT ![r].at = s]
End(r) == call' = [call EXCEPT ![r] = NoCall]

-----------------------------------------------------------------------------
(* Routing *)

\* What the rows of a model, of its instance and of its preset are to a request.
\* up: active, enabled and capable; locked: it has a price that the user did not pay;
\* keys: the active credentials of the instance; ref: credentials_ref is set.
Offer == [up : BOOLEAN, owner : {"caller", "nobody", "other"}, locked : BOOLEAN,
          preset : {"active", "inactive", "not allowed"},
          config : {"complete", "missing", "no template"}, keys : 0..Width, ref : BOOLEAN]

\* The user's own models, and the public ones that are free or bought.
InReach(o) == o.up /\ (o.owner = "caller" \/ (o.owner = "nobody" /\ ~o.locked))

Renderable(o) == o.preset = "active" /\ o.config = "complete"

\* The default reference is an entry of its own, also when it is the alias of a
\* credential that is listed already.
Entries(o) == o.keys + (IF o.ref THEN 1 ELSE 0)

\* load_candidates_by_provider_model_id
Pinned == {Entries(o) : o \in {p \in Offer : InReach(p) /\ Renderable(p)}} \cap (1..Width)

\* load_candidates: the entries of every model of that name, here one or two.
Candidates == (Pinned \cup {m + n : m, n \in Pinned}) \cap (1..Width)

\* _apply_gray drops candidates at random, but never all of them.
ApplyGray(n) == 1..n

\* What the step writes in the context: the chosen candidate first, then the backups.
Routed(r, n) ==
  call' = [call EXCEPT ![r] = [NoCall EXCEPT !.at = "check", !.count = n, !.attempt = 1]]

\* choose: one candidate by weight or by the bandit, and the others as backups.
Choose(r, n) == \E k \in ApplyGray(n) : Routed(r, k)

RouteByName(r) ==
  /\ At(r, "idle")
  /\ \E n \in Candidates : Choose(r, n)
  /\ UNCHANGED <<breaker, marked>>

\* An internal request that must name its model gets the best candidate alone.
RouteByModel(r) ==
  /\ At(r, "idle")
  /\ \E n \in Pinned : Choose(r, n) \/ Routed(r, 1)
  /\ UNCHANGED <<breaker, marked>>

-----------------------------------------------------------------------------
(* UpstreamCallStep.execute *)

\* is_safe_upstream_url. addresses: the literal address, or what the name resolves to;
\* none if that fails.
UrlHost == [http : BOOLEAN, whitelisted : BOOLEAN, addresses : SUBSET {"public", "blocked"}]
IsSafeUpstreamUrl(h, custom, internal) ==
  /\ h.http
  /\ h.whitelisted \/ (custom /\ (internal \/ h.addresses = {"public"}))

\* The url that was rendered may be one that the settings forbid.
BlockUnsafe(r) ==
  /\ At(r, "check")
  /\ {h \in UrlHost : ~IsSafeUpstreamUrl(h, TRUE, FALSE)} # {}
  /\ End(r)
  /\ UNCHANGED <<breaker, marked>>

\* An open breaker ends the request; an old one is let through as half-open.
IsCircuitOpen(r) ==
  /\ At(r, "check")
  /\ IF breaker.state # "open" THEN Go(r, "send")
     ELSE IF breaker.fresh THEN End(r)
     ELSE call' = [call EXCEPT ![r].at = "half",
                     ![r].snap = [breaker EXCEPT !.state = "half_open", !.successes = 0]]
  /\ UNCHANGED <<breaker, marked>>

\* _set_cb_state
Write(r, to) ==
  /\ breaker' = call[r].snap
  /\ call' = [call EXCEPT ![r].at = to, ![r].snap = Closed]
  /\ UNCHANGED marked

HalfOpen(r) == At(r, "half") /\ Write(r, "send")

\* _get_auth_headers: a missing secret is an error for which nothing is marked.
SecretMissing(r) ==
  /\ At(r, "send")
  /\ call' = [call EXCEPT ![r].at = "decide", ![r].outcome = "auth"]
  /\ UNCHANGED <<breaker, marked>>

\* A stream is marked as a success twice before its first byte.
OpenStream(r) ==
  /\ At(r, "send")
  /\ call' = [call EXCEPT ![r].at = "mark", ![r].outcome = "ok", ![r].marks = 2]
  /\ UNCHANGED <<breaker, marked>>

Answer(r) ==
  /\ At(r, "send")
  /\ call' = [call EXCEPT ![r].at = "mark", ![r].outcome = "ok", ![r].marks = 1]
  /\ UNCHANGED <<breaker, marked>>

Fails(r) ==
  /\ At(r, "send")
  /\ \E o \in {"retryable", "fatal", "oversize"} :
       call' = [call EXCEPT ![r].at = "mark", ![r].outcome = o, ![r].marks = 1]
  /\ UNCHANGED <<breaker, marked>>

\* _mark_failure and _mark_success, on what they have read.
Failed(b) ==
  LET n == Least(b.failures + 1, Threshold) IN
  IF b.state = "half_open" \/ n = Threshold
  THEN [b EXCEPT !.failures = n, !.state = "open", !.fresh = TRUE]
  ELSE [b EXCEPT !.failures = n]

Succeeded(b) ==
  IF b.state # "half_open" THEN [b EXCEPT !.failures = 0]
  ELSE IF b.successes + 1 >= HalfOpenSuccess THEN Closed
  ELSE [b EXCEPT !.successes = b.successes + 1]

ReadState(r) ==
  /\ At(r, "mark")
  /\ call' = [call EXCEPT ![r].at = "write", ![r].marks = call[r].marks - 1,
                ![r].snap = IF call[r].outcome = "ok" THEN Succeeded(breaker) ELSE Failed(breaker)]
  /\ marked' = IF call[r].outcome = "ok" THEN marked ELSE Least(marked + 1, Threshold)
  /\ UNCHANGED breaker

WriteState(r) == At(r, "write") /\ Write(r, IF call[r].marks > 0 THEN "mark" ELSE "decide")

-----------------------------------------------------------------------------
(* on_failure, on_degrade and the engine *)

FailedOver(r) == call[r].index > 0
Retries(r) == call[r].outcome = "retryable" /\ call[r].attempt <= UpRetries /\ ~FailedOver(r)
Degrades(r) ==
  /\ call[r].outcome \in {"retryable", "auth"} /\ ~Retries(r) /\ ~FailedOver(r)
  /\ call[r].count > 1

Retry(r) ==
  /\ At(r, "decide")
  /\ Retries(r)
  /\ call' = [call EXCEPT ![r].at = "check", ![r].attempt = @ + 1, ![r].outcome = "none"]
  /\ UNCHANGED <<breaker, marked>>

\* on_degrade names the next candidate in routing, but neither renders its url nor
\* takes its secret, and runs the step again; the engine does not catch what that
\* raises.
FailOver(r) ==
  /\ At(r, "decide")
  /\ Degrades(r)
  /\ call' = [call EXCEPT ![r].at = "check", ![r].index = @ + 1, ![r].outcome = "none"]
  /\ UNCHANGED <<breaker, marked>>

\* Success, ABORT, a failed result, no backup left, or a second failure.
Finish(r) ==
  /\ At(r, "decide")
  /\ ~Retries(r) /\ ~Degrades(r)
  /\ End(r)
  /\ UNCHANGED <<breaker, marked>>

\* The process dies, the client leaves, or the engine's time-out cancels the step.
Abandon(r) ==
  /\ ~At(r, "idle")
  /\ End(r)
  /\ UNCHANGED <<breaker, marked>>

-----------------------------------------------------------------------------
(* Time *)

\* CIRCUIT_BREAKER_RESET_SECONDS pass, for the hash and for whoever has read it.
ResetPasses ==
  /\ breaker.fresh
  /\ breaker' = [breaker EXCEPT !.fresh = FALSE]
  /\ call' = [r \in Calls |-> [call[r] EXCEPT !.snap.fresh = FALSE]]
  /\ UNCHANGED marked

\* The hash expires after twice that time without a write.
StateExpires ==
  /\ breaker # Closed /\ ~breaker.fresh
  /\ breaker' = Closed
  /\ UNCHANGED <<call, marked>>

Next ==
  \/ \E r \in Calls :
       \/ RouteByName(r) \/ RouteByModel(r) \/ BlockUnsafe(r) \/ IsCircuitOpen(r) \/ HalfOpen(r) \/ SecretMissing(r) \/ OpenStream(r)
       \/ Answer(r) \/ Fails(r) \/ ReadState(r) \/ WriteState(r)
       \/ Retry(r) \/ FailOver(r) \/ Finish(r) \/ Abandon(r)
  \/ ResetPasses \/ StateExpires

\* Time passes.
Spec == Init /\ [][Next]_upVars /\ WF_upVars(ResetPasses)

-----------------------------------------------------------------------------
\* Types: the breaker of the upstream, the calls and the failures marked.
TypeOK ==
  /\ breaker \in Breaker
  /\ call \in [Calls -> Call]
  /\ marked \in 0..Threshold

\* However the read-modify-writes of concurrent requests overwrite each other, the
\* breaker never opens for an upstream that has not failed often enough: lost
\* updates lose failures and never invent them.
OpensOnEvidence ==
  /\ breaker.failures <= marked
  /\ breaker.state # "closed" => marked = Threshold

\* The breaker blocks no upstream for good: as long as requests ask, some are let
\* through, whatever concurrent requests write back. (It need not close again: a
\* late writer can put an open state back time and again.)
BreakerAsked == \E r \in Calls : IsCircuitOpen(r)
SomeGetThrough == \E r \in Calls : call[r].at \in {"half", "send"}
CallsGetThrough == []<><<BreakerAsked>>_upVars => []<>SomeGetThrough

\* on_degrade retries with the backup upstream (upstream_call.py, 1345 and 1371).
\* Not so: the request that was rendered for the primary is sent again.
BackupIsCalled == \A r \in Calls : At(r, "send") => call[r].rendered = call[r].index

=============================================================================
