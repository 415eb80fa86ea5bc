-------------------------- MODULE GenerationTasks --------------------------
(***************************************************************************)
(* Image generation: the rows generation_task, image_generation_output and *)
(* image_generation_share, the cancel flag in Redis and the Celery queue.  *)
(* All tasks of the model are created under one request_id of one user,    *)
(* which create_task looks up and no constraint makes unique.              *)
(*                                                                         *)
(* A worker keeps one database session for the whole task.  The session    *)
(* does not expire on commit, and get() answers from it: job.seen is the   *)
(* status the session holds, which only its own updates change, unless a   *)
(* rollback inside the workflow made it stale ("expired").                 *)
(*                                                                         *)
(* Video tasks share the table; their Celery task is a coroutine that      *)
(* nothing awaits, so they stay queued and are left out.                   *)
(***************************************************************************)
EXTENDS Integers, FiniteSets

CONSTANTS
  Tasks,       \* what calls of the create endpoint make, all for one request_id
  Workers,     \* Celery worker processes
  Items,       \* bound: the images of a response are 1..Items
  MaxRetries,  \* max_retries of the Celery task
  MaxLoad,     \* bound on tasks, crashes, redeliveries, failing stores and expiries
  NoTask       \* a worker has none

Index == 1..Items
Final == {"succeeded", "failed", "canceled"}
\* GenerationTask.status; "none" before the insert.
Status == {"none", "queued", "running"} \cup Final
\* ImageGenerationOutput.media_asset_id: set, or only source_url; "none" without row.
Output == {"none", "url", "asset"}
\* ImageGenerationShare: "none" without row; is_active.
ShareRows == {"none", "active", "revoked"}

VARIABLES
  taskRow,   \* taskRow[t]: committed status
  outputs,   \* outputs[t][i]: committed output i
  shares,    \* shares[t]: "none", "active" or "revoked"
  cancelKey, \* the flag of CancelService for the request
  broker,    \* broker[t]: messages that wait to be delivered
  tries,     \* tries[t]: retries Celery has made
  job,       \* job[w]: what worker w is at
  caller,    \* caller[t]: stage of the create call of t
  canceler,  \* stage of the one cancel call, or the task it has found
  sharer,    \* tasks whose share call has read a finished task
  faults,    \* faults so far
  late       \* tasks whose worker had made its last check when the flag was set

genVars == <<taskRow, outputs, shares, cancelKey, broker, tries, job, caller,
             canceler, sharer, faults, late>>
rest == <<shares, caller, sharer, canceler, late>>

Idle == [at |-> "idle", task |-> NoTask, seen |-> "none", flushed |-> {}, item |-> 0, ok |-> FALSE]

Init ==
  /\ taskRow = [t \in Tasks |-> "none"]
  /\ outputs = [t \in Tasks |-> [i \in Index |-> "none"]]
  /\ shares = [t \in Tasks |-> "none"]
  /\ cancelKey = FALSE
  /\ broker = [t \in Tasks |-> 0]
  /\ tries = [t \in Tasks |-> 0]
  /\ job = [w \in Workers |-> Idle]
  /\ caller = [t \in Tasks |-> "idle"]
  /\ canceler = "idle"
  /\ sharer = {}
  /\ faults = 0
  /\ late = {}

Created == {t \in Tasks : taskRow[t] # "none"}
HasRoom == Cardinality(Created) + faults < MaxLoad

-----------------------------------------------------------------------------
(* The create call: look the request_id up, insert, send the message *)

\* get_by_request_id finds the request's task, or raises when there are several.
LookUp(t) ==
  /\ caller[t] = "idle"
  /\ caller' = [caller EXCEPT ![t] = IF Created = {} THEN "absent" ELSE "done"]
  /\ UNCHANGED <<taskRow, outputs, shares, cancelKey, broker, tries, job, canceler, sharer,
                 faults, late>>

Create(t) ==
  /\ caller[t] = "absent"
  /\ HasRoom
  /\ caller' = [caller EXCEPT ![t] = "done"]
  /\ taskRow' = [taskRow EXCEPT ![t] = "queued"]
  /\ broker' = [broker EXCEPT ![t] = 1]
  /\ UNCHANGED <<outputs, shares, cancelKey, tries, job, canceler, sharer, faults, late>>

-----------------------------------------------------------------------------
(* process_task *)

At(w, s) == job[w].at = s
Go(w, s) == job' = [job EXCEPT ![w].at = s]
Done(w) == job' = [job EXCEPT ![w] = Idle]

\* update_fields or update_status, committed: what the session has flushed
\* becomes visible with it.
Commit(w, status) ==
  LET t == job[w].task IN
  /\ taskRow' = [taskRow EXCEPT ![t] = status]
  /\ outputs' = [outputs EXCEPT ![t] = [i \in Index |->
       IF \E v \in {"url", "asset"} : <<i, v>> \in job[w].flushed
       THEN CHOOSE v \in {"url", "asset"} : <<i, v>> \in job[w].flushed
       ELSE @[i]]]

\* A delivered message: a new session reads the row, and a finished task is left alone.
Take(w, t) ==
  /\ At(w, "idle")
  /\ broker[t] > 0
  /\ broker' = [broker EXCEPT ![t] = @ - 1]
  /\ job' = IF taskRow[t] \in Final THEN job
            ELSE [job EXCEPT ![w] = [Idle EXCEPT !.at = "check0", !.task = t, !.seen = taskRow[t]]]
  /\ UNCHANGED <<taskRow, outputs, cancelKey, tries, faults>> /\ UNCHANGED rest

\* Where process_task goes on after its checks for a cancellation.
AfterCheck(w) ==
  CASE At(w, "check0") -> "start"
    [] At(w, "check1") -> IF job[w].ok THEN "check2" ELSE "fail"
    [] At(w, "check2") -> "persist"
    [] At(w, "check3") -> "finish"

\* The status get() answers with.
InSession(w) == IF job[w].seen = "expired" THEN taskRow[job[w].task] ELSE job[w].seen

\* Mutant of CheckCancel: trusts the status in the session and does not ask Redis.
CheckSession(w) ==
  /\ job[w].at \in {"check0", "check1", "check2", "check3"}
  /\ IF InSession(w) = "canceled" THEN Done(w)
     ELSE job' = [job EXCEPT ![w].at = AfterCheck(w), ![w].seen = InSession(w)]
  /\ UNCHANGED <<taskRow, outputs, cancelKey, broker, tries, faults>> /\ UNCHANGED rest

\* _is_task_canceled and _maybe_cancel_task: a status in the session decides; else
\* the flag is consumed. A canceled task ends the message, and what was flushed
\* is lost with the session.
CheckCancel(w) ==
  /\ job[w].at \in {"check0", "check1", "check2", "check3"}
  /\ IF InSession(w) = "canceled" THEN Done(w) /\ UNCHANGED cancelKey
     ELSE IF InSession(w) \notin Final /\ cancelKey
          THEN cancelKey' = FALSE /\ Go(w, "cancel")
          ELSE /\ job' = [job EXCEPT ![w].at = AfterCheck(w), ![w].seen = InSession(w)]
               /\ UNCHANGED cancelKey
  /\ UNCHANGED <<taskRow, outputs, broker, tries, faults>> /\ UNCHANGED rest

WriteCanceled(w) ==
  /\ At(w, "cancel")
  /\ Commit(w, "canceled")
  /\ Done(w)
  /\ UNCHANGED <<cancelKey, broker, tries, faults>> /\ UNCHANGED rest

\* QUEUED or RUNNING was read earlier: the update is unconditional.
Start(w) ==
  /\ At(w, "start")
  /\ Commit(w, "running")
  /\ job' = [job EXCEPT ![w].at = "execute", ![w].seen = "running"]
  /\ UNCHANGED <<cancelKey, broker, tries, faults>> /\ UNCHANGED rest

\* The workflow answers, with success or not; it may have rolled the session back.
Execute(w) ==
  /\ At(w, "execute")
  /\ \E ok \in BOOLEAN, seen \in {job[w].seen, "expired"} :
       job' = [job EXCEPT ![w].at = "check1", ![w].ok = ok, ![w].seen = seen]
  /\ UNCHANGED <<taskRow, outputs, cancelKey, broker, tries, faults>> /\ UNCHANGED rest

\* The workflow raises: FAILED, without a look at the flag.
ExecuteCrashes(w) ==
  /\ At(w, "execute")
  /\ Go(w, "fail")
  /\ UNCHANGED <<taskRow, outputs, cancelKey, broker, tries, faults>> /\ UNCHANGED rest

\* FAILED: the workflow did not succeed, or it returned no image.
Fail(w) ==
  /\ At(w, "fail")
  /\ Commit(w, "failed")
  /\ Done(w)
  /\ UNCHANGED <<cancelKey, broker, tries, faults>> /\ UNCHANGED rest

\* The response has n images.
Respond(w) ==
  /\ At(w, "persist")
  /\ \E n \in 0..Items :
       job' = [job EXCEPT ![w].at = IF n = 0 THEN "fail" ELSE "store", ![w].item = n]
  /\ UNCHANGED <<taskRow, outputs, cancelKey, broker, tries, faults>> /\ UNCHANGED rest

Stored(w) == {f[1] : f \in job[w].flushed}
NextItem(w) == Cardinality(Stored(w)) + 1

\* _store_bytes of a new image commits its asset, and with it the outputs of the
\* images before.
StoreNew(w) ==
  /\ At(w, "store")
  /\ Commit(w, taskRow[job[w].task])
  /\ Go(w, "insert_asset")
  /\ UNCHANGED <<cancelKey, broker, tries, faults>> /\ UNCHANGED rest

\* A known image brings its asset; one that cannot be fetched only its address.
StoreKnown(w) ==
  /\ At(w, "store")
  /\ \E s \in {"insert_asset", "insert_url"} : Go(w, s)
  /\ UNCHANGED <<taskRow, outputs, cancelKey, broker, tries, faults>> /\ UNCHANGED rest

\* Somebody else has inserted output i of t and not committed: the index makes the
\* insert wait.
Held(w, t, i) == \E v \in Workers \ {w} : job[v].task = t /\ i \in Stored(v) /\ outputs[t][i] = "none"

\* output_repo.create flushes; the last image is followed by the third check.
Insert(w) ==
  /\ job[w].at \in {"insert_asset", "insert_url"}
  /\ ~Held(w, job[w].task, NextItem(w))
  /\ outputs[job[w].task][NextItem(w)] = "none"
  /\ job' = [job EXCEPT
       ![w].flushed = @ \cup {<<NextItem(w), IF At(w, "insert_asset") THEN "asset" ELSE "url">>},
       ![w].at = IF NextItem(w) = job[w].item THEN "check3" ELSE "store"]
  /\ UNCHANGED <<taskRow, outputs, cancelKey, broker, tries, faults>> /\ UNCHANGED rest

\* An exception leaves process_task; Celery runs it again, up to max_retries times.
Retry(w) ==
  LET t == job[w].task IN
  /\ Done(w)
  /\ tries' = [tries EXCEPT ![t] = IF @ < MaxRetries THEN @ + 1 ELSE @]
  /\ broker' = [broker EXCEPT ![t] = IF tries[t] < MaxRetries THEN @ + 1 ELSE @]

\* The index (task_id, output_index) rejects an output that an earlier attempt, or
\* another worker, has committed.
InsertConflicts(w) ==
  /\ job[w].at \in {"insert_asset", "insert_url"}
  /\ outputs[job[w].task][NextItem(w)] # "none"
  /\ Retry(w)
  /\ UNCHANGED <<taskRow, outputs, cancelKey, faults>> /\ UNCHANGED rest

\* SUCCEEDED is committed together with the outputs that wait in the session.
Finish(w) ==
  /\ At(w, "finish")
  /\ Commit(w, "succeeded")
  /\ Done(w)
  /\ UNCHANGED <<cancelKey, broker, tries, faults>> /\ UNCHANGED rest

-----------------------------------------------------------------------------
(* Faults *)

Fault == HasRoom /\ faults' = faults + 1

\* The store fails and process_task raises.
StoreFails(w) ==
  /\ At(w, "store")
  /\ Fault
  /\ Retry(w)
  /\ UNCHANGED <<taskRow, outputs, cancelKey>> /\ UNCHANGED rest

\* task_acks_late and task_reject_on_worker_lost: the message comes back.
WorkerCrash(w) ==
  /\ ~At(w, "idle")
  /\ Fault
  /\ broker' = [broker EXCEPT ![job[w].task] = @ + 1]
  /\ Done(w)
  /\ UNCHANGED <<taskRow, outputs, cancelKey, tries>> /\ UNCHANGED rest

\* The broker delivers a message again that has been unacknowledged for too long.
Redeliver(w) ==
  /\ ~At(w, "idle")
  /\ Fault
  /\ broker' = [broker EXCEPT ![job[w].task] = @ + 1]
  /\ UNCHANGED <<taskRow, outputs, cancelKey, tries, job>> /\ UNCHANGED rest

\* The flag lives for ten minutes.
CancelExpires ==
  /\ cancelKey
  /\ Fault
  /\ cancelKey' = FALSE
  /\ UNCHANGED <<taskRow, outputs, broker, tries, job>> /\ UNCHANGED rest

-----------------------------------------------------------------------------
(* The cancel call: set the flag, look the task up, write the row *)

MarkCancel ==
  /\ canceler = "idle"
  /\ canceler' = "marked"
  /\ cancelKey' = TRUE
  /\ late' = {t \in Tasks : taskRow[t] \in Final}
             \cup {job[w].task : w \in {v \in Workers : At(v, "finish") \/ At(v, "fail")}}
  /\ UNCHANGED <<taskRow, outputs, shares, broker, tries, job, caller, sharer, faults>>

\* Several tasks of one request_id make scalar_one_or_none raise.
FindTask ==
  /\ canceler = "marked"
  /\ IF \E t \in Tasks : Created = {t} /\ taskRow[t] \notin Final
     THEN \E t \in Created : canceler' = t
     ELSE canceler' = "done"
  /\ UNCHANGED <<taskRow, outputs, shares, cancelKey, broker, tries, job, caller, sharer,
                 faults, late>>

\* The task found above is written without a condition, whatever it has become.
WriteCancel(t) ==
  /\ canceler = t
  /\ canceler' = "done"
  /\ taskRow' = [taskRow EXCEPT ![t] = "canceled"]
  /\ UNCHANGED <<outputs, shares, cancelKey, broker, tries, job, caller, sharer, faults, late>>

-----------------------------------------------------------------------------
(* Sharing, and the reads that fetch missing assets *)

ReadForShare(t) ==
  /\ t \notin sharer /\ shares[t] # "active"
  /\ taskRow[t] = "succeeded"
  /\ \E i \in Index : outputs[t][i] # "none"
  /\ sharer' = sharer \cup {t}
  /\ UNCHANGED <<taskRow, outputs, shares, cancelKey, broker, tries, job, caller, canceler,
                 faults, late>>

Share(t) ==
  /\ t \in sharer
  /\ sharer' = sharer \ {t}
  /\ shares' = [shares EXCEPT ![t] = "active"]
  /\ UNCHANGED <<taskRow, outputs, cancelKey, broker, tries, job, caller, canceler, faults, late>>

Unshare(t) ==
  /\ shares[t] = "active"
  /\ shares' = [shares EXCEPT ![t] = "revoked"]
  /\ UNCHANGED <<taskRow, outputs, cancelKey, broker, tries, job, caller, canceler, sharer,
                 faults, late>>

\* ensure_outputs_have_assets, on the way to a list, a detail or a preview.
Hydrate(t, i) ==
  /\ taskRow[t] = "succeeded" \/ shares[t] = "active"
  /\ outputs[t][i] = "url"
  /\ outputs' = [outputs EXCEPT ![t][i] = "asset"]
  /\ UNCHANGED <<taskRow, shares, cancelKey, broker, tries, job, caller, canceler, sharer,
                 faults, late>>

-----------------------------------------------------------------------------
WorkerStep(w) ==
  \/ \E t \in Tasks : Take(w, t)
  \/ CheckCancel(w) \/ WriteCanceled(w) \/ Start(w) \/ Execute(w) \/ ExecuteCrashes(w)
  \/ Fail(w) \/ Respond(w) \/ StoreNew(w) \/ StoreKnown(w) \/ Insert(w)
  \/ InsertConflicts(w) \/ Finish(w)

WorkerFault(w) == StoreFails(w) \/ WorkerCrash(w) \/ Redeliver(w)

Next ==
  \/ \E w \in Workers : WorkerStep(w) \/ WorkerFault(w)
  \/ \E t \in Tasks : LookUp(t) \/ Create(t) \/ WriteCancel(t) \/ ReadForShare(t)
                      \/ Share(t) \/ Unshare(t) \/ \E i \in Index : Hydrate(t, i)
  \/ MarkCancel \/ FindTask \/ CancelExpires

Fairness == \A w \in Workers : WF_genVars(WorkerStep(w))

Spec == Init /\ [][Next]_genVars /\ Fairness

-----------------------------------------------------------------------------
(* Properties *)

\* The rows have a status, an output and a share that their columns allow.
TypeOK ==
  /\ taskRow \in [Tasks -> Status]
  /\ outputs \in [Tasks -> [Index -> Output]]
  /\ shares \in [Tasks -> ShareRows]
  /\ tries \in [Tasks -> 0..MaxRetries]

\* A task that is shown as succeeded, or shared, has an output to show, although the
\* status is overwritten by workers and cancellations that do not know of each
\* other, and although a share is written after its task was read.
ResultsExist ==
  \A t \in Tasks : taskRow[t] = "succeeded" \/ shares[t] = "active" \/ t \in sharer
    => \E i \in Index : outputs[t][i] # "none"

\* A cancellation that comes before the worker's last check is not overtaken by
\* success: the flag is still there when the row's CANCELED was overwritten with
\* RUNNING. It takes one task for the request and no fault meanwhile.
CancelHonoured ==
  \A t \in Tasks : canceler # "idle" /\ faults = 0 /\ Created = {t} /\ taskRow[t] = "succeeded"
    => t \in late

\* Without faults every task of a sent message comes to an end, canceled or not. A
\* fault can leave it RUNNING for ever: what an attempt has committed makes the
\* next ones fail at the index.
TasksEnd ==
  \A t \in Tasks : []<>(taskRow[t] \in Final \cup {"none"} \/ faults > 0)

=============================================================================
