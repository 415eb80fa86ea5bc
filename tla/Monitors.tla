------------------------------ MODULE Monitors ------------------------------
(***************************************************************************)
(* Monitors: tasks that an LLM works through on a cron schedule, in the    *)
(* cloud or on the user's desktop.                                         *)
(*                                                                         *)
(* A monitor is a row; the next run of a cloud monitor is also an entry of *)
(* a sorted set in Redis, which the scheduler pops every 30 s.  Commands   *)
(* of the user change the row and send a message that brings the schedule  *)
(* up to date; messages are delivered in any order.  A run takes minutes   *)
(* between reading the row and writing its result, and writes only the     *)
(* columns it changed.                                                     *)
(***************************************************************************)
EXTENDS Integers, FiniteSets

CONSTANTS
  Monitors,     \* monitors
  Workers,      \* workers of the reasoning queue
  Agents,       \* desktops of the user
  MaxErrors,    \* MAX_ERROR_COUNT and _LOCAL_MONITOR_MAX_ERROR_COUNT
  MaxRetries,   \* RETRY_MAX of the reasoning worker
  MaxCommands,  \* bound: commands of users
  MaxTrouble    \* bound: crashes, lost messages, ticks filled by other monitors

VARIABLES
  monitor,   \* monitor[m]: status, on (is_active), target, next (next_run_at), errors
  zset,      \* zset[m]: the score of m in the schedule
  post,      \* post[m]: the Celery messages on their way
  tick,      \* the scheduler's pass: monitors popped, and the rows it will write
  run,       \* run[w]: the monitor a worker runs and what it read of the row
  claim,     \* claim[a]: what a desktop has pulled; fresh until it is due again
  commands,  \* commands given
  trouble    \* faults so far

monitorVars == <<monitor, zset, post, tick, run, claim, commands, trouble>>

Nobody == "none"
Targets == {"cloud", "desktop"}
Statuses == {"active", "paused", "suspended"}
Messages == {<<"upsert", 0>>, <<"remove", 0>>} \cup ({"reasoning"} \X (0..MaxRetries))

NoRun == [monitor |-> Nobody, errors |-> 0, tries |-> 0]
NoClaim == [monitor |-> Nobody, fresh |-> FALSE]
NoTick == [busy |-> FALSE, todo |-> {}, late |-> {}]

\* A row of monitor_task.
MonitorRows == [status : Statuses \cup {"none"}, on : BOOLEAN, target : Targets,
                next : {"none", "later", "due"}, errors : 0..(MaxErrors + 1)]
NoMonitor == [status |-> "none", on |-> FALSE, target |-> "desktop", next |-> "none", errors |-> 0]

Init ==
  /\ monitor = [m \in Monitors |-> NoMonitor]
  /\ zset = [m \in Monitors |-> "out"]
  /\ post = [m \in Monitors |-> {}]
  /\ tick = NoTick
  /\ run = [w \in Workers |-> NoRun]
  /\ claim = [a \in Agents |-> NoClaim]
  /\ commands = 0
  /\ trouble = 0

Active(m) == monitor[m].on /\ monitor[m].status = "active"
ActiveCloud(m) == Active(m) /\ monitor[m].target = "cloud"
Exists(m) == monitor[m].status # "none"

\* The count saturates: only whether it exceeds the limit matters.
Bump(errors) == IF errors > MaxErrors THEN errors ELSE errors + 1

\* A send that fails is logged and forgotten.
Send(m, msg) ==
  \/ post' = [post EXCEPT ![m] = @ \cup {msg}] /\ UNCHANGED trouble
  \/ trouble < MaxTrouble /\ trouble' = trouble + 1 /\ UNCHANGED post

\* _schedule_upsert_async for an active cloud monitor, else _schedule_remove_async.
Reschedule(m, row) ==
  Send(m, IF row.on /\ row.status = "active" /\ row.target = "cloud"
          THEN <<"upsert", 0>> ELSE <<"remove", 0>>)

-----------------------------------------------------------------------------
(* Commands of the user: a committed change of the row, then the message. *)

Commanded == commands < MaxCommands /\ commands' = commands + 1

\* create_task: active, with the next run of its cron expression.
CreateTask(m, target) ==
  LET row == [status |-> "active", on |-> TRUE, target |-> target, next |-> "later", errors |-> 0]
  IN
  /\ ~Exists(m)
  /\ monitor' = [monitor EXCEPT ![m] = row]
  /\ Reschedule(m, row)
  /\ UNCHANGED <<zset, tick, run, claim, commands>>

\* update_task: any status and target.
UpdateTask(m, status, target) ==
  LET row == [monitor[m] EXCEPT !.status = status, !.target = target] IN
  /\ Commanded
  /\ Exists(m)
  /\ monitor' = [monitor EXCEPT ![m] = row]
  /\ Reschedule(m, row)
  /\ UNCHANGED <<zset, tick, run, claim>>

\* pause_task and resume_task; a resumed task keeps its error count, and its
\* target alone decides the message.
PauseTask(m) ==
  /\ Commanded
  /\ Exists(m)
  /\ monitor' = [monitor EXCEPT ![m].status = "paused"]
  /\ Send(m, <<"remove", 0>>)
  /\ UNCHANGED <<zset, tick, run, claim>>

ResumeTask(m) ==
  /\ Commanded
  /\ Exists(m)
  /\ monitor' = [monitor EXCEPT ![m].status = "active"]
  /\ Send(m, <<IF monitor[m].target = "cloud" THEN "upsert" ELSE "remove", 0>>)
  /\ UNCHANGED <<zset, tick, run, claim>>

\* delete_task clears is_active.
DeleteTask(m) ==
  /\ Commanded
  /\ Exists(m)
  /\ monitor' = [monitor EXCEPT ![m].on = FALSE]
  /\ Send(m, <<"remove", 0>>)
  /\ UNCHANGED <<zset, tick, run, claim>>

\* trigger_monitor: a run at once, or request_local_execution for a desktop.
TriggerCloud(m) ==
  /\ Commanded
  /\ monitor[m].status = "active" /\ monitor[m].target = "cloud"
  /\ post' = [post EXCEPT ![m] = @ \cup {<<"reasoning", 0>>}]
  /\ UNCHANGED <<monitor, zset, tick, run, claim, trouble>>

\* claim'[a] no longer stands for the last time m was due.
Lapse(m) == [a \in Agents |-> IF claim[a].monitor = m THEN [claim[a] EXCEPT !.fresh = FALSE]
                                                      ELSE claim[a]]

RequestLocalExecution(m) ==
  /\ Commanded
  /\ monitor[m].status = "active" /\ monitor[m].target = "desktop"
  /\ monitor' = [monitor EXCEPT ![m].next = "due"]
  /\ claim' = Lapse(m)
  /\ UNCHANGED <<zset, post, tick, run, trouble>>

-----------------------------------------------------------------------------
(* The schedule *)

Took(m, msg) == post' = [post EXCEPT ![m] = @ \ {msg}]

UpsertSchedule(m) ==
  /\ <<"upsert", 0>> \in post[m]
  /\ Took(m, <<"upsert", 0>>)
  /\ monitor' = [monitor EXCEPT ![m].next = IF Active(m) THEN "later" ELSE "none"]
  /\ zset' = [zset EXCEPT ![m] = IF Active(m) THEN "later" ELSE "out"]
  /\ UNCHANGED <<tick, run, claim, commands, trouble>>

RemoveSchedule(m) ==
  /\ <<"remove", 0>> \in post[m]
  /\ Took(m, <<"remove", 0>>)
  /\ monitor' = [monitor EXCEPT ![m].next = "none"]
  /\ zset' = [zset EXCEPT ![m] = "out"]
  /\ UNCHANGED <<tick, run, claim, commands, trouble>>

\* _zset_pop_due_task_ids takes the due entries out at once; of their rows the
\* scheduler keeps the active ones of the cloud, and puts back those not due yet.
PopDue ==
  LET ids == {m \in Monitors : zset[m] = "due"}
      early == {m \in ids : Active(m) /\ monitor[m].next = "later"}
  IN
  /\ ~tick.busy
  /\ ids # {}
  /\ zset' = [m \in Monitors |-> IF m \in early THEN "later" ELSE IF m \in ids THEN "out" ELSE zset[m]]
  /\ tick' = [busy |-> TRUE, todo |-> {m \in ids \ early : ActiveCloud(m)}, late |-> {}]
  /\ UNCHANGED <<monitor, post, run, claim, commands, trouble>>

\* Triggered, or deferred when other monitors have filled the tick; either way it
\* is put back for later.
TriggerDue(m) ==
  /\ m \in tick.todo
  /\ tick' = [tick EXCEPT !.todo = @ \ {m}, !.late = @ \cup {m}]
  /\ zset' = [zset EXCEPT ![m] = "later"]
  /\ Send(m, <<"reasoning", 0>>)
  /\ UNCHANGED <<monitor, run, claim, commands>>

\* The commit at the end of the pass.
CommitTick ==
  /\ tick.busy
  /\ tick.todo = {}
  /\ monitor' = [m \in Monitors |-> IF m \in tick.late THEN [monitor[m] EXCEPT !.next = "later"]
                                                       ELSE monitor[m]]
  /\ tick' = NoTick
  /\ UNCHANGED <<zset, post, run, claim, commands, trouble>>

\* The worker dies: what was popped and not put back is in the schedule no more.
TickDies ==
  /\ tick.busy
  /\ trouble < MaxTrouble
  /\ trouble' = trouble + 1
  /\ tick' = NoTick
  /\ UNCHANGED <<monitor, zset, post, run, claim, commands>>

\* Without Redis the rows themselves are scanned.
ScanRows ==
  LET ids == {m \in Monitors : ActiveCloud(m) /\ monitor[m].next \in {"none", "due"}} IN
  /\ ~tick.busy
  /\ trouble < MaxTrouble
  /\ trouble' = trouble + 1
  /\ ids # {}
  /\ post' = [m \in Monitors |-> IF m \in ids THEN post[m] \cup {<<"reasoning", 0>>} ELSE post[m]]
  /\ monitor' = [m \in Monitors |-> IF m \in ids THEN [monitor[m] EXCEPT !.next = "later"]
                                                 ELSE monitor[m]]
  /\ UNCHANGED <<zset, tick, run, claim, commands>>

\* _bootstrap_schedule, every ten minutes: every active cloud monitor is put into
\* the schedule, with a next run if it has none.
BootstrapSchedule ==
  LET ids == {m \in Monitors : ActiveCloud(m)} IN
  /\ monitor' = [m \in Monitors |-> IF m \in ids /\ monitor[m].next = "none"
                                    THEN [monitor[m] EXCEPT !.next = "later"] ELSE monitor[m]]
  /\ zset' = [m \in Monitors |-> IF m \notin ids THEN zset[m]
                                 ELSE IF monitor[m].next = "due" THEN "due" ELSE "later"]
  /\ UNCHANGED <<post, tick, run, claim, commands, trouble>>

\* Time passes: a next run, or an entry of the schedule, falls due.
RowDue(m) ==
  /\ monitor[m].next = "later"
  /\ monitor' = [monitor EXCEPT ![m].next = "due"]
  /\ claim' = Lapse(m)
  /\ UNCHANGED <<zset, post, tick, run, commands, trouble>>

EntryDue(m) ==
  /\ zset[m] = "later"
  /\ zset' = [zset EXCEPT ![m] = "due"]
  /\ UNCHANGED <<monitor, post, tick, run, claim, commands, trouble>>

-----------------------------------------------------------------------------
(* Runs in the cloud: trigger_reasoning_task forwards to the reasoning queue. *)

\* _execute_reasoning_flow reads the row; a monitor that is not active is skipped.
StartReasoning(w, m, k) ==
  /\ run[w] = NoRun
  /\ <<"reasoning", k>> \in post[m]
  /\ Took(m, <<"reasoning", k>>)
  /\ run' = IF Active(m) THEN [run EXCEPT ![w] = [monitor |-> m, errors |-> monitor[m].errors, tries |-> k]]
                         ELSE run
  /\ UNCHANGED <<monitor, zset, tick, claim, commands, trouble>>

Done(w) == run' = [run EXCEPT ![w] = NoRun]

\* The result, the next run, and no errors any more: a column set to the value
\* read is not written.
Succeed(w) ==
  LET m == run[w].monitor IN
  /\ run[w] # NoRun
  /\ monitor' = [monitor EXCEPT ![m].errors = IF run[w].errors = 0 THEN @ ELSE 0,
                                ![m].next = "later"]
  /\ Done(w)
  /\ UNCHANGED <<zset, post, tick, claim, commands, trouble>>

\* One error more than it read; too many suspend the monitor.
CountError(row, errors) ==
  [row EXCEPT !.errors = Bump(errors),
              !.status = IF Bump(errors) > MaxErrors THEN "suspended" ELSE @]

\* The workflow reports a failure, or raises: then Celery delivers the message
\* again, up to max_retries times, and after that it is a dead letter.
Fail(w, raised) ==
  LET m == run[w].monitor
      k == run[w].tries + 1
  IN
  /\ run[w] # NoRun
  /\ monitor' = [monitor EXCEPT ![m] = CountError(@, run[w].errors)]
  /\ post' = IF raised /\ k <= MaxRetries THEN [post EXCEPT ![m] = @ \cup {<<"reasoning", k>>}] ELSE post
  /\ Done(w)
  /\ UNCHANGED <<zset, tick, claim, commands, trouble>>

RunDies(w) ==
  /\ run[w] # NoRun
  /\ trouble < MaxTrouble
  /\ trouble' = trouble + 1
  /\ Done(w)
  /\ UNCHANGED <<monitor, zset, post, tick, claim, commands>>

-----------------------------------------------------------------------------
(* Runs on a desktop *)

\* Mutant of PullLocalTasks: the monitor stays due while a desktop runs it.
PullWithoutLease(a, m) ==
  /\ claim[a] = NoClaim
  /\ Active(m) /\ monitor[m].target = "desktop" /\ monitor[m].next = "due"
  /\ claim' = [claim EXCEPT ![a] = [monitor |-> m, fresh |-> TRUE]]
  /\ UNCHANGED <<monitor, zset, post, tick, run, commands, trouble>>

\* pull_local_tasks: under the user's lock, due monitors are leased to the desktop.
PullLocalTasks(a, m) ==
  /\ claim[a] = NoClaim
  /\ Active(m) /\ monitor[m].target = "desktop" /\ monitor[m].next = "due"
  /\ monitor' = [monitor EXCEPT ![m].next = "later"]
  /\ claim' = [claim EXCEPT ![a] = [monitor |-> m, fresh |-> TRUE]]
  /\ UNCHANGED <<zset, post, tick, run, commands, trouble>>

\* report_local_execution: however late, and whatever the status is by now.
ReportLocalExecution(a, outcome) ==
  LET m == claim[a].monitor
      row == [monitor[m] EXCEPT !.next = "later"]
  IN
  /\ claim[a] # NoClaim
  /\ monitor[m].target = "desktop"
  /\ monitor' = [monitor EXCEPT ![m] =
       CASE outcome = "success" -> [row EXCEPT !.errors = 0]
         [] outcome = "failure" -> CountError(row, row.errors)
         [] outcome = "skipped" -> row]
  /\ claim' = [claim EXCEPT ![a] = NoClaim]
  /\ Send(m, <<"remove", 0>>)
  /\ UNCHANGED <<zset, tick, run, commands>>

\* The desktop never reports, or the monitor has moved to the cloud.
Abandon(a) ==
  /\ claim[a] # NoClaim
  /\ claim' = [claim EXCEPT ![a] = NoClaim]
  /\ UNCHANGED <<monitor, zset, post, tick, run, commands, trouble>>

-----------------------------------------------------------------------------
Command(m) ==
  \/ PauseTask(m) \/ ResumeTask(m) \/ DeleteTask(m) \/ TriggerCloud(m) \/ RequestLocalExecution(m)
  \/ \E target \in Targets :
       CreateTask(m, target) \/ \E status \in Statuses : UpdateTask(m, status, target)

Deliver(m) == UpsertSchedule(m) \/ RemoveSchedule(m)
Pass == PopDue \/ CommitTick \/ \E m \in Monitors : TriggerDue(m)
Start(m) == \E w \in Workers, k \in 0..MaxRetries : StartReasoning(w, m, k)
Finish(w) == Succeed(w) \/ \E raised \in BOOLEAN : Fail(w, raised)

Next ==
  \/ Pass \/ TickDies \/ ScanRows \/ BootstrapSchedule
  \/ \E m \in Monitors : Command(m) \/ Deliver(m) \/ RowDue(m) \/ EntryDue(m) \/ Start(m)
  \/ \E w \in Workers : Finish(w) \/ RunDies(w)
  \/ \E a \in Agents :
       \/ Abandon(a)
       \/ \E m \in Monitors : PullLocalTasks(a, m)
       \/ \E outcome \in {"success", "failure", "skipped"} : ReportLocalExecution(a, outcome)

\* Beat runs the scheduler and the bootstrap for ever, messages are delivered,
\* time passes, and a run ends: the orchestrator's steps have timeouts.
Fairness ==
  /\ WF_monitorVars(Pass)
  /\ WF_monitorVars(BootstrapSchedule)
  /\ \A m \in Monitors : /\ WF_monitorVars(UpsertSchedule(m)) /\ WF_monitorVars(RemoveSchedule(m))
                         /\ WF_monitorVars(RowDue(m)) /\ WF_monitorVars(EntryDue(m))
                         /\ WF_monitorVars(Start(m))
  /\ \A w \in Workers : WF_monitorVars(Finish(w))

Spec == Init /\ [][Next]_monitorVars /\ Fairness

-----------------------------------------------------------------------------
\* Rows, the schedule, messages, runs and claims stay in range.
TypeOK ==
  /\ monitor \in [Monitors -> MonitorRows]
  /\ zset \in [Monitors -> {"out", "later", "due"}]
  /\ post \in [Monitors -> SUBSET Messages]
  /\ tick.todo \cup tick.late \subseteq Monitors
  /\ \A w \in Workers : run[w].monitor \in Monitors \cup {Nobody} /\ run[w].tries \in 0..MaxRetries
  /\ \A a \in Agents : claim[a].monitor \in Monitors \cup {Nobody}

\* Each time a monitor falls due it goes to one desktop: two hold it only when its
\* lease ran out, or the user asked for it again (pull_local_tasks).
OneClaim ==
  \A a, b \in Agents : (claim[a].fresh /\ claim[b].fresh /\ a # b) => claim[a].monitor # claim[b].monitor

\* What the user or the circuit breaker stopped stays stopped until a command: a
\* run or a report that began earlier does not bring it back (_execute_reasoning_flow,
\* report_local_execution).
StoppedStep ==
  \A m \in Monitors : (Exists(m) /\ ~Active(m) /\ commands' = commands) => ~Active(m)'
StoppedStays == [][StoppedStep]_monitorVars

\* A cloud monitor left active runs again and again, although entries are lost when
\* the scheduler dies after it popped them and messages overtake one another:
\* _bootstrap_schedule puts them back.
CloudRuns ==
  \A m \in Monitors : <>[]ActiveCloud(m) => []<>(\E w \in Workers : run[w].monitor = m)

\* The same for the default target: a desktop monitor left active falls due again
\* and again. Not so: the task that takes a desktop monitor out of the schedule
\* clears its next run.
DesktopFallsDue ==
  \A m \in Monitors : <>[](Active(m) /\ monitor[m].target = "desktop") => []<>(monitor[m].next = "due")
=============================================================================
