------------------------------- MODULE MCJobs -------------------------------
(***************************************************************************)
(* What the workers do in the background: they generate images, run        *)
(* monitors, deliver notifications and alerts, index documents, try and    *)
(* heal skills, and credit recharges. Every one of them can be cancelled,  *)
(* delivered twice, or die half-way. The components share no state here,   *)
(* so a behaviour is one of a single component, its subject, while the     *)
(* variables of the others rest. A component that is looked at under       *)
(* several sets of constants has a table of them, with a row for each      *)
(* subject.                                                                *)
(***************************************************************************)
EXTENDS Naturals, Sequences, FiniteSets

CONSTANTS
  Generations,  \* the constants of GenerationTasks, by subject
  Watches,      \* of Monitors
  Libraries,    \* of Documents
  Registries,   \* of SkillRegistry
  Notes, Readers, Online, Posters, MaxFaulty, ChannelOrder, AlertRetries,  \* Notifications
  Orders, Handlers, Rates, MaxDays, MaxAdjusts, MaxCrashes                 \* Recharges

\* Bounds are numbers, sentinels are no names of tasks or models, and who is online reads.
ASSUME JobsAssumption ==
  /\ \A n \in DOMAIN Generations :
       /\ Generations[n].items \in Nat /\ Generations[n].retries \in Nat
       /\ {"none", "idle", "marked", "done"} \cap Generations[n].tasks = {}
  /\ \A n \in DOMAIN Watches : Watches[n].errors \in Nat /\ Watches[n].retries \in Nat
  /\ \A n \in DOMAIN Libraries :
       /\ Libraries[n].queued \in Nat /\ Libraries[n].slips \in Nat
       /\ "no model" \notin Libraries[n].models
  /\ \A n \in DOMAIN Registries :
       Registries[n].code \in Nat /\ Registries[n].heals \in Nat /\ Registries[n].fails \in Nat
  /\ Online \subseteq Readers /\ AlertRetries \in Nat
  /\ Rates \subseteq Nat /\ IsFiniteSet(Handlers)
  /\ MaxDays \in Nat /\ MaxAdjusts \in Nat /\ MaxCrashes \in Nat

VARIABLES subject,
          taskRow, outputs, shares, cancelKey, broker, tries, job, caller, canceler, sharer,
          faults, late,
          monitor, zset, post, tick, run, claim, commands, trouble,
          notice, outbox, poster, receipt, wall, socket, restRead, faulty,
          channel, alert,
          doc, parent, points, model, queued, indexer, deleter, slips,
          row, skillPoints, syncs, worker, letIn, rewritten,
          policy, trade, acked, order, txn, quota, handler, adjusted, days, crashes

Generation(n) == INSTANCE GenerationTasks
  WITH Tasks <- Generations[n].tasks, Workers <- Generations[n].workers,
       Items <- Generations[n].items, MaxRetries <- Generations[n].retries,
       MaxLoad <- Generations[n].load, NoTask <- "none"

Watch(n) == INSTANCE Monitors
  WITH Monitors <- Watches[n].monitors, Workers <- Watches[n].workers,
       Agents <- Watches[n].agents, MaxErrors <- Watches[n].errors,
       MaxRetries <- Watches[n].retries, MaxCommands <- Watches[n].commands,
       MaxTrouble <- Watches[n].trouble

Library(n) == INSTANCE Documents
  WITH Docs <- Libraries[n].docs, Folders <- Libraries[n].folders,
       Indexers <- Libraries[n].indexers, Requests <- Libraries[n].requests,
       Models <- Libraries[n].models, Sharded <- Libraries[n].sharded,
       MaxQueued <- Libraries[n].queued, MaxSlips <- Libraries[n].slips

Registry(n) == INSTANCE SkillRegistry
  WITH Skills <- Registries[n].skills, Builtins <- Registries[n].builtins,
       Workers <- Registries[n].workers, MaxCode <- Registries[n].code,
       HealLimit <- Registries[n].heals, FailLimit <- Registries[n].fails,
       points <- skillPoints

Notified == INSTANCE Notifications

Paid == INSTANCE Recharges

\* The rows of the run: one task with redeliveries, retries and crashes, one whose
\* response has two images, and two tasks of one request_id; two desktops that pull the
\* user's monitors, and a worker that tries again; two documents that are copied and
\* deleted, and two indexers and a setting that changes; a skill from a repository, and
\* one shipped with the program.
MCGenerations ==
  [generation |-> [tasks |-> {"t1"}, workers |-> {"w1", "w2"}, items |-> 1, retries |-> 1,
                   load |-> 2],
   images |-> [tasks |-> {"t1"}, workers |-> {"w1"}, items |-> 2, retries |-> 1, load |-> 2],
   two_tasks |-> [tasks |-> {"t1", "t2"}, workers |-> {"w1"}, items |-> 1, retries |-> 0,
                  load |-> 2]]
MCWatches ==
  [pulled |-> [monitors |-> {"m1"}, workers |-> {"w1"}, agents |-> {"a1", "a2"},
               errors |-> 1, retries |-> 0, commands |-> 1, trouble |-> 1],
   retried |-> [monitors |-> {"m1"}, workers |-> {"w1"}, agents |-> {},
                errors |-> 0, retries |-> 1, commands |-> 1, trouble |-> 1]]
MCLibraries ==
  [files |-> [docs |-> {"d1", "d2"}, folders |-> {"f1"}, indexers |-> {"w1"},
              requests |-> {"r1"}, models |-> {"m1"}, sharded |-> TRUE, queued |-> 1,
              slips |-> 0],
   indexed |-> [docs |-> {"d1"}, folders |-> {"f1"}, indexers |-> {"w1", "w2"},
                requests |-> {"r1"}, models |-> {"m1", "m2"}, sharded |-> TRUE, queued |-> 1,
                slips |-> 1]]
MCRegistries ==
  [published |-> [skills |-> {"s1"}, builtins |-> {}, workers |-> {"w1"}, code |-> 1,
                  heals |-> 1, fails |-> 2],
   shipped |-> [skills |-> {}, builtins |-> {"b1"}, workers |-> {"w1"}, code |-> 2,
                heals |-> 1, fails |-> 1]]
MCChannels == <<"feishu", "email", "bot">>

generation == <<taskRow, outputs, shares, cancelKey, broker, tries, job, caller, canceler,
                sharer, faults, late>>
monitors == <<monitor, zset, post, tick, run, claim, commands, trouble>>
messages == <<notice, outbox, poster, receipt, wall, socket, restRead, faulty>>
alerts == <<channel, alert>>
documents == <<doc, parent, points, model, queued, indexer, deleter, slips>>
skills == <<row, skillPoints, syncs, worker, letIn, rewritten>>
money == <<policy, trade, acked, order, txn, quota, handler, adjusted, days, crashes>>
jobVars == <<subject, generation, monitors, messages, alerts, documents, skills, money>>

Subjects ==
  DOMAIN Generations \cup DOMAIN Watches \cup DOMAIN Libraries \cup DOMAIN Registries
    \cup {"inbox", "alerts", "recharge"}

\* The row a component starts with: the subject's, or, while it rests, any one.
Starts(table, n) ==
  n = IF subject \in DOMAIN table THEN subject ELSE CHOOSE k \in DOMAIN table : TRUE

\* What may start in several ways is fixed while it rests.
Init ==
  /\ subject \in Subjects
  /\ \E n \in DOMAIN Generations : Starts(Generations, n) /\ Generation(n)!Init
  /\ \E n \in DOMAIN Watches : Starts(Watches, n) /\ Watch(n)!Init
  /\ \E n \in DOMAIN Libraries :
       /\ Starts(Libraries, n) /\ Library(n)!Init
       /\ subject # n => model = CHOOSE m \in Libraries[n].models : TRUE
  /\ \E n \in DOMAIN Registries : Starts(Registries, n) /\ Registry(n)!Init
  /\ Notified!Init
  /\ Paid!Init
  /\ subject # "recharge" => policy = CHOOSE r \in Rates : TRUE

GenerationMoves ==
  /\ \E n \in DOMAIN Generations : subject = n /\ Generation(n)!Next
  /\ UNCHANGED <<subject, monitors, messages, alerts, documents, skills, money>>

MonitorsMove ==
  /\ \E n \in DOMAIN Watches : subject = n /\ Watch(n)!Next
  /\ UNCHANGED <<subject, generation, messages, alerts, documents, skills, money>>

MessagesMove ==
  /\ subject = "inbox" /\ Notified!InboxNext
  /\ UNCHANGED <<subject, generation, monitors, alerts, documents, skills, money>>

AlertsMove ==
  /\ subject = "alerts" /\ Notified!ChannelNext
  /\ UNCHANGED <<subject, generation, monitors, messages, documents, skills, money>>

DocumentsMove ==
  /\ \E n \in DOMAIN Libraries : subject = n /\ Library(n)!Next
  /\ UNCHANGED <<subject, generation, monitors, messages, alerts, skills, money>>

SkillsMove ==
  /\ \E n \in DOMAIN Registries : subject = n /\ Registry(n)!Next
  /\ UNCHANGED <<subject, generation, monitors, messages, alerts, documents, money>>

MoneyMoves ==
  /\ subject = "recharge" /\ Paid!Next
  /\ UNCHANGED <<subject, generation, monitors, messages, alerts, documents, skills>>

Next ==
  \/ GenerationMoves \/ MonitorsMove \/ MessagesMove \/ AlertsMove \/ DocumentsMove
  \/ SkillsMove \/ MoneyMoves

\* The monitors and the libraries whose progress JobsEnd is about.
Followed == {"retried", "indexed"}

\* Workers, requests under way and the scheduler go on, messages are delivered, time
\* passes, and Alipay repeats a notification until it is answered.
Fairness ==
  /\ \A n \in DOMAIN Generations : \A w \in Generations[n].workers :
       WF_generation(subject = n /\ Generation(n)!WorkerStep(w))
  /\ \A n \in DOMAIN Watches \cap Followed :
       /\ WF_monitors(subject = n /\ Watch(n)!Pass)
       /\ WF_monitors(subject = n /\ Watch(n)!BootstrapSchedule)
       /\ \A m \in Watches[n].monitors :
            /\ WF_monitors(subject = n /\ Watch(n)!UpsertSchedule(m))
            /\ WF_monitors(subject = n /\ Watch(n)!RemoveSchedule(m))
            /\ WF_monitors(subject = n /\ Watch(n)!RowDue(m))
            /\ WF_monitors(subject = n /\ Watch(n)!EntryDue(m))
            /\ WF_monitors(subject = n /\ Watch(n)!Start(m))
       /\ \A w \in Watches[n].workers : WF_monitors(subject = n /\ Watch(n)!Finish(w))
  /\ \A n \in DOMAIN Libraries \cap Followed :
       /\ \A w \in Libraries[n].indexers :
            WF_documents(subject = n /\ Library(n)!IndexerStep(w))
       /\ \A d \in Libraries[n].docs :
            SF_documents(subject = n /\ \E w \in Libraries[n].indexers : Library(n)!TakeTask(w, d))
  /\ \A p \in Posters : WF_messages(subject = "inbox" /\ Notified!Deliver(p))
  /\ \A u \in Online : WF_messages(subject = "inbox" /\ Notified!Poll(u))
  /\ \A n \in DOMAIN Registries : \A w \in Registries[n].workers :
       WF_skills(subject = n /\ Registry(n)!WorkerStep(w))
  /\ \A h \in Handlers : WF_money(subject = "recharge" /\ Paid!HandlerStep(h))
  /\ \A o \in Orders : SF_money(subject = "recharge" /\ \E h \in Handlers : Paid!Notify(h, o))

Spec == Init /\ [][Next]_jobVars /\ Fairness

-----------------------------------------------------------------------------
\* Every row, message and worker of these components keeps its type.
TypesHold ==
  /\ \A n \in DOMAIN Generations : subject = n => Generation(n)!TypeOK
  /\ \A n \in DOMAIN Watches : subject = n => Watch(n)!TypeOK
  /\ \A n \in DOMAIN Libraries : subject = n => Library(n)!TypeOK
  /\ \A n \in DOMAIN Registries : subject = n => Registry(n)!TypeOK
  /\ subject \in {"inbox", "alerts"} => Notified!TypeOK
  /\ subject = "recharge" => Paid!TypeOK

\* What a row says was done was done, and for whoever asked: a task that succeeded or is
\* shared has a result (ResultsExist), a cancelled one succeeds only if its worker was
\* past its last check (CancelHonoured); a monitor is leased to one desktop (OneClaim);
\* what a reader is told is read is read (ReportedIsRead); an alert was offered to every
\* channel before it is given up (TriedEverything); a document is in a folder
\* (PlacesExist), an indexed one can be found (IndexedHasChunks) and one that is being
\* processed has somebody at work (ProcessingIsWorked); a skill is on the market only
\* with an approval (MarketNeedsApproval).
DoneAsRecorded ==
  /\ \A n \in DOMAIN Generations :
       subject = n => Generation(n)!ResultsExist /\ Generation(n)!CancelHonoured
  /\ \A n \in DOMAIN Watches : subject = n => Watch(n)!OneClaim
  /\ subject = "inbox" => Notified!ReportedIsRead
  /\ subject = "alerts" => Notified!TriedEverything
  /\ \A n \in DOMAIN Libraries : subject = n =>
       Library(n)!PlacesExist /\ Library(n)!IndexedHasChunks /\ Library(n)!ProcessingIsWorked
  /\ \A n \in DOMAIN Registries : subject = n => Registry(n)!MarketNeedsApproval

\* No worker that began earlier brings back what was stopped or deleted since: a monitor
\* that its user paused or an error suspended stays so until a command (StoppedStep), a
\* deleted document stays deleted (GoneStep).
EndedStays ==
  [][ /\ \A n \in DOMAIN Watches : subject = n => Watch(n)!StoppedStep
      /\ \A n \in DOMAIN Libraries : subject = n => Library(n)!GoneStep ]_jobVars

\* Whatever was begun comes to an end, with crashes, redeliveries and retries: a queued
\* task ends unless something fails (TasksEnd), a monitor in the cloud runs again and
\* again (CloudRuns), a notification reaches every reader unless a worker dies
\* (EverybodyGetsIt), no document stays in processing (DocumentsSettle), dry runs and
\* repairs of skills end (WorkersEnd), and what was paid is credited (PaidIsCredited).
JobsEnd ==
  /\ Generation("generation")!TasksEnd
  /\ subject = "retried" => Watch("retried")!CloudRuns
  /\ Notified!EverybodyGetsIt
  /\ subject = "indexed" => Library("indexed")!DocumentsSettle
  /\ Registry("published")!WorkersEnd
  /\ Paid!PaidIsCredited

=============================================================================
