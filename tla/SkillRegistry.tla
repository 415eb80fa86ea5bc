--------------------------- MODULE SkillRegistry ---------------------------
(***************************************************************************)
(* The registry of skills: repositories ingested by administrators or      *)
(* submitted to the plugin market, the security review and the             *)
(* administrator's decision, dry runs in a sandbox with their metrics and  *)
(* the self-healing of a failed manifest by a language model, the vector   *)
(* index that tool search reads, the projection the market lists, and the  *)
(* seeding of the builtin skills.                                          *)
(*                                                                         *)
(* A manifest is one JSON column: it carries the ingestion metadata, the   *)
(* metrics and the self-heal history, and every writer replaces it whole.  *)
(* A worker is a Celery task or an administrator's request that holds a    *)
(* row across a sandbox execution or a call of the language model; the     *)
(* session keeps the row as it was loaded (expire_on_commit is off).       *)
(***************************************************************************)
EXTENDS Naturals, FiniteSets

CONSTANTS Skills,      \* skills with a source repository
          Builtins,    \* skills shipped with the program
          Workers,     \* dry runs, self-heals and index tasks at work
          MaxCode,     \* bound on the revisions ingested of one skill
          HealLimit,   \* self_heal_max_attempts
          FailLimit    \* failure_threshold of the dry run

VARIABLES row,         \* the skill_registry table
          points,      \* status in the payload of the points of the index
          syncs,       \* skills with an index task in the broker
          worker,
          letIn,       \* skills whose present revision an administrator let in
          rewritten    \* skills whose manifest was replaced under a decision

skillVars == <<row, points, syncs, worker, letIn, rewritten>>

Ids == Skills \cup Builtins
Statuses == {"draft", "needs_review", "active", "dry_run_fail", "disabled",
             "rejected"}
Channels == {"direct", "plugin_market"}

(* The manifest, reduced to what decides: the revision it was made from,   *)
(* the channel it came by, the consecutive failures and the length of the  *)
(* self-heal history.                                                      *)
Manifests == [of: 0..MaxCode, channel: Channels, fails: 0..FailLimit + 1,
              heals: 0..HealLimit + 1]
NewManifest(c, ch) == [of |-> c, channel |-> ch, fails |-> 0, heals |-> 0]
NoRow == [status |-> "none", code |-> 0, manifest |-> NewManifest(0, "direct")]
Idle == [pc |-> "idle"]

RequiresApproval(m) == m.channel = "plugin_market"
IsMarketSubmission(r) == r.status # "none" /\ RequiresApproval(r.manifest)

(* Points are stored under a generated vector id, never the skill's own.   *)
VectorId(s) == <<s, "vector_id">>
OwnId(s) == <<s, "skill_id">>
PointIds == Ids \X {"vector_id", "skill_id"}

Init ==
    /\ row = [s \in Ids |-> NoRow]
    /\ points = [p \in PointIds |-> "none"]
    /\ syncs = {}
    /\ worker = [w \in Workers |-> Idle]
    /\ letIn = {}
    /\ rewritten = {}

Cap(n, max) == IF n > max THEN max ELSE n

(* Somebody holds the row of s: what is written now it will write over.    *)
Held(s) == \E w \in Workers : /\ worker[w].pc \in {"running", "healing"}
                              /\ worker[w].skill = s

(***************************************************************************)
(* Ingestion and review                                                    *)
(***************************************************************************)
(* A task clones the repository, builds the manifest (by the parser, the   *)
(* language model, or a fallback), reviews its security and replaces the   *)
(* row; the review informs the administrator and never decides.            *)
IngestRepo(s, channel) ==
    LET code == row[s].code + 1
    IN  /\ code <= MaxCode
        /\ row' = [row EXCEPT ![s] =
             [status |-> IF channel = "plugin_market" THEN "needs_review" ELSE "draft",
              code |-> code, manifest |-> NewManifest(code, channel)]]
        /\ letIn' = letIn \ {s}
        /\ syncs' = syncs \cup {s}
        /\ rewritten' = IF Held(s) THEN rewritten \cup {s} ELSE rewritten
        /\ UNCHANGED <<points, worker>>

Pending(s) == IsMarketSubmission(row[s]) /\ row[s].status = "needs_review"

ApproveReview(s) ==
    /\ Pending(s)
    /\ row' = [row EXCEPT ![s].status = "active"]
    /\ letIn' = letIn \cup {s}
    /\ syncs' = syncs \cup {s}
    /\ UNCHANGED <<points, worker, rewritten>>

(* The task deletes the point whose id is the skill's; the points carry    *)
(* vector ids, so the skill's own point stays.                             *)
RemoveSkill(s) == points' = [points EXCEPT ![OwnId(s)] = "none"]

RejectReview(s) ==
    /\ Pending(s)
    /\ row' = [row EXCEPT ![s].status = "rejected"]
    /\ RemoveSkill(s)
    /\ UNCHANGED <<syncs, worker, letIn, rewritten>>

(* PATCH of the administrator's console; no index task is queued.          *)
UpdateSkill(s, status) ==
    /\ row[s].status # "none"
    /\ row' = [row EXCEPT ![s].status = status]
    /\ letIn' = IF status = "active" THEN letIn \cup {s} ELSE letIn
    /\ UNCHANGED <<points, syncs, worker, rewritten>>

(***************************************************************************)
(* Dry runs, metrics and self-healing                                      *)
(***************************************************************************)
(* The metrics are rebuilt from a fixed list of fields, which leaves the   *)
(* self-heal history out of the manifest that is written back.             *)
MergeMetrics(m, fails) == [m EXCEPT !.fails = Cap(fails, FailLimit + 1), !.heals = 0]

SuccessStatus(m) == IF RequiresApproval(m) THEN "needs_review" ELSE "active"
FailureStatus(m) == IF m.fails >= FailLimit THEN "needs_review" ELSE "dry_run_fail"

StartDryRun(w, s, allow, m) ==
    worker' = [worker EXCEPT ![w] =
        [pc |-> "running", skill |-> s, allow |-> allow, seen |-> m]]

DryRunSkill(w, s) ==
    /\ worker[w].pc = "idle" /\ row[s].status # "none"
    /\ StartDryRun(w, s, TRUE, row[s].manifest)
    /\ UNCHANGED <<row, points, syncs, letIn, rewritten>>

(* The run went through and left the artifacts the manifest asks for.      *)
DryRunPasses(w) ==
    LET s == worker[w].skill
        m == MergeMetrics(worker[w].seen, 0)
    IN  /\ worker[w].pc = "running"
        /\ row' = [row EXCEPT ![s].manifest = m, ![s].status = SuccessStatus(m)]
        /\ worker' = [worker EXCEPT ![w] = Idle]
        /\ UNCHANGED <<points, syncs, letIn, rewritten>>

StartHeal(w, s, m) ==
    worker' = [worker EXCEPT ![w] = [pc |-> "healing", skill |-> s, seen |-> m]]

(* Whether to heal is decided on the manifest as it was loaded, before the *)
(* failure is recorded.                                                    *)
DryRunFails(w) ==
    LET s == worker[w].skill
        m == MergeMetrics(worker[w].seen, worker[w].seen.fails + 1)
    IN  /\ worker[w].pc = "running"
        /\ row' = [row EXCEPT ![s].manifest = m, ![s].status = FailureStatus(m)]
        /\ IF worker[w].allow /\ worker[w].seen.heals < HealLimit
           THEN StartHeal(w, s, m)
           ELSE worker' = [worker EXCEPT ![w] = Idle]
        /\ UNCHANGED <<points, syncs, letIn, rewritten>>

(* POST /self-heal of the administrator's console.                         *)
SelfHealSkill(w, s) ==
    /\ worker[w].pc = "idle" /\ row[s].status # "none"
    /\ StartHeal(w, s, row[s].manifest)
    /\ UNCHANGED <<row, points, syncs, letIn, rewritten>>

Healed(m) == [m EXCEPT !.heals = Cap(@ + 1, HealLimit + 1)]

(* A patch outside the allowed paths: the refusal is noted in the history. *)
PatchRejected(w) ==
    LET s == worker[w].skill
    IN  /\ worker[w].pc = "healing"
        /\ row' = [row EXCEPT ![s].manifest = Healed(worker[w].seen)]
        /\ worker' = [worker EXCEPT ![w] = Idle]
        /\ UNCHANGED <<points, syncs, letIn, rewritten>>

(* The patches are set in the manifest, or the model sent a whole manifest *)
(* in their stead, which need not repeat the ingestion metadata; then the  *)
(* skill is run again, this time without healing.                          *)
PatchApplied(w, whole) ==
    LET s == worker[w].skill
        m == IF whole THEN NewManifest(worker[w].seen.of, "direct")
             ELSE worker[w].seen
    IN  /\ worker[w].pc = "healing"
        /\ row' = [row EXCEPT ![s].manifest = Healed(m)]
        /\ rewritten' = IF whole THEN rewritten \cup {s} ELSE rewritten
        /\ StartDryRun(w, s, FALSE, Healed(m))
        /\ UNCHANGED <<points, syncs, letIn>>

(* The model is not reached or answers no JSON.                            *)
HealFails(w) ==
    /\ worker[w].pc = "healing"
    /\ worker' = [worker EXCEPT ![w] = Idle]
    /\ UNCHANGED <<row, points, syncs, letIn, rewritten>>

(* Feedback on a trace: a failed call counts, and disables the skill at    *)
(* the limit; a later success of a dry run starts the count anew.          *)
RecordFailure(s) ==
    LET m == MergeMetrics(row[s].manifest, row[s].manifest.fails + 1)
    IN  /\ row[s].status # "none"
        /\ row' = [row EXCEPT ![s].manifest = m,
                     ![s].status = IF m.fails > FailLimit THEN "disabled" ELSE @]
        /\ UNCHANGED <<points, syncs, worker, letIn, rewritten>>

(***************************************************************************)
(* Index, projection and builtins                                          *)
(***************************************************************************)
(* The task reads the row, calls the embedding model and writes the point  *)
(* with the status it has read.                                            *)
SyncRead(w, s) ==
    /\ worker[w].pc = "idle" /\ s \in syncs
    /\ syncs' = syncs \ {s}
    /\ worker' = [worker EXCEPT ![w] =
         [pc |-> "syncing", skill |-> s, status |-> row[s].status]]
    /\ UNCHANGED <<row, points, letIn, rewritten>>

SyncWrite(w) ==
    LET s == worker[w].skill
    IN  /\ worker[w].pc = "syncing"
        /\ points' = [points EXCEPT ![VectorId(s)] = worker[w].status]
        /\ worker' = [worker EXCEPT ![w] = Idle]
        /\ UNCHANGED <<row, syncs, letIn, rewritten>>

SyncFails(w) ==
    /\ worker[w].pc = "syncing"
    /\ worker' = [worker EXCEPT ![w] = Idle]
    /\ UNCHANGED <<row, points, syncs, letIn, rewritten>>

Active == {s \in Ids : row[s].status = "active"}

SyncAllActive ==
    /\ Active # {} /\ ~ Active \subseteq syncs
    /\ syncs' = syncs \cup Active
    /\ UNCHANGED <<row, points, worker, letIn, rewritten>>

(* The seeding at a start: a builtin that ships is active whatever it was, *)
(* one that no longer ships is disabled. A new row is only flushed when    *)
(* its point is due, and the index task's own session does not see it.     *)
SeedBuiltins(shipped) ==
    /\ row' = [s \in Ids |->
         CASE s \in shipped ->
                [status |-> "active", code |-> row[s].code,
                 manifest |-> NewManifest(row[s].code, "direct")]
           [] s \in Builtins \ shipped /\ row[s].status # "none" ->
                [row[s] EXCEPT !.status = "disabled"]
           [] OTHER -> row[s]]
    /\ points' = [p \in PointIds |->
         CASE \E s \in shipped : p = VectorId(s) /\ row[s].status # "none" -> "active"
           [] \E s \in Builtins \ shipped : p = OwnId(s) -> "none"
           [] OTHER -> points[p]]
    /\ letIn' = letIn \cup shipped
    /\ rewritten' = rewritten \cup {s \in shipped : Held(s)}
    /\ UNCHANGED <<syncs, worker>>

WorkerStep(w) ==
    \/ DryRunPasses(w)
    \/ DryRunFails(w)
    \/ PatchRejected(w)
    \/ \E whole \in BOOLEAN : PatchApplied(w, whole)
    \/ HealFails(w)
    \/ SyncWrite(w)
    \/ SyncFails(w)

Next ==
    \/ \E s \in Skills, channel \in Channels : IngestRepo(s, channel)
    \/ \E s \in Skills : ApproveReview(s) \/ RejectReview(s)
    \/ \E s \in Ids : UpdateSkill(s, "active") \/ UpdateSkill(s, "disabled")
    \/ \E s \in Ids : RecordFailure(s)
    \/ \E w \in Workers, s \in Skills : DryRunSkill(w, s) \/ SelfHealSkill(w, s)
    \/ \E w \in Workers, s \in Ids : SyncRead(w, s)
    \/ \E w \in Workers : WorkerStep(w)
    \/ SyncAllActive
    \/ \E shipped \in SUBSET Builtins : SeedBuiltins(shipped)

Fairness == \A w \in Workers : WF_skillVars(WorkerStep(w))

Spec == Init /\ [][Next]_skillVars /\ Fairness

-----------------------------------------------------------------------------
\* Types: rows, points and messages of the skills, and the workers on them.
TypeOK ==
    /\ \A s \in Ids : /\ row[s].status \in Statuses \cup {"none"}
                      /\ row[s].code \in 0..MaxCode
                      /\ row[s].manifest \in Manifests
    /\ \A p \in PointIds : points[p] \in Statuses \cup {"none"}
    /\ syncs \subseteq Ids
    /\ \A w \in Workers : /\ worker[w].pc \in {"idle", "running", "healing", "syncing"}
                          /\ worker[w].pc \in {"running", "healing"} =>
                               worker[w].seen \in Manifests
    /\ letIn \subseteq Ids /\ rewritten \subseteq Ids

(* What the plugin market received becomes active only when an             *)
(* administrator has let that very revision in: a dry run that passes, a   *)
(* patch of the manifest and a new submission all lead back to the review. *)
(* Two ways around it are known: a worker that held the row across a new   *)
(* submission writes the old manifest back, and a language model may send  *)
(* a manifest without the ingestion metadata.                              *)
MarketNeedsApproval ==
    \A s \in Skills \ rewritten :
        IsMarketSubmission(row[s]) /\ row[s].status = "active" =>
            s \in letIn

(* Healing ends: a skill is run at most once more after its manifest was   *)
(* patched, although the history that was meant to bound the attempts is   *)
(* lost with every write of the metrics.                                   *)
WorkersEnd == \A w \in Workers : []<>(worker[w].pc = "idle")

(* The claim behind the removal task: what was rejected or disabled by the *)
(* seeding is no longer found by the search for active skills. Not so: the *)
(* seeding removes the point under the skill's id, the index task wrote it *)
(* under another.                                                          *)
RemovedIsNotFound ==
    \A s \in Ids : /\ row[s].status = "disabled" /\ s \in Builtins
                   /\ s \notin syncs
                   /\ \A w \in Workers : worker[w].pc = "idle"
                   => points[VectorId(s)] # "active"
=============================================================================
