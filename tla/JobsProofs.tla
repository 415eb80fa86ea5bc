----------------------------- MODULE JobsProofs -----------------------------
(***************************************************************************)
(* Proofs about MCJobs, for any tables of tasks, monitors, documents and   *)
(* skills, any readers, channels and orders, and any bounds                *)
(* (JobsAssumption): variables keep their types (JobsKeepTheirTypes),      *)
(* what the tables record was done (WhatIsRecordedWasDone), and what was   *)
(* ended stays ended (WhatWasEndedStaysEnded).                             *)
(*                                                                         *)
(* One section a component, each for any row of the component's table: an  *)
(* invariant (GenInv, WatchInv, InboxInv, AlertInv, LibraryInv,            *)
(* RegistryInv, PaidInv), which says what a worker at each place holds and *)
(* what it has done by then, and the lemmas that it starts, that each step *)
(* keeps it, and what follows. The last section joins them in JobsInv.     *)
(***************************************************************************)
EXTENDS MCJobs, FiniteSetTheorems, TLAPS

-----------------------------------------------------------------------------
(* Image and video tasks: which place of a worker goes with which outputs,
   which flag, and which answer of the cancel call. *)

\* What a worker's record can hold.  An idle worker has no task; a task that is past its
\* inserts has one in its session, and one that is before them has none; in between, the
\* outputs 1..k are in the session and the response has more.
GenAts == {"idle", "check0", "start", "execute", "check1", "check2", "persist", "store",
           "insert_asset", "insert_url", "check3", "finish", "fail", "cancel"}
GenJobs(n) ==
  [at : GenAts, task : Generations[n].tasks \cup {"none"},
   seen : Generation(n)!Status \cup {"expired"},
   flushed : SUBSET (Generation(n)!Index \X {"url", "asset"}), item : 0..Generations[n].items,
   ok : BOOLEAN]
FlushedItems(r) == {f[1] : f \in r.flushed}
GenRows(n) ==
  {r \in GenJobs(n) :
     /\ r.at = "idle" <=> r.task = "none"
     /\ r.at \in {"check0", "start", "execute", "check1", "check2", "persist"} => r.flushed = {}
     /\ r.at \in {"store", "insert_asset", "insert_url"} =>
          \E k \in 0..(r.item - 1) : FlushedItems(r) = 1..k
     /\ r.at \in {"check3", "finish"} => r.flushed # {}}

\* The rows keep their types.
GenTypes(n) ==
  /\ Generation(n)!TypeOK
  /\ job \in [Generations[n].workers -> GenRows(n)]
  /\ broker \in [Generations[n].tasks -> Nat]
  /\ caller \in [Generations[n].tasks -> {"idle", "absent", "done"}]
  /\ canceler \in {"idle", "marked", "done"} \cup Generations[n].tasks
  /\ sharer \subseteq Generations[n].tasks
  /\ faults \in Nat
  /\ cancelKey \in BOOLEAN

\* A task has a message or a worker, and is found by a cancel call, only once created.
GenKnown(n) ==
  \A t \in Generations[n].tasks :
    /\ caller[t] # "done" => taskRow[t] = "none"
    /\ taskRow[t] = "none" =>
         broker[t] = 0 /\ \A w \in Generations[n].workers : job[w].task # t
    /\ canceler = t => taskRow[t] # "none"

\* Without faults a task is at one place: in the broker, at one worker, or at its end.
GenOnce(n) ==
  faults = 0 =>
    /\ \A t \in Generations[n].tasks : broker[t] <= 1
    /\ \A w \in Generations[n].workers : job[w].at # "idle" =>
         /\ broker[job[w].task] = 0
         /\ taskRow[job[w].task] \in {"queued", "running", "canceled"}
         /\ job[w].seen \in {"queued", "running", "expired"}
         /\ \A v \in Generations[n].workers : job[v].task = job[w].task => v = w

\* Once the flag was set for the only task, and before its worker's last check, it is
\* there, or was taken, or the task is over.
GenEnded(n, t) ==
  /\ taskRow[t] \in {"canceled", "failed"} /\ broker[t] = 0
  /\ \A w \in Generations[n].workers : job[w].task # t
GenHeard(n) ==
  faults = 0 /\ canceler # "idle" =>
    \A t \in Generations[n].tasks \ late : Generation(n)!Created \subseteq {t} =>
      /\ taskRow[t] # "succeeded"
      /\ \A w \in Generations[n].workers : job[w].task = t => job[w].at # "finish"
      /\ \/ cancelKey
         \/ \E w \in Generations[n].workers : job[w].task = t /\ job[w].at = "cancel"
         \/ GenEnded(n, t)

GenInv(n) ==
  GenTypes(n) /\ Generation(n)!ResultsExist /\ GenKnown(n) /\ GenOnce(n) /\ GenHeard(n)

\* Outputs that are there stay there.
GenKept(n) ==
  \A t \in Generations[n].tasks : \A i \in Generation(n)!Index :
    outputs[t][i] # "none" => outputs'[t][i] # "none"

\* A worker without a task.
LEMMA GenIdle ==
  ASSUME NEW n \in DOMAIN Generations
  PROVE  /\ Generation(n)!Idle \in GenRows(n)
         /\ Generation(n)!Idle.task = "none" /\ Generation(n)!Idle.at = "idle"
<1>1. Generations[n].items \in Nat BY JobsAssumption
<1>2. Generation(n)!Idle \in GenJobs(n)
  BY <1>1 DEF Generation!Idle, GenJobs, GenAts, Generation!Status, Generation!Final
<1> QED BY <1>2 DEF GenRows, Generation!Idle

\* Initially there is nothing.
LEMMA GenInit ==
  ASSUME NEW n \in DOMAIN Generations, Generation(n)!Init
  PROVE  GenInv(n)
<1> DEFINE W == Generations[n].workers
           T == Generations[n].tasks
<1>1. "none" \notin T /\ "idle" \notin T /\ Generations[n].items \in Nat
      /\ Generations[n].retries \in Nat
  BY JobsAssumption
<1>2. /\ taskRow = [t \in T |-> "none"]
      /\ outputs = [t \in T |-> [i \in Generation(n)!Index |-> "none"]]
      /\ shares = [t \in T |-> "none"]
      /\ cancelKey = FALSE
      /\ broker = [t \in T |-> 0]
      /\ tries = [t \in T |-> 0]
      /\ job = [w \in W |-> Generation(n)!Idle]
      /\ caller = [t \in T |-> "idle"]
      /\ canceler = "idle" /\ sharer = {} /\ faults = 0 /\ late = {}
  BY DEF Generation!Init
<1>3. Generation(n)!Idle \in GenRows(n) BY GenIdle
<1>4. job \in [W -> GenRows(n)] BY <1>2, <1>3
<1>5. 0 \in 0..Generations[n].retries BY <1>1
<1>6. Generation(n)!TypeOK
  <2>1. taskRow \in [T -> Generation(n)!Status] BY <1>2 DEF Generation!Status
  <2>2. outputs \in [T -> [Generation(n)!Index -> Generation(n)!Output]]
    BY <1>2 DEF Generation!Output
  <2>3. shares \in [T -> Generation(n)!ShareRows] BY <1>2 DEF Generation!ShareRows
  <2>4. tries \in [T -> 0..Generations[n].retries] BY <1>2, <1>5
  <2> QED BY <2>1, <2>2, <2>3, <2>4 DEF Generation!TypeOK
<1>7. cancelKey \in BOOLEAN BY <1>2
<1>8. broker \in [T -> Nat] /\ caller \in [T -> {"idle", "absent", "done"}] BY <1>2
<1>9. GenTypes(n) BY <1>2, <1>4, <1>6, <1>7, <1>8 DEF GenTypes
<1>10. Generation(n)!ResultsExist
  BY <1>2 DEF Generation!ResultsExist
<1>11. \A w \in W : job[w] = Generation(n)!Idle BY <1>2
<1>12. \A w \in W : job[w].task = "none" /\ job[w].at = "idle" BY <1>11, GenIdle
<1>13. GenKnown(n) BY <1>1, <1>2, <1>12 DEF GenKnown
<1>14. GenOnce(n) BY <1>2, <1>12 DEF GenOnce
<1>15. GenHeard(n) BY <1>2 DEF GenHeard
<1> QED BY <1>9, <1>10, <1>13, <1>14, <1>15 DEF GenInv

\* What is known of a worker that is at work.
LEMMA GenRow ==
  ASSUME NEW n \in DOMAIN Generations, GenInv(n), NEW w \in Generations[n].workers
  PROVE  /\ job[w] \in GenRows(n) /\ job[w] \in GenJobs(n)
         /\ job[w].at # "idle" => /\ job[w].task \in Generations[n].tasks
                                  /\ taskRow[job[w].task] \in Generation(n)!Status \ {"none"}
<1>1. job[w] \in GenRows(n) BY DEF GenInv, GenTypes
<1>2. job[w] \in GenJobs(n) BY <1>1 DEF GenRows
<1>3. ASSUME job[w].at # "idle" PROVE job[w].task \in Generations[n].tasks
  BY <1>1, <1>2, <1>3 DEF GenRows, GenJobs
<1>4. ASSUME job[w].at # "idle" PROVE taskRow[job[w].task] \in Generation(n)!Status \ {"none"}
  <2>1. taskRow[job[w].task] \in Generation(n)!Status
    BY <1>3, <1>4 DEF GenInv, GenTypes, Generation!TypeOK
  <2>2. taskRow[job[w].task] # "none" BY <1>3, <1>4 DEF GenInv, GenKnown
  <2> QED BY <2>1, <2>2
<1> QED BY <1>1, <1>2, <1>3, <1>4

\* A commit writes the row and makes what the session has flushed visible.
LEMMA GenCommit ==
  ASSUME NEW n \in DOMAIN Generations, GenInv(n), NEW w \in Generations[n].workers,
         job[w].at # "idle", NEW s, Generation(n)!Commit(w, s)
  PROVE  /\ taskRow' = [taskRow EXCEPT ![job[w].task] = s]
         /\ outputs' \in [Generations[n].tasks -> [Generation(n)!Index -> Generation(n)!Output]]
         /\ GenKept(n)
         /\ job[w].flushed # {} =>
              \E i \in Generation(n)!Index : outputs'[job[w].task][i] # "none"
<1> DEFINE t == job[w].task
           F == job[w].flushed
           got(i) == \E v \in {"url", "asset"} : <<i, v>> \in F
           val(i) == CHOOSE v \in {"url", "asset"} : <<i, v>> \in F
           new == [i \in Generation(n)!Index |-> IF got(i) THEN val(i) ELSE outputs[t][i]]
<1>1. t \in Generations[n].tasks /\ F \subseteq Generation(n)!Index \X {"url", "asset"}
  BY GenRow DEF GenJobs
<1>2. outputs \in [Generations[n].tasks -> [Generation(n)!Index -> Generation(n)!Output]]
  BY DEF GenInv, GenTypes, Generation!TypeOK
<1>3. outputs' = [outputs EXCEPT ![t] = new] BY DEF Generation!Commit
<1>4. \A i \in Generation(n)!Index : got(i) => val(i) \in {"url", "asset"}
  OBVIOUS
<1> HIDE DEF val
<1>5. new \in [Generation(n)!Index -> Generation(n)!Output]
  BY <1>1, <1>2, <1>4 DEF Generation!Output
<1>6. \A i \in Generation(n)!Index :
        /\ got(i) => new[i] # "none"
        /\ outputs[t][i] # "none" => new[i] # "none"
  BY <1>4
<1>7. ASSUME F # {} PROVE \E i \in Generation(n)!Index : got(i)
  BY <1>1, <1>7
<1> HIDE DEF new, got
<1>8. outputs' \in [Generations[n].tasks -> [Generation(n)!Index -> Generation(n)!Output]]
  BY <1>1, <1>2, <1>3, <1>5
<1>9. GenKept(n) BY <1>1, <1>2, <1>3, <1>6 DEF GenKept
<1>10. F # {} => \E i \in Generation(n)!Index : outputs'[t][i] # "none"
  BY <1>1, <1>2, <1>3, <1>6, <1>7
<1>11. taskRow' = [taskRow EXCEPT ![t] = s] BY DEF Generation!Commit
<1> QED BY <1>8, <1>9, <1>10, <1>11

\* What GenSession and GenEnd are about: worker w goes on with record r, and the row of
\* its task becomes s.
GenWrites(n, w, r, s) ==
  /\ job' = [job EXCEPT ![w] = r]
  /\ taskRow' = [taskRow EXCEPT ![job[w].task] = s]
  /\ outputs' \in [Generations[n].tasks -> [Generation(n)!Index -> Generation(n)!Output]]
  /\ GenKept(n)
  /\ s = "succeeded" => \E i \in Generation(n)!Index : outputs'[job[w].task][i] # "none"
  /\ UNCHANGED <<shares, caller, canceler, sharer, late>>

\* What such a write leaves: types, results, the worker's record, and the other rows.
LEMMA GenWritten ==
  ASSUME NEW n \in DOMAIN Generations, GenInv(n), NEW w \in Generations[n].workers,
         job[w].at # "idle", NEW r \in GenRows(n), NEW s \in Generation(n)!Status \ {"none"},
         GenWrites(n, w, r, s),
         tries' \in [Generations[n].tasks -> 0..Generations[n].retries],
         broker' \in [Generations[n].tasks -> Nat], faults' \in Nat, cancelKey' \in BOOLEAN
  PROVE  /\ GenTypes(n)' /\ Generation(n)!ResultsExist'
         /\ job' \in [Generations[n].workers -> GenRows(n)] /\ job'[w] = r
         /\ \A v \in Generations[n].workers : v # w => job'[v] = job[v]
         /\ taskRow'[job[w].task] = s
         /\ \A t \in Generations[n].tasks : t # job[w].task => taskRow'[t] = taskRow[t]
<1> DEFINE T == Generations[n].tasks
<1>1. /\ job \in [Generations[n].workers -> GenRows(n)] /\ taskRow \in [T -> Generation(n)!Status]
      /\ shares \in [T -> Generation(n)!ShareRows]
  BY DEF GenInv, GenTypes, Generation!TypeOK
<1>2. job[w].task \in T BY GenRow
<1>3. /\ job' \in [Generations[n].workers -> GenRows(n)] /\ job'[w] = r
      /\ \A v \in Generations[n].workers : v # w => job'[v] = job[v]
  BY <1>1 DEF GenWrites
<1>4. /\ taskRow' \in [T -> Generation(n)!Status] /\ taskRow'[job[w].task] = s
      /\ \A t \in T : t # job[w].task => taskRow'[t] = taskRow[t]
  BY <1>1, <1>2 DEF GenWrites
<1>5. Generation(n)!TypeOK' BY <1>1, <1>4 DEF Generation!TypeOK, GenWrites
<1>6. /\ caller' = caller /\ canceler' = canceler /\ sharer' = sharer
      /\ caller \in [T -> {"idle", "absent", "done"}]
      /\ canceler \in {"idle", "marked", "done"} \cup T /\ sharer \subseteq T
  BY DEF GenWrites, GenInv, GenTypes
<1>7. GenTypes(n)' BY <1>3, <1>5, <1>6 DEF GenTypes
<1>8. ASSUME NEW t \in T, taskRow'[t] = "succeeded" \/ shares'[t] = "active" \/ t \in sharer'
      PROVE  \E i \in Generation(n)!Index : outputs'[t][i] # "none"
  <2>1. CASE taskRow[t] = "succeeded" \/ shares[t] = "active" \/ t \in sharer
    BY <2>1 DEF GenInv, Generation!ResultsExist, GenWrites, GenKept
  <2>2. CASE ~(taskRow[t] = "succeeded" \/ shares[t] = "active" \/ t \in sharer)
    <3>1. t = job[w].task /\ s = "succeeded" BY <1>4, <1>8, <2>2 DEF GenWrites
    <3> QED BY <3>1 DEF GenWrites
  <2> QED BY <2>1, <2>2
<1>9. Generation(n)!ResultsExist' BY <1>8 DEF Generation!ResultsExist
<1> QED BY <1>3, <1>4, <1>7, <1>9

\* A worker goes on.  It writes SUCCEEDED only when it is done, passes its last check
\* only without the flag, and takes the flag only to cancel.
LEMMA GenSession ==
  ASSUME NEW n \in DOMAIN Generations, GenInv(n), NEW w \in Generations[n].workers,
         job[w].at # "idle", NEW r \in GenRows(n), NEW s \in Generation(n)!Status \ {"none"},
         GenWrites(n, w, r, s), r.task = job[w].task,
         faults = 0 => s \in {"queued", "running", "canceled"}
                       /\ r.seen \in {"queued", "running", "expired"},
         cancelKey' \in BOOLEAN, UNCHANGED <<broker, tries, faults>>,
         \/ r.at = "cancel"
         \/ job[w].at # "cancel" /\ cancelKey' = cancelKey
            /\ (faults = 0 /\ r.at = "finish" => ~cancelKey)
  PROVE  GenInv(n)'
<1> DEFINE T == Generations[n].tasks
           W == Generations[n].workers
           t0 == job[w].task
<1>1. /\ broker' = broker /\ tries' = tries /\ faults' = faults /\ caller' = caller
      /\ canceler' = canceler /\ late' = late
      /\ tries \in [T -> 0..Generations[n].retries] /\ broker \in [T -> Nat] /\ faults \in Nat
  BY DEF GenInv, GenTypes, Generation!TypeOK, GenWrites
<1>2. t0 \in T /\ taskRow[t0] # "none" BY GenRow
<1>3. /\ GenTypes(n)' /\ Generation(n)!ResultsExist'
      /\ job'[w] = r /\ \A v \in W : v # w => job'[v] = job[v]
      /\ taskRow'[t0] = s /\ \A t \in T : t # t0 => taskRow'[t] = taskRow[t]
  BY <1>1, GenWritten
<1>4. \A v \in W : job'[v].task = job[v].task BY <1>3
<1>5. \A t \in T : taskRow'[t] = "none" <=> taskRow[t] = "none" BY <1>2, <1>3
<1>6. r.at # "idle" BY <1>2, JobsAssumption DEF GenRows
<1>7. \A v \in W : job'[v].at = "idle" <=> job[v].at = "idle" BY <1>3, <1>6
<1>8. GenKnown(n)' BY <1>1, <1>4, <1>5 DEF GenKnown, GenInv
<1>9. GenOnce(n)'
  <2> SUFFICES ASSUME faults = 0 PROVE GenOnce(n)' BY <1>1 DEF GenOnce
  <2>1. \A t \in T : broker'[t] <= 1 BY <1>1 DEF GenInv, GenOnce
  <2>2. ASSUME NEW v \in W, job'[v].at # "idle"
        PROVE  /\ broker'[job'[v].task] = 0
               /\ taskRow'[job'[v].task] \in {"queued", "running", "canceled"}
               /\ job'[v].seen \in {"queued", "running", "expired"}
               /\ \A u \in W : job'[u].task = job'[v].task => u = v
    <3>1. /\ broker[job[v].task] = 0
          /\ taskRow[job[v].task] \in {"queued", "running", "canceled"}
          /\ job[v].seen \in {"queued", "running", "expired"}
          /\ \A u \in W : job[u].task = job[v].task => u = v
      BY <1>7, <2>2 DEF GenInv, GenOnce
    <3>2. broker'[job'[v].task] = 0 BY <1>1, <1>4, <3>1
    <3>3. \A u \in W : job'[u].task = job'[v].task => u = v BY <1>4, <3>1
    <3>4. job[v].task \in T BY <1>7, <2>2, GenRow
    <3>5. taskRow'[job'[v].task] \in {"queued", "running", "canceled"}
      BY <1>3, <1>4, <3>1, <3>4
    <3>6. job'[v].seen \in {"queued", "running", "expired"} BY <1>3, <3>1
    <3> QED BY <3>2, <3>3, <3>5, <3>6
  <2> QED BY <2>1, <2>2 DEF GenOnce
<1>10. GenHeard(n)'
  <2> SUFFICES ASSUME faults = 0, canceler # "idle", NEW t \in T \ late,
                      Generation(n)!Created' \subseteq {t}
               PROVE  /\ taskRow'[t] # "succeeded"
                      /\ \A v \in W : job'[v].task = t => job'[v].at # "finish"
                      /\ \/ cancelKey'
                         \/ \E v \in W : job'[v].task = t /\ job'[v].at = "cancel"
                         \/ GenEnded(n, t)'
    BY <1>1 DEF GenHeard
  <2>1. t = t0 BY <1>2, <1>5 DEF Generation!Created
  <2>2. Generation(n)!Created \subseteq {t} BY <1>5 DEF Generation!Created
  <2>3. \A v \in W : job[v].task = t => v = w
    BY <2>1 DEF GenInv, GenOnce
  <2>4. /\ taskRow[t] # "succeeded"
        /\ \/ cancelKey
           \/ \E v \in W : job[v].task = t /\ job[v].at = "cancel"
           \/ GenEnded(n, t)
    BY <2>2 DEF GenInv, GenHeard
  <2>5. cancelKey \/ job[w].at = "cancel" BY <2>1, <2>3, <2>4 DEF GenEnded
  <2>6. taskRow'[t] # "succeeded" BY <1>3, <2>1
  <2>7. r.at # "finish" BY <2>5
  <2>8. \A v \in W : job'[v].task = t => job'[v].at # "finish"
    BY <1>3, <1>4, <2>3, <2>7
  <2>9. cancelKey' \/ \E v \in W : job'[v].task = t /\ job'[v].at = "cancel"
    BY <1>3, <1>4, <2>1, <2>5
  <2> QED BY <2>6, <2>8, <2>9
<1> QED BY <1>3, <1>8, <1>9, <1>10 DEF GenInv

\* A worker is done with its task, or gives it back.  It cancels when it has taken the
\* flag, and only the end of the task is SUCCEEDED.
LEMMA GenEnd ==
  ASSUME NEW n \in DOMAIN Generations, GenInv(n), NEW w \in Generations[n].workers,
         job[w].at # "idle", NEW s \in Generation(n)!Status \ {"none"},
         GenWrites(n, w, Generation(n)!Idle, s),
         tries' \in [Generations[n].tasks -> 0..Generations[n].retries],
         \/ broker' = broker
         \/ broker' = [broker EXCEPT ![job[w].task] = @ + 1],
         cancelKey' = cancelKey, faults' \in Nat, faults' = 0 => faults = 0,
         faults' = 0 /\ s = "succeeded" => job[w].at = "finish",
         faults' = 0 /\ job[w].at = "cancel" => s = "canceled" /\ broker' = broker
  PROVE  GenInv(n)'
<1> DEFINE T == Generations[n].tasks
           W == Generations[n].workers
           t0 == job[w].task
<1>1. /\ caller' = caller /\ canceler' = canceler /\ late' = late
      /\ broker \in [T -> Nat] /\ cancelKey \in BOOLEAN
  BY DEF GenInv, GenTypes, GenWrites
<1>2. t0 \in T /\ taskRow[t0] # "none" BY GenRow
<1>3. /\ broker' \in [T -> Nat] /\ broker'[t0] <= broker[t0] + 1
      /\ \A t \in T : t # t0 => broker'[t] = broker[t]
  BY <1>1, <1>2
<1>4. Generation(n)!Idle \in GenRows(n) /\ Generation(n)!Idle.task = "none"
      /\ Generation(n)!Idle.at = "idle"
  BY GenIdle
<1>5. /\ GenTypes(n)' /\ Generation(n)!ResultsExist'
      /\ job'[w] = Generation(n)!Idle /\ \A v \in W : v # w => job'[v] = job[v]
      /\ taskRow'[t0] = s /\ \A t \in T : t # t0 => taskRow'[t] = taskRow[t]
  BY <1>1, <1>3, <1>4, GenWritten
<1>6. \A v \in W : job'[v].at # "idle" => v # w /\ job'[v] = job[v] BY <1>4, <1>5
<1>7. \A t \in T : taskRow'[t] = "none" <=> taskRow[t] = "none" BY <1>2, <1>5
<1>8. "none" \notin T BY JobsAssumption
<1>9. \A t \in T : \A v \in W : job'[v].task = t => v # w /\ job[v].task = t
  BY <1>4, <1>5, <1>8
<1>10. GenKnown(n)'
  <2>1. ASSUME NEW t \in T
        PROVE  /\ caller'[t] # "done" => taskRow'[t] = "none"
               /\ taskRow'[t] = "none" => broker'[t] = 0 /\ \A v \in W : job'[v].task # t
               /\ canceler' = t => taskRow'[t] # "none"
    <3>1. caller'[t] # "done" => taskRow'[t] = "none" BY <1>1, <1>7 DEF GenInv, GenKnown
    <3>2. ASSUME taskRow'[t] = "none" PROVE broker'[t] = 0 /\ \A v \in W : job'[v].task # t
      BY <1>2, <1>3, <1>7, <1>9, <3>2 DEF GenInv, GenKnown
    <3>3. canceler' = t => taskRow'[t] # "none" BY <1>1, <1>7 DEF GenInv, GenKnown
    <3> QED BY <3>1, <3>2, <3>3
  <2> QED BY <2>1 DEF GenKnown
<1>11. GenOnce(n)'
  <2> SUFFICES ASSUME faults' = 0, faults = 0 PROVE GenOnce(n)' BY DEF GenOnce
  <2>1. \A t \in T : broker[t] <= 1 BY DEF GenInv, GenOnce
  <2>2. broker[t0] = 0 BY DEF GenInv, GenOnce
  <2>3. \A t \in T : broker'[t] <= 1
    <3>1. broker'[t0] <= 1 /\ broker'[t0] \in Nat BY <1>2, <1>3, <2>2
    <3> QED BY <1>3, <2>1, <3>1
  <2>4. ASSUME NEW v \in W, job'[v].at # "idle"
        PROVE  /\ broker'[job'[v].task] = 0
               /\ taskRow'[job'[v].task] \in {"queued", "running", "canceled"}
               /\ job'[v].seen \in {"queued", "running", "expired"}
               /\ \A u \in W : job'[u].task = job'[v].task => u = v
    <3>1. v # w /\ job'[v] = job[v] BY <1>6, <2>4
    <3>2. /\ broker[job[v].task] = 0
          /\ taskRow[job[v].task] \in {"queued", "running", "canceled"}
          /\ job[v].seen \in {"queued", "running", "expired"}
          /\ \A u \in W : job[u].task = job[v].task => u = v
      BY <2>4, <3>1 DEF GenInv, GenOnce
    <3>3. job[v].task \in T BY <2>4, <3>1, GenRow
    <3>4. job[v].task # t0 BY <3>1, <3>2
    <3>5. broker'[job'[v].task] = 0 BY <1>3, <3>1, <3>2, <3>3, <3>4
    <3>6. taskRow'[job'[v].task] \in {"queued", "running", "canceled"}
      BY <1>5, <3>1, <3>2, <3>3, <3>4
    <3>7. \A u \in W : job'[u].task = job'[v].task => u = v BY <1>9, <3>1, <3>2, <3>3
    <3> QED BY <3>1, <3>2, <3>5, <3>6, <3>7
  <2> QED BY <2>3, <2>4 DEF GenOnce
<1>12. GenHeard(n)'
  <2> SUFFICES ASSUME faults' = 0, faults = 0, canceler # "idle", NEW t \in T \ late,
                      Generation(n)!Created' \subseteq {t}
               PROVE  /\ taskRow'[t] # "succeeded"
                      /\ \A v \in W : job'[v].task = t => job'[v].at # "finish"
                      /\ \/ cancelKey'
                         \/ \E v \in W : job'[v].task = t /\ job'[v].at = "cancel"
                         \/ GenEnded(n, t)'
    BY <1>1 DEF GenHeard
  <2>1. t = t0 BY <1>2, <1>7 DEF Generation!Created
  <2>2. Generation(n)!Created \subseteq {t} BY <1>7 DEF Generation!Created
  <2>3. \A v \in W : job[v].task = t => v = w BY <2>1 DEF GenInv, GenOnce
  <2>4. /\ job[w].at # "finish"
        /\ \/ cancelKey
           \/ \E v \in W : job[v].task = t /\ job[v].at = "cancel"
           \/ GenEnded(n, t)
    BY <2>1, <2>2 DEF GenInv, GenHeard
  <2>5. cancelKey \/ job[w].at = "cancel" BY <2>1, <2>3, <2>4 DEF GenEnded
  <2>6. taskRow'[t] # "succeeded" BY <1>5, <2>1, <2>4
  <2>7. \A v \in W : job'[v].task # t BY <1>9, <2>3
  <2>8. CASE job[w].at = "cancel"
    <3>1. broker'[t] = 0
      <4>1. broker' = broker BY <2>8
      <4>2. broker[t0] = 0 BY DEF GenInv, GenOnce
      <4> QED BY <2>1, <4>1, <4>2
    <3>2. taskRow'[t] \in {"canceled", "failed"} BY <1>5, <2>1, <2>8
    <3>3. GenEnded(n, t)' BY <2>7, <3>1, <3>2 DEF GenEnded
    <3> QED BY <2>6, <2>7, <3>3
  <2>9. CASE cancelKey BY <2>6, <2>7, <2>9
  <2> QED BY <2>5, <2>8, <2>9
<1> QED BY <1>5, <1>10, <1>11, <1>12 DEF GenInv

\* A worker that goes on writes no row.
LEMMA GenNotes ==
  ASSUME NEW n \in DOMAIN Generations, GenInv(n), NEW w \in Generations[n].workers,
         job[w].at # "idle", NEW r, NEW s, s = taskRow[job[w].task],
         job' = [job EXCEPT ![w] = r], UNCHANGED <<taskRow, outputs>>,
         UNCHANGED <<shares, caller, canceler, sharer, late>>
  PROVE  /\ GenWrites(n, w, r, s) /\ s \in Generation(n)!Status \ {"none"}
         /\ faults = 0 => s \in {"queued", "running", "canceled"}
<1>1. /\ taskRow \in [Generations[n].tasks -> Generation(n)!Status]
      /\ outputs \in [Generations[n].tasks -> [Generation(n)!Index -> Generation(n)!Output]]
  BY DEF GenInv, GenTypes, Generation!TypeOK
<1>2. job[w].task \in Generations[n].tasks /\ s \in Generation(n)!Status \ {"none"}
  BY GenRow
<1>3. taskRow' = [taskRow EXCEPT ![job[w].task] = s] BY <1>1, <1>2
<1>4. GenKept(n) BY DEF GenKept
<1>5. s = "succeeded" => \E i \in Generation(n)!Index : outputs'[job[w].task][i] # "none"
  BY <1>2 DEF GenInv, Generation!ResultsExist
<1>6. faults = 0 => s \in {"queued", "running", "canceled"} BY DEF GenInv, GenOnce
<1> QED BY <1>1, <1>2, <1>3, <1>4, <1>5, <1>6 DEF GenWrites

\* What a worker holds once it is at a later place.
LEMMA GenGoes ==
  ASSUME NEW n \in DOMAIN Generations, GenInv(n), NEW w \in Generations[n].workers,
         job[w].at # "idle", NEW a \in GenAts, a # "idle"
  PROVE  /\ [job[w] EXCEPT !.at = a] \in GenJobs(n)
         /\ [job[w] EXCEPT !.at = a].at = a
         /\ [job[w] EXCEPT !.at = a].task = job[w].task
         /\ [job[w] EXCEPT !.at = a].seen = job[w].seen
         /\ [job[w] EXCEPT !.at = a].flushed = job[w].flushed
         /\ [job[w] EXCEPT !.at = a].item = job[w].item
  BY GenRow DEF GenJobs

\* The session's status, when nothing has failed.
LEMMA GenSeen ==
  ASSUME NEW n \in DOMAIN Generations, GenInv(n), NEW w \in Generations[n].workers,
         job[w].at # "idle"
  PROVE  /\ Generation(n)!InSession(w) \in Generation(n)!Status
         /\ faults = 0 => Generation(n)!InSession(w) \in {"queued", "running", "canceled"}
<1>1. job[w].seen \in Generation(n)!Status \cup {"expired"}
      /\ taskRow[job[w].task] \in Generation(n)!Status
  BY GenRow DEF GenJobs
<1>2. faults = 0 => /\ taskRow[job[w].task] \in {"queued", "running", "canceled"}
                    /\ job[w].seen \in {"queued", "running", "expired"}
  BY DEF GenInv, GenOnce
<1> QED BY <1>1, <1>2 DEF Generation!InSession

\* A checkpoint reads the row and the flag, and may turn the worker to cancelling.
LEMMA GenChecks ==
  ASSUME NEW n \in DOMAIN Generations, GenInv(n), NEW w \in Generations[n].workers,
         Generation(n)!CheckCancel(w)
  PROVE  GenInv(n)'
<1>1. /\ job[w].at \in {"check0", "check1", "check2", "check3"}
      /\ UNCHANGED <<taskRow, outputs, broker, tries, faults>>
      /\ UNCHANGED <<shares, caller, canceler, sharer, late>>
  BY DEF Generation!CheckCancel, Generation!rest
<1>2. job[w].at # "idle" /\ job[w].at # "cancel" BY <1>1
<1>3. PICK s : s = taskRow[job[w].task] OBVIOUS
<1>4. /\ tries \in [Generations[n].tasks -> 0..Generations[n].retries] /\ faults \in Nat
      /\ cancelKey \in BOOLEAN
  BY DEF GenInv, GenTypes, Generation!TypeOK
<1>5. CASE Generation(n)!InSession(w) = "canceled"
  <2>1. job' = [job EXCEPT ![w] = Generation(n)!Idle] /\ cancelKey' = cancelKey
    BY <1>5 DEF Generation!CheckCancel, Generation!Done
  <2>2. /\ GenWrites(n, w, Generation(n)!Idle, s) /\ s \in Generation(n)!Status \ {"none"}
        /\ faults = 0 => s \in {"queued", "running", "canceled"}
    BY <1>1, <1>2, <1>3, <2>1, GenNotes
  <2> QED BY <1>1, <1>2, <1>4, <2>1, <2>2, GenEnd
<1>6. CASE Generation(n)!InSession(w) \notin Generation(n)!Final /\ cancelKey
  <2>1. PICK r : r = [job[w] EXCEPT !.at = "cancel"] OBVIOUS
  <2>2. job' = [job EXCEPT ![w] = r] /\ cancelKey' = FALSE
    <3>1. Generation(n)!InSession(w) # "canceled" BY <1>6 DEF Generation!Final
    <3>2. job' = [job EXCEPT ![w].at = "cancel"] /\ cancelKey' = FALSE
      BY <1>6, <3>1 DEF Generation!CheckCancel, Generation!Go
    <3>3. job \in [Generations[n].workers -> GenRows(n)] BY DEF GenInv, GenTypes
    <3> QED BY <2>1, <3>2, <3>3
  <2>3. r \in GenJobs(n) /\ r.at = "cancel" /\ r.task = job[w].task /\ r.seen = job[w].seen
    <3>1. "cancel" \in GenAts BY DEF GenAts
    <3> QED BY <1>2, <2>1, <3>1, GenGoes
  <2>4. r.task # "none" BY <1>2, <2>3, GenRow, JobsAssumption
  <2>5. r \in GenRows(n) BY <2>3, <2>4 DEF GenRows
  <2>6. /\ GenWrites(n, w, r, s) /\ s \in Generation(n)!Status \ {"none"}
        /\ faults = 0 => s \in {"queued", "running", "canceled"}
    BY <1>1, <1>2, <1>3, <2>2, GenNotes
  <2>7. faults = 0 => r.seen \in {"queued", "running", "expired"}
    BY <1>2, <2>3 DEF GenInv, GenOnce
  <2>8. cancelKey' \in BOOLEAN BY <2>2
  <2> QED BY <1>1, <1>2, <2>3, <2>5, <2>6, <2>7, <2>8, GenSession
<1>7. CASE /\ Generation(n)!InSession(w) # "canceled"
           /\ ~(Generation(n)!InSession(w) \notin Generation(n)!Final /\ cancelKey)
  <2>1. PICK a : a = Generation(n)!AfterCheck(w) OBVIOUS
  <2>2. PICK q : q = Generation(n)!InSession(w) OBVIOUS
  <2>3. PICK r : r = [job[w] EXCEPT !.at = a, !.seen = q] OBVIOUS
  <2>4. job' = [job EXCEPT ![w] = r] /\ cancelKey' = cancelKey
    <3>1. job' = [job EXCEPT ![w].at = a, ![w].seen = q] /\ cancelKey' = cancelKey
      BY <1>7, <2>1, <2>2 DEF Generation!CheckCancel
    <3>2. job \in [Generations[n].workers -> GenRows(n)] BY DEF GenInv, GenTypes
    <3> QED BY <2>3, <3>1, <3>2
  <2>5. /\ job[w].at = "check0" => a = "start"
        /\ job[w].at = "check1" => a \in {"check2", "fail"}
        /\ job[w].at = "check2" => a = "persist"
        /\ job[w].at = "check3" => a = "finish"
    BY <2>1 DEF Generation!AfterCheck, Generation!At
  <2>6. a \in GenAts /\ a # "idle" BY <1>1, <2>5 DEF GenAts
  <2>7. q \in Generation(n)!Status BY <1>2, <2>2, GenSeen
  <2>8. faults = 0 => q \in {"queued", "running"} BY <1>2, <1>7, <2>2, GenSeen
  <2>9. job[w] \in GenRows(n) /\ job[w] \in GenJobs(n) BY GenRow
  <2>10. r \in GenJobs(n) /\ r.at = a /\ r.task = job[w].task /\ r.seen = q
         /\ r.flushed = job[w].flushed
    BY <2>3, <2>6, <2>7, <2>9 DEF GenJobs
  <2>11. r \in GenRows(n)
    <3>1. r.task # "none" BY <1>2, <2>10, GenRow, JobsAssumption
    <3> QED BY <1>1, <2>5, <2>6, <2>9, <2>10, <3>1 DEF GenRows
  <2>12. /\ GenWrites(n, w, r, s) /\ s \in Generation(n)!Status \ {"none"}
         /\ faults = 0 => s \in {"queued", "running", "canceled"}
    BY <1>1, <1>2, <1>3, <2>4, GenNotes
  <2>13. faults = 0 /\ r.at = "finish" => ~cancelKey
    BY <1>7, <2>2, <2>8 DEF Generation!Final
  <2>14. faults = 0 => r.seen \in {"queued", "running", "expired"} BY <2>8, <2>10
  <2> QED BY <1>1, <1>2, <1>4, <2>4, <2>10, <2>11, <2>12, <2>13, <2>14, GenSession
<1> QED BY <1>5, <1>6, <1>7

\* Steps of a worker that only move it: it neither writes a row nor touches the flag.
GenMoves(n, w, r) ==
  /\ job' = [job EXCEPT ![w] = r]
  /\ UNCHANGED <<taskRow, cancelKey, broker, tries, faults>>
  /\ UNCHANGED <<shares, caller, canceler, sharer, late>>

\* They keep the invariant.
LEMMA GenMove ==
  ASSUME NEW n \in DOMAIN Generations, GenInv(n), NEW w \in Generations[n].workers,
         job[w].at \notin {"idle", "cancel"}, NEW r \in GenRows(n),
         GenMoves(n, w, r),
         outputs' \in [Generations[n].tasks -> [Generation(n)!Index -> Generation(n)!Output]],
         GenKept(n),
         r.task = job[w].task, r.at # "finish", r.seen \in {job[w].seen, "expired"}
  PROVE  GenInv(n)'
<1>1. /\ job' = [job EXCEPT ![w] = r]
      /\ UNCHANGED <<taskRow, cancelKey, broker, tries, faults>>
      /\ UNCHANGED <<shares, caller, canceler, sharer, late>>
  BY DEF GenMoves
<1>2. PICK s : s = taskRow[job[w].task] OBVIOUS
<1>3. s \in Generation(n)!Status \ {"none"} BY <1>2, GenRow
<1>4. taskRow' = [taskRow EXCEPT ![job[w].task] = s]
  BY <1>1, <1>2, GenRow DEF GenInv, GenTypes, Generation!TypeOK
<1>5. s = "succeeded" => \E i \in Generation(n)!Index : outputs'[job[w].task][i] # "none"
  <2> SUFFICES ASSUME s = "succeeded"
               PROVE  \E i \in Generation(n)!Index : outputs'[job[w].task][i] # "none"
    OBVIOUS
  <2>1. job[w].task \in Generations[n].tasks BY GenRow
  <2>2. \E i \in Generation(n)!Index : outputs[job[w].task][i] # "none"
    BY <1>2, <2>1 DEF GenInv, Generation!ResultsExist
  <2> QED BY <2>1, <2>2 DEF GenKept
<1>6. GenWrites(n, w, r, s) BY <1>1, <1>4, <1>5 DEF GenWrites
<1>7. faults = 0 => s \in {"queued", "running", "canceled"}
                    /\ r.seen \in {"queued", "running", "expired"}
  BY <1>2 DEF GenInv, GenOnce
<1>8. cancelKey' \in BOOLEAN BY <1>1 DEF GenInv, GenTypes
<1> QED BY <1>1, <1>3, <1>6, <1>7, <1>8, GenSession

\* The same when nothing is written at all.
LEMMA GenQuiet ==
  ASSUME NEW n \in DOMAIN Generations, GenInv(n), NEW w \in Generations[n].workers,
         job[w].at \notin {"idle", "cancel"}, NEW r \in GenRows(n),
         GenMoves(n, w, r), UNCHANGED outputs,
         r.task = job[w].task, r.at # "finish", r.seen \in {job[w].seen, "expired"}
  PROVE  GenInv(n)'
<1>1. GenKept(n) BY DEF GenKept
<1>2. outputs' \in [Generations[n].tasks -> [Generation(n)!Index -> Generation(n)!Output]]
  BY DEF GenInv, GenTypes, Generation!TypeOK
<1> QED BY <1>1, <1>2, GenMove

\* The workflow runs, and its response is counted.
LEMMA GenExecutes ==
  ASSUME NEW n \in DOMAIN Generations, GenInv(n), NEW w \in Generations[n].workers,
         Generation(n)!Execute(w) \/ Generation(n)!ExecuteCrashes(w)
           \/ Generation(n)!Respond(w) \/ Generation(n)!StoreKnown(w)
  PROVE  GenInv(n)'
<1>1. job[w] \in GenRows(n) /\ job[w] \in GenJobs(n)
      /\ job \in [Generations[n].workers -> GenRows(n)]
  BY GenRow DEF GenInv, GenTypes
<1>2. CASE Generation(n)!Execute(w)
  <2>1. PICK ok \in BOOLEAN, seen \in {job[w].seen, "expired"} :
          job' = [job EXCEPT ![w].at = "check1", ![w].ok = ok, ![w].seen = seen]
    BY <1>2 DEF Generation!Execute
  <2>2. PICK r : r = [job[w] EXCEPT !.at = "check1", !.ok = ok, !.seen = seen] OBVIOUS
  <2>3. job' = [job EXCEPT ![w] = r] BY <1>1, <2>1, <2>2
  <2>4. job[w].at = "execute" BY <1>2 DEF Generation!Execute, Generation!At
  <2>5. seen \in Generation(n)!Status \cup {"expired"} BY <1>1 DEF GenJobs
  <2>6. r \in GenJobs(n) /\ r.at = "check1" /\ r.task = job[w].task /\ r.seen = seen
        /\ r.flushed = job[w].flushed
    BY <1>1, <2>2, <2>5 DEF GenJobs, GenAts
  <2>7. r \in GenRows(n) BY <1>1, <2>4, <2>6 DEF GenRows
  <2>8. GenMoves(n, w, r) /\ UNCHANGED outputs
    BY <1>2, <2>3 DEF Generation!Execute, Generation!rest, GenMoves
  <2> QED BY <2>4, <2>6, <2>7, <2>8, GenQuiet
<1>3. CASE Generation(n)!ExecuteCrashes(w)
  <2>1. PICK r : r = [job[w] EXCEPT !.at = "fail"] OBVIOUS
  <2>2. job' = [job EXCEPT ![w].at = "fail"]
    BY <1>3 DEF Generation!ExecuteCrashes, Generation!Go
  <2>3. job' = [job EXCEPT ![w] = r] BY <1>1, <2>1, <2>2
  <2>4. job[w].at = "execute" BY <1>3 DEF Generation!ExecuteCrashes, Generation!At
  <2>5. r \in GenJobs(n) /\ r.at = "fail" /\ r.task = job[w].task /\ r.seen = job[w].seen
    BY <1>1, <2>1 DEF GenJobs, GenAts
  <2>6. r \in GenRows(n) BY <1>1, <2>4, <2>5 DEF GenRows
  <2>7. GenMoves(n, w, r) /\ UNCHANGED outputs
    BY <1>3, <2>3 DEF Generation!ExecuteCrashes, Generation!rest, GenMoves
  <2> QED BY <2>4, <2>5, <2>6, <2>7, GenQuiet
<1>4. CASE Generation(n)!Respond(w)
  <2>1. PICK k \in 0..Generations[n].items :
          job' = [job EXCEPT ![w].at = IF k = 0 THEN "fail" ELSE "store", ![w].item = k]
    BY <1>4 DEF Generation!Respond
  <2>2. PICK a : a = IF k = 0 THEN "fail" ELSE "store" OBVIOUS
  <2>3. PICK r : r = [job[w] EXCEPT !.at = a, !.item = k] OBVIOUS
  <2>4. job' = [job EXCEPT ![w] = r] BY <1>1, <2>1, <2>2, <2>3
  <2>5. job[w].at = "persist" BY <1>4 DEF Generation!Respond, Generation!At
  <2>6. a \in GenAts /\ a \in {"fail", "store"} BY <2>2 DEF GenAts
  <2>7. r \in GenJobs(n) /\ r.at = a /\ r.task = job[w].task /\ r.seen = job[w].seen
        /\ r.flushed = job[w].flushed /\ r.item = k
    BY <1>1, <2>3, <2>6 DEF GenJobs
  <2>8. r \in GenRows(n)
    <3>1. FlushedItems(r) = 1..0 BY <1>1, <2>5, <2>7 DEF GenRows, FlushedItems
    <3>2. Generations[n].items \in Nat BY JobsAssumption
    <3>3. a = "store" => 0 \in 0..(k - 1) BY <2>2, <3>2
    <3> QED BY <1>1, <2>5, <2>6, <2>7, <3>1, <3>3 DEF GenRows
  <2>9. GenMoves(n, w, r) /\ UNCHANGED outputs
    BY <1>4, <2>4 DEF Generation!Respond, Generation!rest, GenMoves
  <2> QED BY <2>5, <2>6, <2>7, <2>8, <2>9, GenQuiet
<1>5. CASE Generation(n)!StoreKnown(w)
  <2>1. PICK a \in {"insert_asset", "insert_url"} : job' = [job EXCEPT ![w].at = a]
    BY <1>5 DEF Generation!StoreKnown, Generation!Go
  <2>2. PICK r : r = [job[w] EXCEPT !.at = a] OBVIOUS
  <2>3. job' = [job EXCEPT ![w] = r] BY <1>1, <2>1, <2>2
  <2>4. job[w].at = "store" BY <1>5 DEF Generation!StoreKnown, Generation!At
  <2>5. r \in GenJobs(n) /\ r.at = a /\ r.task = job[w].task /\ r.seen = job[w].seen
        /\ r.flushed = job[w].flushed /\ r.item = job[w].item
    BY <1>1, <2>2 DEF GenJobs, GenAts
  <2>6. r \in GenRows(n) BY <1>1, <2>4, <2>5 DEF GenRows, FlushedItems
  <2>7. GenMoves(n, w, r) /\ UNCHANGED outputs
    BY <1>5, <2>3 DEF Generation!StoreKnown, Generation!rest, GenMoves
  <2> QED BY <2>4, <2>5, <2>6, <2>7, GenQuiet
<1> QED BY <1>2, <1>3, <1>4, <1>5

\* The outputs in the session are 1..k, and the next one is k + 1.
LEMMA GenNext ==
  ASSUME NEW n \in DOMAIN Generations, GenInv(n), NEW w \in Generations[n].workers,
         job[w].at \in {"insert_asset", "insert_url"}
  PROVE  \E k \in 0..(job[w].item - 1) :
           /\ FlushedItems(job[w]) = 1..k /\ Generation(n)!NextItem(w) = k + 1
           /\ k + 1 \in Generation(n)!Index
<1>1. job[w] \in GenRows(n) /\ job[w] \in GenJobs(n) BY GenRow
<1>2. PICK k \in 0..(job[w].item - 1) : FlushedItems(job[w]) = 1..k
  BY <1>1 DEF GenRows
<1>3. Generations[n].items \in Nat /\ job[w].item \in 0..Generations[n].items
  BY <1>1, JobsAssumption DEF GenJobs
<1>4. Generation(n)!Stored(w) = 1..k BY <1>2 DEF Generation!Stored, FlushedItems
<1>5. k \in Nat /\ Cardinality(1..k) = k
  <2>1. k \in Nat BY <1>2, <1>3
  <2>2. Cardinality(1..k) = IF 1 > k THEN 0 ELSE k - 1 + 1
    <3>1. 1 \in Int /\ k \in Int BY <2>1
    <3>2. \A a, b \in Int : Cardinality(a..b) = IF a > b THEN 0 ELSE b - a + 1
      BY FS_Interval, Zenon
    <3> QED BY <3>1, <3>2
  <2> QED BY <2>1, <2>2
<1>6. Generation(n)!NextItem(w) = Cardinality(1..k) + 1
  BY <1>4 DEF Generation!NextItem, Generation!Cardinality, Cardinality
<1>7. k + 1 \in Generation(n)!Index BY <1>2, <1>3, <1>5 DEF Generation!Index
<1> QED BY <1>2, <1>5, <1>6, <1>7

\* An image is stored, which makes the outputs before it visible, and its output is
\* inserted into the session.
LEMMA GenStores ==
  ASSUME NEW n \in DOMAIN Generations, GenInv(n), NEW w \in Generations[n].workers,
         Generation(n)!StoreNew(w) \/ Generation(n)!Insert(w)
  PROVE  GenInv(n)'
<1>1. job[w] \in GenRows(n) /\ job[w] \in GenJobs(n)
      /\ job \in [Generations[n].workers -> GenRows(n)]
  BY GenRow DEF GenInv, GenTypes
<1>2. CASE Generation(n)!StoreNew(w)
  <2>1. PICK r : r = [job[w] EXCEPT !.at = "insert_asset"] OBVIOUS
  <2>2. job' = [job EXCEPT ![w].at = "insert_asset"] /\ job[w].at = "store"
    BY <1>2 DEF Generation!StoreNew, Generation!Go, Generation!At
  <2>3. job' = [job EXCEPT ![w] = r] BY <1>1, <2>1, <2>2
  <2>4. r \in GenJobs(n) /\ r.at = "insert_asset" /\ r.task = job[w].task
        /\ r.seen = job[w].seen /\ r.flushed = job[w].flushed /\ r.item = job[w].item
    BY <1>1, <2>1 DEF GenJobs, GenAts
  <2>5. r \in GenRows(n) BY <1>1, <2>2, <2>4 DEF GenRows, FlushedItems
  <2>6. PICK s : s = taskRow[job[w].task] OBVIOUS
  <2>7. Generation(n)!Commit(w, s)
    BY <1>2, <2>6 DEF Generation!StoreNew
  <2>8. /\ taskRow' = [taskRow EXCEPT ![job[w].task] = s]
        /\ outputs' \in [Generations[n].tasks -> [Generation(n)!Index -> Generation(n)!Output]]
        /\ GenKept(n)
    BY <2>2, <2>7, GenCommit
  <2>9. taskRow' = taskRow
    BY <2>2, <2>6, <2>8, GenRow DEF GenInv, GenTypes, Generation!TypeOK
  <2>10. GenMoves(n, w, r)
    BY <1>2, <2>3, <2>9 DEF Generation!StoreNew, Generation!rest, GenMoves
  <2> QED BY <2>2, <2>4, <2>5, <2>8, <2>10, GenMove
<1>3. CASE Generation(n)!Insert(w)
  <2>1. job[w].at \in {"insert_asset", "insert_url"} BY <1>3 DEF Generation!Insert
  <2>2. PICK k \in 0..(job[w].item - 1) :
          /\ FlushedItems(job[w]) = 1..k /\ Generation(n)!NextItem(w) = k + 1
          /\ k + 1 \in Generation(n)!Index
    BY <2>1, GenNext
  <2>3. job[w].item \in Nat /\ k \in Nat
    <3>1. Generations[n].items \in Nat BY JobsAssumption
    <3>2. job[w].item \in 0..Generations[n].items BY <1>1 DEF GenJobs
    <3> QED BY <2>2, <3>1, <3>2
  <2>4. PICK v : v = IF job[w].at = "insert_asset" THEN "asset" ELSE "url" OBVIOUS
  <2>5. PICK a : a = IF k + 1 = job[w].item THEN "check3" ELSE "store" OBVIOUS
  <2>6. PICK f : f = job[w].flushed \cup {<<k + 1, v>>} OBVIOUS
  <2>7. PICK r : r = [job[w] EXCEPT !.flushed = f, !.at = a] OBVIOUS
  <2>8. job' = [job EXCEPT ![w].flushed = @ \cup {<<k + 1, v>>}, ![w].at = a]
    BY <1>3, <2>2, <2>4, <2>5 DEF Generation!Insert, Generation!At
  <2>9. job' = [job EXCEPT ![w] = r] BY <1>1, <2>6, <2>7, <2>8
  <2>10. f \in SUBSET (Generation(n)!Index \X {"url", "asset"})
    BY <1>1, <2>2, <2>4, <2>6 DEF GenJobs
  <2>11. a \in GenAts /\ a \in {"check3", "store"} BY <2>5 DEF GenAts
  <2>12. r \in GenJobs(n) /\ r.at = a /\ r.task = job[w].task /\ r.seen = job[w].seen
         /\ r.flushed = f /\ r.item = job[w].item
    BY <1>1, <2>7, <2>10, <2>11 DEF GenJobs
  <2>13. FlushedItems(r) = 1..(k + 1)
    <3>1. FlushedItems(r) = FlushedItems(job[w]) \cup {k + 1}
      <4>1. FlushedItems(r) = {p[1] : p \in f} BY <2>12 DEF FlushedItems
      <4>2. {p[1] : p \in f} = {p[1] : p \in job[w].flushed} \cup {k + 1}
        <5>1. PICK q : q = <<k + 1, v>> OBVIOUS
        <5>2. q[1] = k + 1 BY <5>1
        <5>3. f = job[w].flushed \cup {q} BY <2>6, <5>1
        <5> QED BY <5>2, <5>3
      <4> QED BY <4>1, <4>2 DEF FlushedItems
    <3> QED BY <2>2, <2>3, <3>1
  <2>14. r \in GenRows(n)
    <3>1. f # {} BY <2>6
    <3>2. r.task # "none" BY <2>1, <2>12, GenRow, JobsAssumption
    <3>3. a = "store" => k + 1 \in 0..(r.item - 1) BY <2>2, <2>3, <2>5, <2>12
    <3> QED BY <2>11, <2>12, <2>13, <3>1, <3>2, <3>3 DEF GenRows
  <2>15. GenMoves(n, w, r) /\ UNCHANGED outputs
    BY <1>3, <2>9 DEF Generation!Insert, Generation!rest, GenMoves
  <2> QED BY <2>1, <2>11, <2>12, <2>14, <2>15, GenQuiet
<1> QED BY <1>2, <1>3

\* A worker writes RUNNING, CANCELED, FAILED or SUCCEEDED.
LEMMA GenCommits ==
  ASSUME NEW n \in DOMAIN Generations, GenInv(n), NEW w \in Generations[n].workers,
         Generation(n)!Start(w) \/ Generation(n)!WriteCanceled(w)
           \/ Generation(n)!Fail(w) \/ Generation(n)!Finish(w)
  PROVE  GenInv(n)'
<1>1. /\ job[w] \in GenRows(n) /\ job[w] \in GenJobs(n)
      /\ job \in [Generations[n].workers -> GenRows(n)] /\ cancelKey \in BOOLEAN
      /\ tries \in [Generations[n].tasks -> 0..Generations[n].retries] /\ faults \in Nat
  BY GenRow DEF GenInv, GenTypes, Generation!TypeOK
<1>2. UNCHANGED <<cancelKey, broker, tries, faults>>
      /\ UNCHANGED <<shares, caller, canceler, sharer, late>>
  BY DEF Generation!Start, Generation!WriteCanceled, Generation!Fail, Generation!Finish,
         Generation!rest
<1>3. ASSUME NEW s \in {"running", "canceled", "failed", "succeeded"}, NEW r,
             job[w].at # "idle", Generation(n)!Commit(w, s), job' = [job EXCEPT ![w] = r],
             s = "succeeded" => job[w].at = "finish"
      PROVE  GenWrites(n, w, r, s) /\ s \in Generation(n)!Status \ {"none"}
  <2>1. /\ taskRow' = [taskRow EXCEPT ![job[w].task] = s]
        /\ outputs' \in [Generations[n].tasks -> [Generation(n)!Index -> Generation(n)!Output]]
        /\ GenKept(n)
        /\ job[w].flushed # {} =>
             \E i \in Generation(n)!Index : outputs'[job[w].task][i] # "none"
    BY <1>3, GenCommit
  <2>2. s = "succeeded" => job[w].flushed # {} BY <1>1, <1>3 DEF GenRows
  <2>3. s \in Generation(n)!Status \ {"none"} BY DEF Generation!Status, Generation!Final
  <2> QED BY <1>2, <1>3, <2>1, <2>2, <2>3 DEF GenWrites
<1>4. CASE Generation(n)!Start(w)
  <2>1. PICK r : r = [job[w] EXCEPT !.at = "execute", !.seen = "running"] OBVIOUS
  <2>2. /\ job' = [job EXCEPT ![w].at = "execute", ![w].seen = "running"]
        /\ job[w].at = "start" /\ Generation(n)!Commit(w, "running")
    BY <1>4 DEF Generation!Start, Generation!At
  <2>3. job' = [job EXCEPT ![w] = r] BY <1>1, <2>1, <2>2
  <2>4. r \in GenJobs(n) /\ r.at = "execute" /\ r.task = job[w].task /\ r.seen = "running"
        /\ r.flushed = job[w].flushed
    BY <1>1, <2>1 DEF GenJobs, GenAts, Generation!Status
  <2>5. r \in GenRows(n) BY <1>1, <2>2, <2>4 DEF GenRows
  <2>6. GenWrites(n, w, r, "running") /\ "running" \in Generation(n)!Status \ {"none"}
    BY <1>3, <2>2, <2>3
  <2>7. cancelKey' \in BOOLEAN /\ cancelKey' = cancelKey BY <1>1, <1>2
  <2> QED BY <1>2, <2>2, <2>4, <2>5, <2>6, <2>7, GenSession
<1>5. CASE Generation(n)!WriteCanceled(w)
  <2>1. /\ job' = [job EXCEPT ![w] = Generation(n)!Idle]
        /\ job[w].at = "cancel" /\ Generation(n)!Commit(w, "canceled")
    BY <1>5 DEF Generation!WriteCanceled, Generation!At, Generation!Done
  <2>2. /\ GenWrites(n, w, Generation(n)!Idle, "canceled")
        /\ "canceled" \in Generation(n)!Status \ {"none"}
    BY <1>3, <2>1
  <2> QED BY <1>1, <1>2, <2>1, <2>2, GenEnd
<1>6. CASE Generation(n)!Fail(w)
  <2>1. /\ job' = [job EXCEPT ![w] = Generation(n)!Idle]
        /\ job[w].at = "fail" /\ Generation(n)!Commit(w, "failed")
    BY <1>6 DEF Generation!Fail, Generation!At, Generation!Done
  <2>2. /\ GenWrites(n, w, Generation(n)!Idle, "failed")
        /\ "failed" \in Generation(n)!Status \ {"none"}
    BY <1>3, <2>1
  <2> QED BY <1>1, <1>2, <2>1, <2>2, GenEnd
<1>7. CASE Generation(n)!Finish(w)
  <2>1. /\ job' = [job EXCEPT ![w] = Generation(n)!Idle]
        /\ job[w].at = "finish" /\ Generation(n)!Commit(w, "succeeded")
    BY <1>7 DEF Generation!Finish, Generation!At, Generation!Done
  <2>2. /\ GenWrites(n, w, Generation(n)!Idle, "succeeded")
        /\ "succeeded" \in Generation(n)!Status \ {"none"}
    BY <1>3, <2>1
  <2> QED BY <1>1, <1>2, <2>1, <2>2, GenEnd
<1> QED BY <1>4, <1>5, <1>6, <1>7

\* A worker gives its task back: Celery tries again, or the message is delivered again.
LEMMA GenGivesBack ==
  ASSUME NEW n \in DOMAIN Generations, GenInv(n), NEW w \in Generations[n].workers,
         Generation(n)!InsertConflicts(w) \/ Generation(n)!StoreFails(w)
           \/ Generation(n)!WorkerCrash(w)
  PROVE  GenInv(n)'
<1> DEFINE T == Generations[n].tasks
           t == job[w].task
<1>1. /\ job' = [job EXCEPT ![w] = Generation(n)!Idle]
      /\ UNCHANGED <<taskRow, outputs, cancelKey>>
      /\ UNCHANGED <<shares, caller, canceler, sharer, late>>
      /\ job[w].at # "idle"
  BY DEF Generation!InsertConflicts, Generation!StoreFails, Generation!WorkerCrash,
         Generation!Retry, Generation!Done, Generation!rest, Generation!At
<1>2. /\ t \in T /\ faults \in Nat /\ broker \in [T -> Nat]
      /\ tries \in [T -> 0..Generations[n].retries] /\ Generations[n].retries \in Nat
  BY <1>1, GenRow, JobsAssumption DEF GenInv, GenTypes, Generation!TypeOK
<1>3. ASSUME Generation(n)!Retry(w)
      PROVE  /\ tries' \in [T -> 0..Generations[n].retries]
             /\ broker' = broker \/ broker' = [broker EXCEPT ![t] = @ + 1]
  <2>1. tries' = [tries EXCEPT ![t] = IF @ < Generations[n].retries THEN @ + 1 ELSE @]
        /\ broker' = [broker EXCEPT ![t] = IF tries[t] < Generations[n].retries THEN @ + 1 ELSE @]
    BY <1>3 DEF Generation!Retry
  <2>2. tries[t] \in 0..Generations[n].retries BY <1>2
  <2>3. (IF tries[t] < Generations[n].retries THEN tries[t] + 1 ELSE tries[t])
          \in 0..Generations[n].retries
    BY <1>2, <2>2
  <2>4. tries' \in [T -> 0..Generations[n].retries] BY <1>2, <2>1, <2>3
  <2>5. CASE tries[t] < Generations[n].retries
    <3>1. broker' = [broker EXCEPT ![t] = @ + 1] BY <2>1, <2>5
    <3> QED BY <2>4, <3>1
  <2>6. CASE ~(tries[t] < Generations[n].retries)
    <3>1. broker' = broker BY <1>2, <2>1, <2>6
    <3> QED BY <2>4, <3>1
  <2> QED BY <2>5, <2>6
<1>4. /\ tries' \in [T -> 0..Generations[n].retries]
      /\ broker' = broker \/ broker' = [broker EXCEPT ![t] = @ + 1]
  <2>1. CASE Generation(n)!WorkerCrash(w) BY <1>2, <2>1 DEF Generation!WorkerCrash
  <2>2. CASE Generation(n)!InsertConflicts(w) \/ Generation(n)!StoreFails(w)
    BY <1>3, <2>2 DEF Generation!InsertConflicts, Generation!StoreFails
  <2> QED BY <2>1, <2>2
<1>5. faults' \in Nat /\ (faults' = 0 => faults = 0 /\ job[w].at # "cancel")
  BY <1>2 DEF Generation!InsertConflicts, Generation!StoreFails, Generation!WorkerCrash,
              Generation!Fault
<1>6. PICK s : s = taskRow[t] OBVIOUS
<1>7. /\ GenWrites(n, w, Generation(n)!Idle, s) /\ s \in Generation(n)!Status \ {"none"}
      /\ faults = 0 => s \in {"queued", "running", "canceled"}
  BY <1>1, <1>6, GenNotes
<1> QED BY <1>1, <1>4, <1>5, <1>7, GenEnd

\* A message is delivered.
LEMMA GenTakes ==
  ASSUME NEW n \in DOMAIN Generations, GenInv(n), NEW w \in Generations[n].workers,
         NEW t \in Generations[n].tasks, Generation(n)!Take(w, t)
  PROVE  GenInv(n)'
<1> DEFINE T == Generations[n].tasks
           W == Generations[n].workers
<1>1. /\ job \in [W -> GenRows(n)] /\ broker \in [T -> Nat] /\ job[w].at = "idle"
      /\ broker[t] > 0 /\ broker[t] \in Nat
      /\ broker' = [broker EXCEPT ![t] = @ - 1]
      /\ UNCHANGED <<taskRow, outputs, cancelKey, tries, faults>>
      /\ UNCHANGED <<shares, caller, canceler, sharer, late>>
  BY DEF GenInv, GenTypes, Generation!Take, Generation!At, Generation!rest
<1>2. /\ broker' \in [T -> Nat] /\ broker'[t] = broker[t] - 1
      /\ \A u \in T : u # t => broker'[u] = broker[u]
  BY <1>1
<1>3. taskRow[t] \in Generation(n)!Status /\ taskRow[t] # "none"
  BY <1>1 DEF GenInv, GenTypes, Generation!TypeOK, GenKnown
<1>4. PICK r : r = [Generation(n)!Idle EXCEPT !.at = "check0", !.task = t, !.seen = taskRow[t]]
  OBVIOUS
<1>5. /\ r \in GenRows(n) /\ r.at = "check0" /\ r.task = t /\ r.seen = taskRow[t]
  <2>1. Generation(n)!Idle \in GenRows(n) BY GenIdle
  <2>2. Generation(n)!Idle \in GenJobs(n) BY <2>1 DEF GenRows
  <2>3. r.flushed = {} /\ r.task = t /\ r.at = "check0" /\ r.seen = taskRow[t]
    BY <1>4 DEF Generation!Idle
  <2>4. r \in GenJobs(n) BY <1>3, <1>4, <2>2 DEF GenJobs, GenAts
  <2>5. t # "none" BY JobsAssumption
  <2> QED BY <2>3, <2>4, <2>5 DEF GenRows
<1>6. job' = IF taskRow[t] \in Generation(n)!Final THEN job ELSE [job EXCEPT ![w] = r]
  BY <1>4 DEF Generation!Take
<1>7. /\ job' \in [W -> GenRows(n)] /\ \A v \in W : v # w => job'[v] = job[v]
      /\ \/ job'[w] = job[w]
         \/ job'[w] = r /\ taskRow[t] \notin Generation(n)!Final
  BY <1>1, <1>5, <1>6
<1>8. Generation(n)!TypeOK' BY <1>1 DEF GenInv, GenTypes, Generation!TypeOK
<1>9. GenTypes(n)' BY <1>1, <1>2, <1>7, <1>8 DEF GenInv, GenTypes
<1>10. Generation(n)!ResultsExist' BY <1>1 DEF GenInv, Generation!ResultsExist
<1>11. GenKnown(n)'
  <2>1. \A u \in T : \A v \in W : job'[v].task = u => job[v].task = u \/ u = t
    BY <1>5, <1>7
  <2>2. ASSUME NEW u \in T
        PROVE  /\ caller'[u] # "done" => taskRow'[u] = "none"
               /\ taskRow'[u] = "none" => broker'[u] = 0 /\ \A v \in W : job'[v].task # u
               /\ canceler' = u => taskRow'[u] # "none"
    <3>1. caller'[u] # "done" => taskRow'[u] = "none" BY <1>1 DEF GenInv, GenKnown
    <3>2. ASSUME taskRow'[u] = "none" PROVE broker'[u] = 0 /\ \A v \in W : job'[v].task # u
      <4>1. u # t BY <1>1, <1>3, <3>2
      <4> QED BY <1>1, <1>2, <2>1, <3>2, <4>1 DEF GenInv, GenKnown
    <3>3. canceler' = u => taskRow'[u] # "none" BY <1>1 DEF GenInv, GenKnown
    <3> QED BY <3>1, <3>2, <3>3
  <2> QED BY <2>2 DEF GenKnown
<1>12. \A v \in W : job'[v].at # "idle" =>
         \/ job'[v] = job[v]
         \/ v = w /\ job'[v] = r /\ taskRow[t] \notin Generation(n)!Final
  BY <1>7
<1>13. faults = 0 => /\ broker[t] = 1 /\ broker'[t] = 0
                     /\ \A v \in W : job[v].at # "idle" => job[v].task # t
  BY <1>1, <1>2 DEF GenInv, GenOnce
<1>14. "none" \notin T /\ \A v \in W : job[v].at = "idle" <=> job[v].task = "none"
  BY <1>1, JobsAssumption DEF GenRows
<1>15. GenOnce(n)'
  <2> SUFFICES ASSUME faults = 0 PROVE GenOnce(n)' BY <1>1 DEF GenOnce
  <2>1. \A u \in T : broker[u] <= 1 BY DEF GenInv, GenOnce
  <2>2. \A u \in T : broker'[u] <= 1 BY <1>2, <1>13, <2>1
  <2>3. ASSUME NEW v \in W, job'[v].at # "idle"
        PROVE  /\ broker'[job'[v].task] = 0
               /\ taskRow'[job'[v].task] \in {"queued", "running", "canceled"}
               /\ job'[v].seen \in {"queued", "running", "expired"}
               /\ \A u \in W : job'[u].task = job'[v].task => u = v
    <3>1. CASE job'[v] = job[v]
      <4>1. /\ broker[job[v].task] = 0
            /\ taskRow[job[v].task] \in {"queued", "running", "canceled"}
            /\ job[v].seen \in {"queued", "running", "expired"}
            /\ \A u \in W : job[u].task = job[v].task => u = v
            /\ job[v].task \in T
        BY <2>3, <3>1, GenRow DEF GenInv, GenOnce
      <4>2. job[v].task # t BY <1>13, <2>3, <3>1
      <4>3. broker'[job'[v].task] = 0 BY <1>2, <3>1, <4>1, <4>2
      <4>4. \A u \in W : job'[u].task = job'[v].task => u = v
        BY <1>5, <1>7, <3>1, <4>1, <4>2
      <4> QED BY <1>1, <3>1, <4>1, <4>3, <4>4
    <3>2. CASE v = w /\ job'[v] = r /\ taskRow[t] \notin Generation(n)!Final
      <4>1. taskRow[t] \in {"queued", "running"}
        BY <1>3, <3>2 DEF Generation!Status, Generation!Final
      <4>2. \A u \in W : job'[u].task = t => u = w
        BY <1>7, <1>13, <1>14
      <4> QED BY <1>1, <1>5, <1>13, <3>2, <4>1, <4>2
    <3> QED BY <1>12, <2>3, <3>1, <3>2
  <2> QED BY <2>2, <2>3 DEF GenOnce
<1>16. GenHeard(n)'
  <2> SUFFICES ASSUME faults = 0, canceler # "idle", NEW u \in T \ late,
                      Generation(n)!Created' \subseteq {u}
               PROVE  /\ taskRow'[u] # "succeeded"
                      /\ \A v \in W : job'[v].task = u => job'[v].at # "finish"
                      /\ \/ cancelKey'
                         \/ \E v \in W : job'[v].task = u /\ job'[v].at = "cancel"
                         \/ GenEnded(n, u)'
    BY <1>1 DEF GenHeard
  <2>1. Generation(n)!Created \subseteq {u} BY <1>1 DEF Generation!Created
  <2>2. t = u BY <1>3, <2>1 DEF Generation!Created
  <2>3. /\ taskRow[u] # "succeeded"
        /\ \A v \in W : job[v].task = u => job[v].at # "finish"
        /\ \/ cancelKey
           \/ \E v \in W : job[v].task = u /\ job[v].at = "cancel"
           \/ GenEnded(n, u)
    BY <2>1 DEF GenInv, GenHeard
  <2>4. cancelKey
    <3>1. ~GenEnded(n, u) BY <1>13, <2>2 DEF GenEnded
    <3>2. \A v \in W : job[v].task = u => job[v].at = "idle" BY <1>13, <2>2
    <3> QED BY <2>3, <3>1, <3>2
  <2>5. \A v \in W : job'[v].task = u => job'[v].at # "finish"
    BY <1>5, <1>7, <2>3
  <2>6. taskRow'[u] # "succeeded" BY <1>1, <2>3
  <2>7. cancelKey' BY <1>1, <2>4
  <2> QED BY <2>5, <2>6, <2>7
<1> QED BY <1>9, <1>10, <1>11, <1>15, <1>16 DEF GenInv

\* Faults that leave every worker where it is.
LEMMA GenFaults ==
  ASSUME NEW n \in DOMAIN Generations, GenInv(n),
         \/ \E w \in Generations[n].workers : Generation(n)!Redeliver(w)
         \/ Generation(n)!CancelExpires
  PROVE  GenInv(n)'
<1> DEFINE T == Generations[n].tasks
           W == Generations[n].workers
<1>1. /\ faults \in Nat /\ faults' = faults + 1
      /\ UNCHANGED <<taskRow, outputs, tries, job>>
      /\ UNCHANGED <<shares, caller, canceler, sharer, late>>
  BY DEF GenInv, GenTypes, Generation!Redeliver, Generation!CancelExpires, Generation!Fault,
         Generation!rest
<1>2. /\ broker \in [T -> Nat] /\ cancelKey \in BOOLEAN BY DEF GenInv, GenTypes
<1>3. /\ broker' \in [T -> Nat] /\ cancelKey' \in BOOLEAN
      /\ \A t \in T : taskRow[t] = "none" => broker'[t] = broker[t]
  <2>1. CASE Generation(n)!CancelExpires
    BY <1>2, <2>1 DEF Generation!CancelExpires
  <2>2. CASE \E w \in W : Generation(n)!Redeliver(w)
    <3>1. PICK w \in W : /\ job[w].at # "idle" /\ cancelKey' = cancelKey
                         /\ broker' = [broker EXCEPT ![job[w].task] = @ + 1]
      BY <2>2 DEF Generation!Redeliver, Generation!At
    <3>2. job[w].task \in T /\ taskRow[job[w].task] # "none" BY <3>1, GenRow
    <3> QED BY <1>2, <3>1, <3>2
  <2> QED BY <2>1, <2>2
<1>4. Generation(n)!TypeOK' BY <1>1 DEF GenInv, GenTypes, Generation!TypeOK
<1>5. GenTypes(n)' BY <1>1, <1>3, <1>4 DEF GenInv, GenTypes
<1>6. Generation(n)!ResultsExist' BY <1>1 DEF GenInv, Generation!ResultsExist
<1>7. GenKnown(n)' BY <1>1, <1>3 DEF GenInv, GenKnown
<1>8. faults' # 0 BY <1>1
<1>9. GenOnce(n)' BY <1>8 DEF GenOnce
<1>10. GenHeard(n)' BY <1>8 DEF GenHeard
<1> QED BY <1>5, <1>6, <1>7, <1>9, <1>10 DEF GenInv

\* A create call looks the request up, and creates a task with its message.
LEMMA GenCreates ==
  ASSUME NEW n \in DOMAIN Generations, GenInv(n), NEW t \in Generations[n].tasks,
         Generation(n)!LookUp(t) \/ Generation(n)!Create(t)
  PROVE  GenInv(n)'
<1> DEFINE T == Generations[n].tasks
           W == Generations[n].workers
<1>1. /\ UNCHANGED <<outputs, shares, cancelKey, tries, job, canceler, sharer, faults, late>>
      /\ caller \in [T -> {"idle", "absent", "done"}] /\ broker \in [T -> Nat]
      /\ taskRow \in [T -> Generation(n)!Status]
      /\ caller[t] # "done" /\ taskRow[t] = "none" /\ broker[t] = 0
      /\ \A w \in W : job[w].task # t
  BY DEF GenInv, GenTypes, GenKnown, Generation!TypeOK, Generation!LookUp, Generation!Create
<1>2. CASE Generation(n)!LookUp(t)
  <2>1. /\ UNCHANGED <<taskRow, broker>>
        /\ caller' = [caller EXCEPT ![t] =
                        IF Generation(n)!Created = {} THEN "absent" ELSE "done"]
    BY <1>2 DEF Generation!LookUp
  <2>2. /\ caller' \in [T -> {"idle", "absent", "done"}]
        /\ \A u \in T : u # t => caller'[u] = caller[u]
    BY <1>1, <2>1
  <2>3. Generation(n)!TypeOK' BY <1>1, <2>1 DEF GenInv, GenTypes, Generation!TypeOK
  <2>4. GenTypes(n)' BY <1>1, <2>1, <2>2, <2>3 DEF GenInv, GenTypes
  <2>5. Generation(n)!ResultsExist' BY <1>1, <2>1 DEF GenInv, Generation!ResultsExist
  <2>6. \A u \in T : caller'[u] # "done" => taskRow[u] = "none"
    BY <1>1, <2>2 DEF GenInv, GenKnown
  <2>7. GenKnown(n)' BY <1>1, <2>1, <2>6 DEF GenInv, GenKnown
  <2>8. GenOnce(n)' BY <1>1, <2>1 DEF GenInv, GenOnce
  <2>9. GenHeard(n)' BY <1>1, <2>1 DEF GenInv, GenHeard, GenEnded, Generation!Created
  <2> QED BY <2>4, <2>5, <2>7, <2>8, <2>9 DEF GenInv
<1>3. CASE Generation(n)!Create(t)
  <2>1. /\ caller' = [caller EXCEPT ![t] = "done"]
        /\ taskRow' = [taskRow EXCEPT ![t] = "queued"]
        /\ broker' = [broker EXCEPT ![t] = 1]
    BY <1>3 DEF Generation!Create
  <2>2. /\ caller' \in [T -> {"idle", "absent", "done"}] /\ caller'[t] = "done"
        /\ \A u \in T : u # t => caller'[u] = caller[u]
        /\ broker' \in [T -> Nat] /\ broker'[t] = 1
        /\ \A u \in T : u # t => broker'[u] = broker[u]
    BY <1>1, <2>1
  <2>3. /\ taskRow' \in [T -> Generation(n)!Status] /\ taskRow'[t] = "queued"
        /\ \A u \in T : u # t => taskRow'[u] = taskRow[u]
    BY <1>1, <2>1 DEF Generation!Status
  <2>4. Generation(n)!TypeOK' BY <1>1, <2>3 DEF GenInv, GenTypes, Generation!TypeOK
  <2>5. GenTypes(n)' BY <1>1, <2>2, <2>4 DEF GenInv, GenTypes
  <2>6. Generation(n)!ResultsExist' BY <1>1, <2>3 DEF GenInv, Generation!ResultsExist
  <2>7. GenKnown(n)' BY <1>1, <2>2, <2>3 DEF GenInv, GenKnown
  <2>8. GenOnce(n)'
    <3> SUFFICES ASSUME faults = 0 PROVE GenOnce(n)' BY <1>1 DEF GenOnce
    <3>1. \A u \in T : broker[u] <= 1 BY DEF GenInv, GenOnce
    <3>2. \A u \in T : broker'[u] <= 1 BY <2>2, <3>1
    <3>3. ASSUME NEW v \in W, job[v].at # "idle"
          PROVE  /\ broker'[job[v].task] = 0
                 /\ taskRow'[job[v].task] \in {"queued", "running", "canceled"}
                 /\ job[v].seen \in {"queued", "running", "expired"}
                 /\ \A u \in W : job[u].task = job[v].task => u = v
      <4>1. job[v].task # t /\ job[v].task \in T BY <1>1, <3>3, GenRow
      <4> QED BY <2>2, <2>3, <3>3, <4>1 DEF GenInv, GenOnce
    <3> QED BY <1>1, <3>2, <3>3 DEF GenOnce
  <2>9. GenHeard(n)'
    <3> SUFFICES ASSUME faults = 0, canceler # "idle", NEW u \in T \ late,
                        Generation(n)!Created' \subseteq {u}
                 PROVE  /\ taskRow'[u] # "succeeded"
                        /\ \A v \in W : job'[v].task = u => job'[v].at # "finish"
                        /\ \/ cancelKey'
                           \/ \E v \in W : job'[v].task = u /\ job'[v].at = "cancel"
                           \/ GenEnded(n, u)'
      BY <1>1 DEF GenHeard
    <3>1. t = u BY <2>3 DEF Generation!Created
    <3>2. Generation(n)!Created \subseteq {u}
      BY <2>3 DEF Generation!Created
    <3>3. cancelKey \/ (\E v \in W : job[v].task = u /\ job[v].at = "cancel") \/ GenEnded(n, u)
      BY <3>2 DEF GenInv, GenHeard
    <3>4. cancelKey BY <1>1, <3>1, <3>3 DEF GenEnded
    <3>5. cancelKey' BY <1>1, <3>4
    <3> QED BY <1>1, <2>3, <3>1, <3>5
  <2> QED BY <2>5, <2>6, <2>7, <2>8, <2>9 DEF GenInv
<1> QED BY <1>2, <1>3

\* A cancel call sets the flag and finds the task.
LEMMA GenMarks ==
  ASSUME NEW n \in DOMAIN Generations, GenInv(n),
         Generation(n)!MarkCancel \/ Generation(n)!FindTask
  PROVE  GenInv(n)'
<1> DEFINE T == Generations[n].tasks
           W == Generations[n].workers
<1>1. UNCHANGED <<taskRow, outputs, shares, broker, tries, job, caller, sharer, faults>>
  BY DEF Generation!MarkCancel, Generation!FindTask
<1>2. Generation(n)!TypeOK' BY <1>1 DEF GenInv, GenTypes, Generation!TypeOK
<1>3. Generation(n)!ResultsExist' BY <1>1 DEF GenInv, Generation!ResultsExist
<1>4. ASSUME \A t \in T : canceler' = t => taskRow[t] # "none" PROVE GenKnown(n)'
  BY <1>1, <1>4 DEF GenInv, GenKnown
<1>5. GenOnce(n)' BY <1>1 DEF GenInv, GenOnce
<1>6. CASE Generation(n)!MarkCancel
  <2>1. canceler' = "marked" /\ cancelKey' = TRUE
        /\ late' = {t \in T : taskRow[t] \in Generation(n)!Final}
             \cup {job[w].task : w \in {v \in W : job[v].at = "finish" \/ job[v].at = "fail"}}
    BY <1>6 DEF Generation!MarkCancel, Generation!At
  <2>2. canceler' \in {"idle", "marked", "done"} \cup T /\ cancelKey' \in BOOLEAN BY <2>1
  <2>3. GenTypes(n)' BY <1>1, <1>2, <2>2 DEF GenInv, GenTypes
  <2>4. \A t \in T \ late' :
          taskRow[t] # "succeeded" /\ \A w \in W : job[w].task = t => job[w].at # "finish"
    BY <2>1 DEF Generation!Final
  <2>5. GenHeard(n)' BY <1>1, <2>1, <2>4 DEF GenHeard
  <2>6. GenKnown(n)' BY <1>4, <2>1, JobsAssumption
  <2> QED BY <1>3, <1>5, <2>3, <2>5, <2>6 DEF GenInv
<1>7. CASE Generation(n)!FindTask
  <2>1. canceler = "marked" /\ UNCHANGED <<cancelKey, late>>
    BY <1>7 DEF Generation!FindTask
  <2>2. canceler' = "done" \/ \E t \in T : taskRow[t] # "none" /\ canceler' = t
    <3>1. canceler' = "done" \/ \E t \in Generation(n)!Created : canceler' = t
      BY <1>7 DEF Generation!FindTask
    <3> QED BY <3>1 DEF Generation!Created
  <2>3. GenTypes(n)' BY <1>1, <1>2, <2>1, <2>2 DEF GenInv, GenTypes
  <2>4. canceler # "idle" BY <2>1
  <2>5. GenHeard(n)'
    BY <1>1, <2>1, <2>4 DEF GenInv, GenHeard, GenEnded, Generation!Created
  <2>6. GenKnown(n)' BY <1>4, <2>2, JobsAssumption
  <2> QED BY <1>3, <1>5, <2>3, <2>5, <2>6 DEF GenInv
<1> QED BY <1>6, <1>7

\* The cancel call writes the row it has found, whatever it has become.
LEMMA GenOverwrites ==
  ASSUME NEW n \in DOMAIN Generations, GenInv(n), NEW t \in Generations[n].tasks,
         Generation(n)!WriteCancel(t)
  PROVE  GenInv(n)'
<1> DEFINE T == Generations[n].tasks
           W == Generations[n].workers
<1>1. /\ canceler = t /\ canceler' = "done" /\ taskRow' = [taskRow EXCEPT ![t] = "canceled"]
      /\ UNCHANGED <<outputs, shares, cancelKey, broker, tries, job, caller, sharer, faults, late>>
      /\ taskRow \in [T -> Generation(n)!Status] /\ taskRow[t] # "none"
  BY DEF Generation!WriteCancel, GenInv, GenTypes, GenKnown, Generation!TypeOK
<1>2. /\ taskRow' \in [T -> Generation(n)!Status] /\ taskRow'[t] = "canceled"
      /\ \A u \in T : u # t => taskRow'[u] = taskRow[u]
  BY <1>1 DEF Generation!Status, Generation!Final
<1>3. Generation(n)!TypeOK' BY <1>1, <1>2 DEF GenInv, GenTypes, Generation!TypeOK
<1>4. GenTypes(n)' BY <1>1, <1>3 DEF GenInv, GenTypes
<1>5. Generation(n)!ResultsExist' BY <1>1, <1>2 DEF GenInv, Generation!ResultsExist
<1>6. GenKnown(n)'
  <2>1. \A u \in T : canceler' # u BY <1>1, JobsAssumption
  <2> QED BY <1>1, <1>2, <2>1 DEF GenInv, GenKnown
<1>7. GenOnce(n)'
  <2> SUFFICES ASSUME faults = 0 PROVE GenOnce(n)' BY <1>1 DEF GenOnce
  <2>1. ASSUME NEW v \in W, job[v].at # "idle"
        PROVE  taskRow'[job[v].task] \in {"queued", "running", "canceled"}
    <3>1. job[v].task \in T /\ taskRow[job[v].task] \in {"queued", "running", "canceled"}
      BY <2>1, GenRow DEF GenInv, GenOnce
    <3> QED BY <1>2, <3>1
  <2> QED BY <1>1, <2>1 DEF GenInv, GenOnce
<1>8. GenHeard(n)'
  <2> SUFFICES ASSUME faults = 0, NEW u \in T \ late, Generation(n)!Created' \subseteq {u}
               PROVE  /\ taskRow'[u] # "succeeded"
                      /\ \A v \in W : job'[v].task = u => job'[v].at # "finish"
                      /\ \/ cancelKey'
                         \/ \E v \in W : job'[v].task = u /\ job'[v].at = "cancel"
                         \/ GenEnded(n, u)'
    BY <1>1 DEF GenHeard
  <2>1. t = u BY <1>2 DEF Generation!Created
  <2>2. Generation(n)!Created \subseteq {u} BY <1>2, <2>1 DEF Generation!Created
  <2>3. canceler # "idle" BY <1>1, JobsAssumption
  <2>4. /\ \A v \in W : job[v].task = u => job[v].at # "finish"
        /\ \/ cancelKey
           \/ \E v \in W : job[v].task = u /\ job[v].at = "cancel"
           \/ GenEnded(n, u)
    BY <2>2, <2>3 DEF GenInv, GenHeard
  <2>5. GenEnded(n, u) => GenEnded(n, u)' BY <1>1, <1>2, <2>1 DEF GenEnded
  <2>6. cancelKey' \/ (\E v \in W : job'[v].task = u /\ job'[v].at = "cancel") \/ GenEnded(n, u)'
    BY <1>1, <2>4, <2>5
  <2> QED BY <1>1, <1>2, <2>1, <2>4, <2>6
<1> QED BY <1>4, <1>5, <1>6, <1>7, <1>8 DEF GenInv

\* Shares, and assets that are fetched later.
LEMMA GenShares ==
  ASSUME NEW n \in DOMAIN Generations, GenInv(n), NEW t \in Generations[n].tasks,
         \/ Generation(n)!ReadForShare(t) \/ Generation(n)!Share(t) \/ Generation(n)!Unshare(t)
         \/ \E i \in Generation(n)!Index : Generation(n)!Hydrate(t, i)
  PROVE  GenInv(n)'
<1> DEFINE T == Generations[n].tasks
           I == Generation(n)!Index
<1>1. UNCHANGED <<taskRow, cancelKey, broker, tries, job, caller, canceler, faults, late>>
  BY DEF Generation!ReadForShare, Generation!Share, Generation!Unshare, Generation!Hydrate
<1>2. /\ shares \in [T -> Generation(n)!ShareRows] /\ sharer \subseteq T
      /\ outputs \in [T -> [I -> Generation(n)!Output]]
  BY DEF GenInv, GenTypes, Generation!TypeOK
<1>3. /\ shares' \in [T -> Generation(n)!ShareRows] /\ sharer' \subseteq T
      /\ outputs' \in [T -> [I -> Generation(n)!Output]] /\ GenKept(n)
      /\ \A u \in T : shares'[u] = "active" \/ u \in sharer' =>
           shares[u] = "active" \/ u \in sharer \/ \E i \in I : outputs[u][i] # "none"
  <2>1. CASE Generation(n)!ReadForShare(t)
    <3>1. sharer' = sharer \cup {t} /\ UNCHANGED <<shares, outputs>>
          /\ \E i \in I : outputs[t][i] # "none"
      BY <2>1 DEF Generation!ReadForShare
    <3> QED BY <1>2, <3>1 DEF GenKept
  <2>2. CASE Generation(n)!Share(t)
    <3>1. t \in sharer /\ sharer' = sharer \ {t} /\ shares' = [shares EXCEPT ![t] = "active"]
          /\ UNCHANGED outputs
      BY <2>2 DEF Generation!Share
    <3>2. shares' \in [T -> Generation(n)!ShareRows] BY <1>2, <3>1 DEF Generation!ShareRows
    <3> QED BY <1>2, <3>1, <3>2 DEF GenKept
  <2>3. CASE Generation(n)!Unshare(t)
    <3>1. shares' = [shares EXCEPT ![t] = "revoked"] /\ UNCHANGED <<sharer, outputs>>
      BY <2>3 DEF Generation!Unshare
    <3>2. shares' \in [T -> Generation(n)!ShareRows] BY <1>2, <3>1 DEF Generation!ShareRows
    <3> QED BY <1>2, <3>1, <3>2 DEF GenKept
  <2>4. CASE \E i \in I : Generation(n)!Hydrate(t, i)
    <3>1. PICK i \in I : outputs' = [outputs EXCEPT ![t][i] = "asset"]
                         /\ UNCHANGED <<shares, sharer>>
      BY <2>4 DEF Generation!Hydrate
    <3>2. outputs' \in [T -> [I -> Generation(n)!Output]]
      BY <1>2, <3>1 DEF Generation!Output
    <3>3. GenKept(n) BY <1>2, <3>1 DEF GenKept
    <3> QED BY <1>2, <3>1, <3>2, <3>3
  <2> QED BY <2>1, <2>2, <2>3, <2>4
<1>4. Generation(n)!TypeOK' BY <1>1, <1>3 DEF GenInv, GenTypes, Generation!TypeOK
<1>5. GenTypes(n)' BY <1>1, <1>3, <1>4 DEF GenInv, GenTypes
<1>6. ASSUME NEW u \in T, taskRow[u] = "succeeded" \/ shares'[u] = "active" \/ u \in sharer'
      PROVE  \E i \in I : outputs'[u][i] # "none"
  <2>1. \E i \in I : outputs[u][i] # "none"
    BY <1>3, <1>6 DEF GenInv, Generation!ResultsExist
  <2> QED BY <1>3, <2>1 DEF GenKept
<1>7. Generation(n)!ResultsExist' BY <1>1, <1>6 DEF Generation!ResultsExist
<1>8. GenKnown(n)' BY <1>1 DEF GenInv, GenKnown
<1>9. GenOnce(n)' BY <1>1 DEF GenInv, GenOnce
<1>10. GenHeard(n)' BY <1>1 DEF GenInv, GenHeard, GenEnded, Generation!Created
<1> QED BY <1>5, <1>7, <1>8, <1>9, <1>10 DEF GenInv

\* Every step of the tasks keeps the invariant.
LEMMA GenStep ==
  ASSUME NEW n \in DOMAIN Generations, GenInv(n), Generation(n)!Next
  PROVE  GenInv(n)'
<1>1. CASE \E w \in Generations[n].workers : Generation(n)!WorkerStep(w)
  <2>1. PICK w \in Generations[n].workers : Generation(n)!WorkerStep(w) BY <1>1
  <2>2. CASE \E t \in Generations[n].tasks : Generation(n)!Take(w, t) BY <2>2, GenTakes
  <2>3. CASE Generation(n)!CheckCancel(w) BY <2>3, GenChecks
  <2>4. CASE \/ Generation(n)!Start(w) \/ Generation(n)!WriteCanceled(w)
             \/ Generation(n)!Fail(w) \/ Generation(n)!Finish(w)
    BY <2>4, GenCommits
  <2>5. CASE \/ Generation(n)!Execute(w) \/ Generation(n)!ExecuteCrashes(w)
             \/ Generation(n)!Respond(w) \/ Generation(n)!StoreKnown(w)
    BY <2>5, GenExecutes
  <2>6. CASE Generation(n)!StoreNew(w) \/ Generation(n)!Insert(w) BY <2>6, GenStores
  <2>7. CASE Generation(n)!InsertConflicts(w) BY <2>7, GenGivesBack
  <2> QED BY <2>1, <2>2, <2>3, <2>4, <2>5, <2>6, <2>7 DEF Generation!WorkerStep
<1>2. CASE \E w \in Generations[n].workers : Generation(n)!WorkerFault(w)
  <2>1. PICK w \in Generations[n].workers : Generation(n)!WorkerFault(w) BY <1>2
  <2>2. CASE Generation(n)!StoreFails(w) \/ Generation(n)!WorkerCrash(w)
    BY <2>2, GenGivesBack
  <2>3. CASE Generation(n)!Redeliver(w) BY <2>3, GenFaults
  <2> QED BY <2>1, <2>2, <2>3 DEF Generation!WorkerFault
<1>3. ASSUME NEW t \in Generations[n].tasks,
             \/ Generation(n)!LookUp(t) \/ Generation(n)!Create(t)
             \/ Generation(n)!WriteCancel(t) \/ Generation(n)!ReadForShare(t)
             \/ Generation(n)!Share(t) \/ Generation(n)!Unshare(t)
             \/ \E i \in Generation(n)!Index : Generation(n)!Hydrate(t, i)
      PROVE  GenInv(n)'
  BY <1>3, GenCreates, GenOverwrites, GenShares
<1>4. CASE Generation(n)!MarkCancel \/ Generation(n)!FindTask BY <1>4, GenMarks
<1>5. CASE Generation(n)!CancelExpires BY <1>5, GenFaults
<1> QED BY <1>1, <1>2, <1>3, <1>4, <1>5 DEF Generation!Next

\* What the invariant says of results and cancellations.
LEMMA GenPromise ==
  ASSUME NEW n \in DOMAIN Generations, GenInv(n)
  PROVE  Generation(n)!TypeOK /\ Generation(n)!ResultsExist /\ Generation(n)!CancelHonoured
<1>1. ASSUME NEW t \in Generations[n].tasks, canceler # "idle", faults = 0,
             Generation(n)!Created = {t}, taskRow[t] = "succeeded"
      PROVE  t \in late
  BY <1>1 DEF GenInv, GenHeard
<1>2. Generation(n)!CancelHonoured BY <1>1 DEF Generation!CancelHonoured
<1> QED BY <1>2 DEF GenInv, GenTypes

-----------------------------------------------------------------------------
(* Monitors: a claim is of one desktop, and a monitor that is claimed is not due. *)

\* The records of runs and claims: of a monitor, or of none.
RunRows(n) == [monitor : Watches[n].monitors, errors : 0..(Watches[n].errors + 1),
               tries : 0..Watches[n].retries]
ClaimRows(n) == [monitor : Watches[n].monitors, fresh : BOOLEAN]

\* Rows keep their types; a monitor with a fresh claim is not due, so it goes to nobody
\* else until it is due again.
WatchInv(n) ==
  /\ Watch(n)!TypeOK
  /\ run \in [Watches[n].workers -> RunRows(n) \cup {Watch(n)!NoRun}]
  /\ claim \in [Watches[n].agents -> ClaimRows(n) \cup {Watch(n)!NoClaim}]
  /\ \A a \in Watches[n].agents : claim[a].fresh => monitor[claim[a].monitor].next # "due"
  /\ Watch(n)!OneClaim

\* No rows, runs or claims to begin with.
LEMMA WatchInit == ASSUME NEW n \in DOMAIN Watches, Watch(n)!Init PROVE WatchInv(n)
<1>1. Watches[n].errors \in Nat /\ Watches[n].retries \in Nat BY JobsAssumption DEF JobsAssumption
<1>2. Watch(n)!TypeOK
  BY <1>1 DEF Watch!Init, Watch!TypeOK, Watch!NoMonitor, Watch!MonitorRows, Watch!Statuses,
     Watch!Targets, Watch!NoTick, Watch!NoRun, Watch!NoClaim, Watch!Nobody
<1>3. \A a \in Watches[n].agents : claim[a].fresh = FALSE BY DEF Watch!Init, Watch!NoClaim
<1>4. /\ run \in [Watches[n].workers -> RunRows(n) \cup {Watch(n)!NoRun}]
      /\ claim \in [Watches[n].agents -> ClaimRows(n) \cup {Watch(n)!NoClaim}]
  BY DEF Watch!Init
<1> QED BY <1>2, <1>3, <1>4 DEF WatchInv, Watch!OneClaim

\* A step that makes no monitor due and gives no claim.
LEMMA WatchMove ==
  ASSUME NEW n \in DOMAIN Watches, WatchInv(n),
         monitor' \in [Watches[n].monitors -> Watch(n)!MonitorRows],
         \A m \in Watches[n].monitors : monitor'[m].next = "due" => monitor[m].next = "due",
         zset' \in [Watches[n].monitors -> {"out", "later", "due"}],
         post' \in [Watches[n].monitors -> SUBSET Watch(n)!Messages],
         tick'.todo \cup tick'.late \subseteq Watches[n].monitors,
         run' \in [Watches[n].workers -> RunRows(n) \cup {Watch(n)!NoRun}],
         UNCHANGED claim \/ \E a \in Watches[n].agents : claim' = [claim EXCEPT ![a] = Watch(n)!NoClaim]
  PROVE  WatchInv(n)'
<1>1. Watches[n].errors \in Nat /\ Watches[n].retries \in Nat BY JobsAssumption DEF JobsAssumption
<1> DEFINE Claims == ClaimRows(n) \cup {Watch(n)!NoClaim}
<1>2. claim \in [Watches[n].agents -> Claims] /\ Watch(n)!NoClaim \in Claims BY DEF WatchInv
<1>3. \A c \in Claims : c.fresh => c \in ClaimRows(n) /\ c.monitor \in Watches[n].monitors
  BY DEF ClaimRows, Watch!NoClaim
<1>4. ~ Watch(n)!NoClaim.fresh BY DEF Watch!NoClaim
<1> HIDE DEF Claims
<1>5. /\ claim' \in [Watches[n].agents -> Claims]
      /\ \A a \in Watches[n].agents : claim'[a].fresh => claim'[a] = claim[a]
  BY <1>2, <1>4
<1>6. \A a \in Watches[n].agents : claim'[a].fresh => monitor'[claim'[a].monitor].next # "due"
  BY <1>2, <1>3, <1>5 DEF WatchInv
<1>7. Watch(n)!OneClaim' BY <1>5 DEF WatchInv, Watch!OneClaim
<1>8. \A r \in RunRows(n) \cup {Watch(n)!NoRun} :
        r.monitor \in Watches[n].monitors \cup {Watch(n)!Nobody} /\ r.tries \in 0..Watches[n].retries
  BY <1>1 DEF RunRows, Watch!NoRun
<1>9. \A c \in Claims : c.monitor \in Watches[n].monitors \cup {Watch(n)!Nobody}
  BY DEF Claims, ClaimRows, Watch!NoClaim
<1>10. Watch(n)!TypeOK'
  <2>1. /\ \A w \in Watches[n].workers : /\ run'[w].monitor \in Watches[n].monitors \cup {Watch(n)!Nobody}
                                         /\ run'[w].tries \in 0..Watches[n].retries
        /\ \A a \in Watches[n].agents : claim'[a].monitor \in Watches[n].monitors \cup {Watch(n)!Nobody}
    BY <1>5, <1>8, <1>9
  <2> QED BY <2>1 DEF Watch!TypeOK, Watch!Nobody
<1> QED BY <1>5, <1>6, <1>7, <1>10 DEF WatchInv, Claims

\* A row written anew, a message sent.
LEMMA WatchRow ==
  ASSUME NEW n \in DOMAIN Watches, WatchInv(n), NEW m \in Watches[n].monitors,
         NEW new \in Watch(n)!MonitorRows, new.next = "due" => monitor[m].next = "due",
         monitor' = [monitor EXCEPT ![m] = new]
  PROVE  /\ monitor' \in [Watches[n].monitors -> Watch(n)!MonitorRows]
         /\ \A k \in Watches[n].monitors : monitor'[k].next = "due" => monitor[k].next = "due"
BY DEF WatchInv, Watch!TypeOK

\* What a write sends to the desktops is a message.
LEMMA WatchSend ==
  ASSUME NEW n \in DOMAIN Watches, WatchInv(n), NEW m \in Watches[n].monitors,
         NEW msg \in Watch(n)!Messages, Watch(n)!Send(m, msg)
  PROVE  post' \in [Watches[n].monitors -> SUBSET Watch(n)!Messages]
BY DEF Watch!Send, WatchInv, Watch!TypeOK

\* A row with another next run.
LEMMA NextRun ==
  ASSUME NEW n \in DOMAIN Watches, NEW r \in Watch(n)!MonitorRows,
         NEW x \in {"none", "later", "due"}
  PROVE  /\ [r EXCEPT !.next = x] \in Watch(n)!MonitorRows
         /\ [r EXCEPT !.next = x].next = x
         /\ [r EXCEPT !.next = x].status = r.status
         /\ [r EXCEPT !.next = x].on = r.on
BY DEF Watch!MonitorRows

\* Time, a request or a tick changes the schedule of a monitor; the claims lapse when it
\* falls due.
LEMMA WatchDue ==
  ASSUME NEW n \in DOMAIN Watches, WatchInv(n), NEW m \in Watches[n].monitors,
         monitor' = [monitor EXCEPT ![m].next = "due"], claim' = Watch(n)!Lapse(m),
         UNCHANGED <<zset, post, tick, run>>
  PROVE  WatchInv(n)'
<1> DEFINE Claims == ClaimRows(n) \cup {Watch(n)!NoClaim}
<1>1. claim \in [Watches[n].agents -> Claims] BY DEF WatchInv
<1>2. \A c \in Claims : /\ [c EXCEPT !.fresh = FALSE] \in Claims
                        /\ [c EXCEPT !.fresh = FALSE].fresh = FALSE
                        /\ c.monitor \in Watches[n].monitors \cup {Watch(n)!Nobody}
  <2>1. \A c \in ClaimRows(n) : /\ [c EXCEPT !.fresh = FALSE] \in ClaimRows(n)
                                /\ [c EXCEPT !.fresh = FALSE].fresh = FALSE
                                /\ c.monitor \in Watches[n].monitors
    BY DEF ClaimRows
  <2>2. /\ [Watch(n)!NoClaim EXCEPT !.fresh = FALSE] = Watch(n)!NoClaim
        /\ Watch(n)!NoClaim.fresh = FALSE /\ Watch(n)!NoClaim.monitor = Watch(n)!Nobody
    <3>1. /\ Watch(n)!NoClaim \in [monitor : {Watch(n)!Nobody}, fresh : BOOLEAN]
          /\ Watch(n)!NoClaim.fresh = FALSE /\ Watch(n)!NoClaim.monitor = Watch(n)!Nobody
      BY DEF Watch!NoClaim
    <3> QED BY <3>1
  <2> QED BY <2>1, <2>2
<1> HIDE DEF Claims
<1>3. \A a \in Watches[n].agents :
        claim'[a] = IF claim[a].monitor = m THEN [claim[a] EXCEPT !.fresh = FALSE] ELSE claim[a]
  BY DEF Watch!Lapse
<1>4. \A a \in Watches[n].agents : claim'[a] \in Claims BY <1>1, <1>2, <1>3
<1>5. claim' \in [Watches[n].agents -> Claims] BY <1>4 DEF Watch!Lapse
<1>6. \A a \in Watches[n].agents : claim'[a].fresh => claim'[a] = claim[a] /\ claim[a].monitor # m
  BY <1>1, <1>2, <1>3
<1>7. /\ monitor' \in [Watches[n].monitors -> Watch(n)!MonitorRows]
      /\ \A k \in Watches[n].monitors : k # m => monitor'[k] = monitor[k]
  <2>1. monitor \in [Watches[n].monitors -> Watch(n)!MonitorRows] BY DEF WatchInv, Watch!TypeOK
  <2>2. [monitor[m] EXCEPT !.next = "due"] \in Watch(n)!MonitorRows BY <2>1, NextRun
  <2> QED BY <2>1, <2>2
<1>8. \A a \in Watches[n].agents : claim'[a].fresh => monitor'[claim'[a].monitor].next # "due"
  <2> SUFFICES ASSUME NEW a \in Watches[n].agents, claim'[a].fresh
               PROVE  monitor'[claim'[a].monitor].next # "due"
    OBVIOUS
  <2>1. claim'[a] = claim[a] /\ claim[a].monitor # m /\ claim[a].fresh BY <1>6
  <2>2. claim[a].monitor \in Watches[n].monitors
    BY <1>1, <2>1 DEF Claims, ClaimRows, Watch!NoClaim
  <2> QED BY <1>7, <2>1, <2>2 DEF WatchInv
<1>9. Watch(n)!OneClaim' BY <1>6 DEF WatchInv, Watch!OneClaim
<1>10. Watch(n)!TypeOK'
  <2>1. \A a \in Watches[n].agents : claim'[a].monitor \in Watches[n].monitors \cup {Watch(n)!Nobody}
    BY <1>2, <1>4
  <2> QED BY <1>7, <2>1 DEF WatchInv, Watch!TypeOK
<1> QED BY <1>5, <1>8, <1>9, <1>10 DEF WatchInv, Claims

\* A due monitor is held by nobody else.
LEMMA WatchPull ==
  ASSUME NEW n \in DOMAIN Watches, WatchInv(n), NEW a \in Watches[n].agents,
         NEW m \in Watches[n].monitors, Watch(n)!PullLocalTasks(a, m)
  PROVE  WatchInv(n)'
<1> DEFINE Claims == ClaimRows(n) \cup {Watch(n)!NoClaim}
           new == [monitor |-> m, fresh |-> TRUE]
<1>1. new \in Claims /\ new.monitor = m BY DEF ClaimRows
<1>2. claim \in [Watches[n].agents -> Claims] BY DEF WatchInv
<1>3. \A c \in Claims : /\ c.monitor \in Watches[n].monitors \cup {Watch(n)!Nobody}
                        /\ c.fresh => c.monitor \in Watches[n].monitors
  BY DEF ClaimRows, Watch!NoClaim
<1>4. claim' = [claim EXCEPT ![a] = new] BY DEF Watch!PullLocalTasks
<1> HIDE DEF Claims, new
<1>5. /\ claim' \in [Watches[n].agents -> Claims]
      /\ \A b \in Watches[n].agents : claim'[b] = IF b = a THEN new ELSE claim[b]
  BY <1>1, <1>2, <1>4
<1>6. /\ monitor' \in [Watches[n].monitors -> Watch(n)!MonitorRows]
      /\ \A k \in Watches[n].monitors : k # m => monitor'[k] = monitor[k]
      /\ monitor[m].next = "due" /\ monitor'[m].next = "later"
  <2>1. monitor \in [Watches[n].monitors -> Watch(n)!MonitorRows] BY DEF WatchInv, Watch!TypeOK
  <2>2. /\ monitor[m].next = "due"
        /\ monitor' = [monitor EXCEPT ![m] = [monitor[m] EXCEPT !.next = "later"]]
    BY DEF Watch!PullLocalTasks
  <2>3. /\ [monitor[m] EXCEPT !.next = "later"] \in Watch(n)!MonitorRows
        /\ [monitor[m] EXCEPT !.next = "later"].next = "later"
    BY <2>1, NextRun
  <2> QED BY <2>1, <2>2, <2>3
<1>7. \A b \in Watches[n].agents : claim[b].fresh => claim[b].monitor # m
  BY <1>6 DEF WatchInv
<1>8. \A b \in Watches[n].agents : claim'[b].fresh => monitor'[claim'[b].monitor].next # "due"
  <2> SUFFICES ASSUME NEW b \in Watches[n].agents, claim'[b].fresh
               PROVE  monitor'[claim'[b].monitor].next # "due"
    OBVIOUS
  <2>1. CASE b = a BY <1>1, <1>5, <1>6, <2>1
  <2>2. CASE b # a
    <3>1. claim'[b] = claim[b] BY <1>5, <2>2
    <3>2. claim[b].fresh /\ claim[b].monitor \in Watches[n].monitors /\ claim[b].monitor # m
      BY <1>2, <1>3, <1>7, <3>1
    <3> QED BY <1>6, <3>1, <3>2 DEF WatchInv
  <2> QED BY <2>1, <2>2
<1>9. Watch(n)!OneClaim'
  <2> SUFFICES ASSUME NEW b \in Watches[n].agents, NEW c \in Watches[n].agents,
                      claim'[b].fresh, claim'[c].fresh, b # c
               PROVE  claim'[b].monitor # claim'[c].monitor
    BY DEF Watch!OneClaim
  <2>1. CASE b = a BY <1>1, <1>5, <1>7, <2>1
  <2>2. CASE c = a BY <1>1, <1>5, <1>7, <2>2
  <2>3. CASE b # a /\ c # a BY <1>5, <2>3 DEF WatchInv, Watch!OneClaim
  <2> QED BY <2>1, <2>2, <2>3
<1>10. Watch(n)!TypeOK'
  <2>1. \A b \in Watches[n].agents : claim'[b].monitor \in Watches[n].monitors \cup {Watch(n)!Nobody}
    BY <1>3, <1>5
  <2> QED BY <1>6, <2>1 DEF WatchInv, Watch!TypeOK, Watch!PullLocalTasks
<1> QED BY <1>5, <1>8, <1>9, <1>10 DEF WatchInv, Claims, Watch!PullLocalTasks

\* The scheduler's steps and the deliveries put no monitor off its claim.
LEMMA WatchPass ==
  ASSUME NEW n \in DOMAIN Watches, WatchInv(n),
         Watch(n)!Pass \/ Watch(n)!TickDies \/ Watch(n)!ScanRows \/ Watch(n)!BootstrapSchedule
  PROVE  WatchInv(n)'
<1> DEFINE M == Watches[n].monitors
           Later(S) == [m \in M |-> IF m \in S THEN [monitor[m] EXCEPT !.next = "later"]
                                               ELSE monitor[m]]
<1>1. /\ monitor \in [M -> Watch(n)!MonitorRows] /\ zset \in [M -> {"out", "later", "due"}]
      /\ post \in [M -> SUBSET Watch(n)!Messages] /\ tick.todo \cup tick.late \subseteq M
      /\ run \in [Watches[n].workers -> RunRows(n) \cup {Watch(n)!NoRun}]
  BY DEF WatchInv, Watch!TypeOK
<1>0. 0 \in 0..Watches[n].retries
  <2>1. Watches[n].retries \in Nat BY JobsAssumption DEF JobsAssumption
  <2> QED BY <2>1
<1>2. Watch(n)!NoTick.todo = {} /\ Watch(n)!NoTick.late = {} BY DEF Watch!NoTick
<1>3. ASSUME NEW S, monitor' = Later(S)
      PROVE  /\ monitor' \in [M -> Watch(n)!MonitorRows]
             /\ \A m \in M : monitor'[m].next = "due" => monitor[m].next = "due"
  <2>1. \A m \in M : /\ [monitor[m] EXCEPT !.next = "later"] \in Watch(n)!MonitorRows
                     /\ [monitor[m] EXCEPT !.next = "later"].next = "later"
    BY <1>1, NextRun
  <2> QED BY <1>1, <1>3, <2>1
<1>4. CASE Watch(n)!PopDue
  <2>1. tick'.todo \subseteq M /\ tick'.late = {} BY <1>4 DEF Watch!PopDue
  <2>2. zset' \in [M -> {"out", "later", "due"}] BY <1>1, <1>4 DEF Watch!PopDue
  <2> QED BY <1>1, <1>4, <2>1, <2>2, WatchMove DEF Watch!PopDue
<1>5. CASE Watch(n)!CommitTick
  <2>1. monitor' = Later(tick.late) BY <1>5 DEF Watch!CommitTick
  <2> QED BY <1>1, <1>2, <1>3, <1>5, <2>1, WatchMove DEF Watch!CommitTick
<1>6. ASSUME NEW m \in M, Watch(n)!TriggerDue(m) PROVE WatchInv(n)'
  <2>1. <<"reasoning", 0>> \in Watch(n)!Messages
    BY <1>0 DEF Watch!Messages
  <2>2. post' \in [M -> SUBSET Watch(n)!Messages]
    BY <1>6, <2>1, WatchSend DEF Watch!TriggerDue
  <2>3. tick'.todo \cup tick'.late \subseteq M BY <1>1, <1>6 DEF Watch!TriggerDue
  <2>4. zset' \in [M -> {"out", "later", "due"}] BY <1>1, <1>6 DEF Watch!TriggerDue
  <2> QED BY <1>1, <1>6, <2>2, <2>3, <2>4, WatchMove DEF Watch!TriggerDue
<1>7. CASE Watch(n)!TickDies BY <1>1, <1>2, <1>7, WatchMove DEF Watch!TickDies
<1>8. CASE Watch(n)!ScanRows
  <2> DEFINE ids == {m \in M : Watch(n)!ActiveCloud(m) /\ monitor[m].next \in {"none", "due"}}
  <2>1. monitor' = Later(ids) BY <1>8 DEF Watch!ScanRows
  <2>2. <<"reasoning", 0>> \in Watch(n)!Messages
    BY <1>0 DEF Watch!Messages
  <2>3. post' = [m \in M |-> IF m \in ids THEN post[m] \cup {<<"reasoning", 0>>} ELSE post[m]]
    BY <1>8 DEF Watch!ScanRows
  <2> HIDE DEF ids
  <2>4. post' \in [M -> SUBSET Watch(n)!Messages] BY <1>1, <2>2, <2>3
  <2> QED BY <1>1, <1>3, <1>8, <2>1, <2>4, WatchMove DEF Watch!ScanRows
<1>9. CASE Watch(n)!BootstrapSchedule
  <2> DEFINE unset == {m \in M : Watch(n)!ActiveCloud(m) /\ monitor[m].next = "none"}
  <2>1. monitor' = Later(unset) BY <1>9 DEF Watch!BootstrapSchedule
  <2>2. zset' \in [M -> {"out", "later", "due"}] BY <1>1, <1>9 DEF Watch!BootstrapSchedule
  <2> HIDE DEF unset
  <2> QED BY <1>1, <1>3, <1>9, <2>1, <2>2, WatchMove DEF Watch!BootstrapSchedule
<1> QED BY <1>4, <1>5, <1>6, <1>7, <1>8, <1>9 DEF Watch!Pass

\* A row with another status, and one more or no more errors.
LEMMA RowStatus ==
  ASSUME NEW n \in DOMAIN Watches, NEW r \in Watch(n)!MonitorRows,
         NEW x \in Watch(n)!Statuses
  PROVE  /\ [r EXCEPT !.status = x] \in Watch(n)!MonitorRows
         /\ [r EXCEPT !.status = x].next = r.next
BY DEF Watch!MonitorRows

\* A row with one more error may be suspended, and is never made due.
LEMMA ErrorCounted ==
  ASSUME NEW n \in DOMAIN Watches, NEW r \in Watch(n)!MonitorRows,
         NEW e \in 0..(Watches[n].errors + 1)
  PROVE  /\ Watch(n)!CountError(r, e) \in Watch(n)!MonitorRows
         /\ Watch(n)!CountError(r, e).next = r.next
         /\ Watch(n)!CountError(r, e).on = r.on
         /\ Watch(n)!CountError(r, e).status \in {r.status, "suspended"}
<1>1. Watches[n].errors \in Nat BY JobsAssumption DEF JobsAssumption
<1>2. Watch(n)!Bump(e) \in 0..(Watches[n].errors + 1) BY <1>1 DEF Watch!Bump
<1> DEFINE count == Watch(n)!Bump(e)
           status == IF count > Watches[n].errors THEN "suspended" ELSE r.status
<1>3. Watch(n)!CountError(r, e) = [r EXCEPT !.errors = count, !.status = status]
  BY DEF Watch!CountError
<1>4. status \in {r.status, "suspended"} OBVIOUS
<1> HIDE DEF count, status
<1> QED BY <1>2, <1>3, <1>4 DEF Watch!MonitorRows, Watch!Statuses, count

\* A row whose errors are forgotten.
LEMMA NoErrors ==
  ASSUME NEW n \in DOMAIN Watches, NEW r \in Watch(n)!MonitorRows
  PROVE  /\ [r EXCEPT !.errors = 0] \in Watch(n)!MonitorRows
         /\ [r EXCEPT !.errors = 0].next = r.next
         /\ [r EXCEPT !.errors = 0].status = r.status
         /\ [r EXCEPT !.errors = 0].on = r.on
<1>1. Watches[n].errors \in Nat BY JobsAssumption DEF JobsAssumption
<1> QED BY <1>1 DEF Watch!MonitorRows

\* A command or a delivery writes one row.
LEMMA WatchCommand ==
  ASSUME NEW n \in DOMAIN Watches, WatchInv(n), NEW m \in Watches[n].monitors,
         Watch(n)!Command(m) \/ Watch(n)!Deliver(m)
  PROVE  WatchInv(n)'
<1> DEFINE M == Watches[n].monitors
           Rows == Watch(n)!MonitorRows
<1>1. /\ monitor \in [M -> Rows] /\ zset \in [M -> {"out", "later", "due"}]
      /\ post \in [M -> SUBSET Watch(n)!Messages] /\ tick.todo \cup tick.late \subseteq M
      /\ run \in [Watches[n].workers -> RunRows(n) \cup {Watch(n)!NoRun}]
      /\ monitor[m] \in Rows
  BY DEF WatchInv, Watch!TypeOK
<1>2. Watches[n].errors \in Nat /\ Watches[n].retries \in Nat BY JobsAssumption DEF JobsAssumption
<1>3. /\ <<"upsert", 0>> \in Watch(n)!Messages /\ <<"remove", 0>> \in Watch(n)!Messages
      /\ <<"reasoning", 0>> \in Watch(n)!Messages
  <2>1. 0 \in 0..Watches[n].retries BY <1>2
  <2> QED BY <2>1 DEF Watch!Messages
<1>4. ASSUME NEW r \in Rows, Watch(n)!Reschedule(m, r) PROVE post' \in [M -> SUBSET Watch(n)!Messages]
  BY <1>3, <1>4, WatchSend DEF Watch!Reschedule
<1>5. ASSUME NEW r \in Rows, r.next = "due" => monitor[m].next = "due",
             monitor' = [monitor EXCEPT ![m] = r],
             post' \in [M -> SUBSET Watch(n)!Messages], zset' \in [M -> {"out", "later", "due"}],
             UNCHANGED <<tick, run, claim>>
      PROVE  WatchInv(n)'
  BY <1>1, <1>5, WatchRow, WatchMove
<1>6. ASSUME NEW target \in Watch(n)!Targets, Watch(n)!CreateTask(m, target) PROVE WatchInv(n)'
  <2> DEFINE r == [status |-> "active", on |-> TRUE, target |-> target, next |-> "later",
                   errors |-> 0]
  <2>1. r \in Rows /\ r.next = "later" BY <1>2 DEF Watch!MonitorRows, Watch!Statuses
  <2>2. /\ monitor' = [monitor EXCEPT ![m] = r] /\ Watch(n)!Reschedule(m, r)
        /\ UNCHANGED <<zset, tick, run, claim>>
    BY <1>6 DEF Watch!CreateTask
  <2> HIDE DEF r
  <2> QED BY <1>1, <1>4, <1>5, <2>1, <2>2
<1>7. ASSUME NEW status \in Watch(n)!Statuses, NEW target \in Watch(n)!Targets,
             Watch(n)!UpdateTask(m, status, target)
      PROVE  WatchInv(n)'
  <2> DEFINE r == [monitor[m] EXCEPT !.status = status, !.target = target]
  <2>1. r \in Rows /\ r.next = monitor[m].next
    BY <1>1 DEF Watch!MonitorRows, Watch!Statuses, Watch!Targets
  <2>2. /\ monitor' = [monitor EXCEPT ![m] = r] /\ Watch(n)!Reschedule(m, r)
        /\ UNCHANGED <<zset, tick, run, claim>>
    BY <1>7 DEF Watch!UpdateTask
  <2> HIDE DEF r
  <2> QED BY <1>1, <1>4, <1>5, <2>1, <2>2
<1>8. ASSUME NEW x \in Watch(n)!Statuses, NEW msg \in Watch(n)!Messages,
             monitor' = [monitor EXCEPT ![m].status = x], Watch(n)!Send(m, msg),
             UNCHANGED <<zset, tick, run, claim>>
      PROVE  WatchInv(n)'
  <2> DEFINE r == [monitor[m] EXCEPT !.status = x]
  <2>1. r \in Rows /\ r.next = monitor[m].next BY <1>1, RowStatus
  <2>2. monitor' = [monitor EXCEPT ![m] = r] BY <1>8
  <2>3. post' \in [M -> SUBSET Watch(n)!Messages] BY <1>8, WatchSend
  <2> HIDE DEF r
  <2> QED BY <1>1, <1>5, <1>8, <2>1, <2>2, <2>3
<1>9. CASE Watch(n)!PauseTask(m)
  BY <1>3, <1>8, <1>9 DEF Watch!PauseTask, Watch!Statuses
<1>10. CASE Watch(n)!ResumeTask(m)
  <2>1. <<IF monitor[m].target = "cloud" THEN "upsert" ELSE "remove", 0>> \in Watch(n)!Messages
    BY <1>3
  <2>2. "active" \in Watch(n)!Statuses BY DEF Watch!Statuses
  <2> QED BY <1>8, <1>10, <2>1, <2>2 DEF Watch!ResumeTask
<1>11. CASE Watch(n)!DeleteTask(m)
  <2> DEFINE r == [monitor[m] EXCEPT !.on = FALSE]
  <2>1. r \in Rows /\ r.next = monitor[m].next BY <1>1 DEF Watch!MonitorRows
  <2>2. monitor' = [monitor EXCEPT ![m] = r] BY <1>11 DEF Watch!DeleteTask
  <2>3. post' \in [M -> SUBSET Watch(n)!Messages] BY <1>3, <1>11, WatchSend DEF Watch!DeleteTask
  <2> HIDE DEF r
  <2> QED BY <1>1, <1>5, <1>11, <2>1, <2>2, <2>3 DEF Watch!DeleteTask
<1>12. CASE Watch(n)!TriggerCloud(m)
  <2>1. post' \in [M -> SUBSET Watch(n)!Messages] BY <1>1, <1>3, <1>12 DEF Watch!TriggerCloud
  <2> QED BY <1>1, <1>12, <2>1, WatchMove DEF Watch!TriggerCloud
<1>13. CASE Watch(n)!RequestLocalExecution(m)
  BY <1>13, WatchDue DEF Watch!RequestLocalExecution
<1>14. ASSUME NEW msg, Watch(n)!Took(m, msg) PROVE post' \in [M -> SUBSET Watch(n)!Messages]
  BY <1>1, <1>14 DEF Watch!Took
<1>15. ASSUME NEW x \in {"none", "later", "due"}, x # "due",
              monitor' = [monitor EXCEPT ![m] = [monitor[m] EXCEPT !.next = x]],
              post' \in [M -> SUBSET Watch(n)!Messages], zset' \in [M -> {"out", "later", "due"}],
              UNCHANGED <<tick, run, claim>>
       PROVE  WatchInv(n)'
  <2> DEFINE r == [monitor[m] EXCEPT !.next = x]
  <2>0. monitor[m] \in Rows BY <1>1
  <2>1. r \in Rows BY <2>0, NextRun
  <2>2. r.next = x BY <2>0, NextRun
  <2> HIDE DEF r
  <2> QED BY <1>5, <1>15, <2>1, <2>2 DEF r
<1>16. CASE Watch(n)!UpsertSchedule(m)
  <2> DEFINE x == IF Watch(n)!Active(m) THEN "later" ELSE "none"
  <2>1. x \in {"none", "later", "due"} /\ x # "due" OBVIOUS
  <2>2. monitor' = [monitor EXCEPT ![m] = [monitor[m] EXCEPT !.next = x]]
    BY <1>16 DEF Watch!UpsertSchedule
  <2>3. post' \in [M -> SUBSET Watch(n)!Messages] BY <1>14, <1>16 DEF Watch!UpsertSchedule
  <2>4. zset' \in [M -> {"out", "later", "due"}] BY <1>1, <1>16 DEF Watch!UpsertSchedule
  <2> HIDE DEF x
  <2> QED BY <1>15, <1>16, <2>1, <2>2, <2>3, <2>4 DEF Watch!UpsertSchedule
<1>17. CASE Watch(n)!RemoveSchedule(m)
  <2>1. monitor' = [monitor EXCEPT ![m] = [monitor[m] EXCEPT !.next = "none"]]
    BY <1>17 DEF Watch!RemoveSchedule
  <2>2. post' \in [M -> SUBSET Watch(n)!Messages] BY <1>14, <1>17 DEF Watch!RemoveSchedule
  <2>3. zset' \in [M -> {"out", "later", "due"}] BY <1>1, <1>17 DEF Watch!RemoveSchedule
  <2> QED BY <1>15, <1>17, <2>1, <2>2, <2>3 DEF Watch!RemoveSchedule
<1> QED BY <1>6, <1>7, <1>9, <1>10, <1>11, <1>12, <1>13, <1>16, <1>17
        DEF Watch!Command, Watch!Deliver

\* A run or a report writes the row of its monitor, and gives up its claim.
LEMMA WatchRun ==
  ASSUME NEW n \in DOMAIN Watches, WatchInv(n), NEW w \in Watches[n].workers,
         Watch(n)!Finish(w) \/ Watch(n)!RunDies(w)
           \/ \E m \in Watches[n].monitors, k \in 0..Watches[n].retries :
                Watch(n)!StartReasoning(w, m, k)
  PROVE  WatchInv(n)'
<1> DEFINE M == Watches[n].monitors
           Rows == Watch(n)!MonitorRows
           Runs == RunRows(n) \cup {Watch(n)!NoRun}
           m0 == run[w].monitor
<1>1. /\ monitor \in [M -> Rows] /\ zset \in [M -> {"out", "later", "due"}]
      /\ post \in [M -> SUBSET Watch(n)!Messages] /\ tick.todo \cup tick.late \subseteq M
      /\ run \in [Watches[n].workers -> Runs]
  BY DEF WatchInv, Watch!TypeOK
<1>2. Watches[n].errors \in Nat /\ Watches[n].retries \in Nat BY JobsAssumption DEF JobsAssumption
<1>3. ASSUME run[w] # Watch(n)!NoRun
      PROVE  /\ m0 \in M /\ monitor[m0] \in Rows /\ run[w].errors \in 0..(Watches[n].errors + 1)
             /\ run[w].tries \in 0..Watches[n].retries
  <2>1. run[w] \in RunRows(n) BY <1>1, <1>3
  <2> QED BY <1>1, <2>1 DEF RunRows
<1>4. ASSUME Watch(n)!Done(w) PROVE run' \in [Watches[n].workers -> Runs]
  BY <1>1, <1>4 DEF Watch!Done
<1>5. ASSUME run[w] # Watch(n)!NoRun, NEW r \in Rows, r.next = "due" => monitor[m0].next = "due",
             monitor' = [monitor EXCEPT ![m0] = r],
             post' \in [M -> SUBSET Watch(n)!Messages], Watch(n)!Done(w),
             UNCHANGED <<zset, tick, claim>>
      PROVE  WatchInv(n)'
  BY <1>1, <1>3, <1>4, <1>5, WatchRow, WatchMove
<1>6. CASE Watch(n)!Succeed(w)
  <2> DEFINE e == IF run[w].errors = 0 THEN monitor[m0].errors ELSE 0
             r == [monitor[m0] EXCEPT !.errors = e, !.next = "later"]
  <2>1. run[w] # Watch(n)!NoRun BY <1>6 DEF Watch!Succeed
  <2>2. e \in 0..(Watches[n].errors + 1) BY <1>2, <1>3, <2>1 DEF Watch!MonitorRows
  <2>3. monitor' = [monitor EXCEPT ![m0] = r]
    <3>1. monitor' = [monitor EXCEPT ![m0].errors = e, ![m0].next = "later"]
      BY <1>1, <1>3, <1>6, <2>1 DEF Watch!Succeed
    <3> HIDE DEF e
    <3> QED BY <1>1, <1>3, <2>1, <3>1
  <2> HIDE DEF e
  <2>4. r \in Rows /\ r.next = "later" BY <1>3, <2>1, <2>2 DEF Watch!MonitorRows
  <2> HIDE DEF r
  <2> QED BY <1>1, <1>5, <1>6, <2>1, <2>3, <2>4 DEF Watch!Succeed
<1>7. ASSUME NEW raised \in BOOLEAN, Watch(n)!Fail(w, raised) PROVE WatchInv(n)'
  <2> DEFINE r == Watch(n)!CountError(monitor[m0], run[w].errors)
             k == run[w].tries + 1
  <2>1. run[w] # Watch(n)!NoRun BY <1>7 DEF Watch!Fail
  <2>2. monitor' = [monitor EXCEPT ![m0] = r] /\ Watch(n)!Done(w) /\ UNCHANGED <<zset, tick, claim>>
    BY <1>7 DEF Watch!Fail
  <2>3. r \in Rows /\ r.next = monitor[m0].next BY <1>3, <2>1, ErrorCounted
  <2>4. post' \in [M -> SUBSET Watch(n)!Messages]
    <3>1. UNCHANGED post \/ (k <= Watches[n].retries
                             /\ post' = [post EXCEPT ![m0] = @ \cup {<<"reasoning", k>>}])
      BY <1>7 DEF Watch!Fail
    <3>2. ASSUME k <= Watches[n].retries PROVE <<"reasoning", k>> \in Watch(n)!Messages
      <4>1. k \in 0..Watches[n].retries BY <1>2, <1>3, <2>1, <3>2
      <4> QED BY <4>1 DEF Watch!Messages
    <3> QED BY <1>1, <3>1, <3>2
  <2> HIDE DEF r
  <2> QED BY <1>5, <2>1, <2>2, <2>3, <2>4
<1>8. CASE Watch(n)!RunDies(w) BY <1>1, <1>4, <1>8, WatchMove DEF Watch!RunDies
<1>9. ASSUME NEW m \in M, NEW k \in 0..Watches[n].retries, Watch(n)!StartReasoning(w, m, k)
      PROVE  WatchInv(n)'
  <2> DEFINE new == [monitor |-> m, errors |-> monitor[m].errors, tries |-> k]
  <2>1. new \in Runs BY <1>1 DEF RunRows, Watch!MonitorRows
  <2>2. UNCHANGED run \/ run' = [run EXCEPT ![w] = new] BY <1>9 DEF Watch!StartReasoning
  <2> HIDE DEF new
  <2>3. run' \in [Watches[n].workers -> Runs] BY <1>1, <2>1, <2>2
  <2>4. post' \in [M -> SUBSET Watch(n)!Messages]
    BY <1>1, <1>9 DEF Watch!StartReasoning, Watch!Took
  <2> QED BY <1>1, <1>9, <2>3, <2>4, WatchMove DEF Watch!StartReasoning
<1> QED BY <1>6, <1>7, <1>8, <1>9 DEF Watch!Finish

\* An agent reports what it ran, or leaves it unfinished.
LEMMA WatchReport ==
  ASSUME NEW n \in DOMAIN Watches, WatchInv(n), NEW a \in Watches[n].agents,
         Watch(n)!Abandon(a) \/ \E outcome \in {"success", "failure", "skipped"} :
                                  Watch(n)!ReportLocalExecution(a, outcome)
  PROVE  WatchInv(n)'
<1> DEFINE M == Watches[n].monitors
           Rows == Watch(n)!MonitorRows
           m0 == claim[a].monitor
<1>1. /\ monitor \in [M -> Rows] /\ zset \in [M -> {"out", "later", "due"}]
      /\ post \in [M -> SUBSET Watch(n)!Messages] /\ tick.todo \cup tick.late \subseteq M
      /\ run \in [Watches[n].workers -> RunRows(n) \cup {Watch(n)!NoRun}]
  BY DEF WatchInv, Watch!TypeOK
<1>2. CASE Watch(n)!Abandon(a) BY <1>1, <1>2, WatchMove DEF Watch!Abandon
<1>3. ASSUME NEW outcome \in {"success", "failure", "skipped"},
             Watch(n)!ReportLocalExecution(a, outcome)
      PROVE  WatchInv(n)'
  <2> DEFINE next == [monitor[m0] EXCEPT !.next = "later"]
             r == CASE outcome = "success" -> [next EXCEPT !.errors = 0]
                    [] outcome = "failure" -> Watch(n)!CountError(next, next.errors)
                    [] outcome = "skipped" -> next
  <2>1. m0 \in M /\ monitor[m0] \in Rows
    BY <1>1, <1>3 DEF WatchInv, ClaimRows, Watch!ReportLocalExecution
  <2>2. /\ monitor' = [monitor EXCEPT ![m0] = r] /\ claim' = [claim EXCEPT ![a] = Watch(n)!NoClaim]
        /\ Watch(n)!Send(m0, <<"remove", 0>>) /\ UNCHANGED <<zset, tick, run>>
    BY <1>3 DEF Watch!ReportLocalExecution
  <2>3. next \in Rows /\ next.next = "later" BY <2>1, NextRun
  <2> HIDE DEF next
  <2>4. next.errors \in 0..(Watches[n].errors + 1) BY <2>3 DEF Watch!MonitorRows
  <2>5. r \in Rows /\ r.next = "later"
    <3>1. CASE outcome = "success" BY <2>3, <3>1, NoErrors
    <3>2. CASE outcome = "failure" BY <2>3, <2>4, <3>2, ErrorCounted
    <3>3. CASE outcome = "skipped" BY <2>3, <3>3
    <3> QED BY <3>1, <3>2, <3>3
  <2> HIDE DEF r
  <2>6. post' \in [M -> SUBSET Watch(n)!Messages]
    <3>1. <<"remove", 0>> \in Watch(n)!Messages BY DEF Watch!Messages
    <3> QED BY <2>1, <2>2, <3>1, WatchSend
  <2>7. /\ monitor' \in [M -> Rows]
        /\ \A k \in M : monitor'[k].next = "due" => monitor[k].next = "due"
    BY <2>1, <2>2, <2>5, WatchRow
  <2> QED BY <1>1, <2>2, <2>6, <2>7, WatchMove
<1> QED BY <1>2, <1>3

\* Every step of the monitors keeps the invariant.
LEMMA WatchStep ==
  ASSUME NEW n \in DOMAIN Watches, WatchInv(n), Watch(n)!Next PROVE WatchInv(n)'
<1> DEFINE M == Watches[n].monitors
<1>1. ASSUME NEW m \in M, Watch(n)!RowDue(m) PROVE WatchInv(n)'
  BY <1>1, WatchDue DEF Watch!RowDue
<1>2. ASSUME NEW m \in M, Watch(n)!EntryDue(m) PROVE WatchInv(n)'
  <2>1. zset' \in [M -> {"out", "later", "due"}] BY <1>2 DEF WatchInv, Watch!TypeOK, Watch!EntryDue
  <2> QED BY <1>2, <2>1, WatchMove DEF WatchInv, Watch!TypeOK, Watch!EntryDue
<1>3. ASSUME NEW m \in M, Watch(n)!Start(m) PROVE WatchInv(n)'
  BY <1>3, WatchRun DEF Watch!Start
<1> QED BY <1>1, <1>2, <1>3, WatchPass, WatchCommand, WatchRun, WatchReport, WatchPull
        DEF Watch!Next

\* A step of the scheduler, a run or a report changes no row's flag, and its status only
\* to suspended.
Kept(n, m) == /\ monitor'[m].on = monitor[m].on
              /\ monitor'[m].status \in {monitor[m].status, "suspended"}

\* A step that keeps the rows brings nothing back.
LEMMA KeptStopped ==
  ASSUME NEW n \in DOMAIN Watches,
         \A m \in Watches[n].monitors : Watch(n)!Exists(m) /\ commands' = commands => Kept(n, m)
  PROVE  Watch(n)!StoppedStep
BY DEF Kept, Watch!StoppedStep, Watch!Active

\* One row is written, and keeps its flag and its status.
LEMMA KeptRow ==
  ASSUME NEW n \in DOMAIN Watches, WatchInv(n), NEW m, NEW r,
         monitor' = [monitor EXCEPT ![m] = r],
         m \in Watches[n].monitors =>
           r.on = monitor[m].on /\ r.status \in {monitor[m].status, "suspended"}
  PROVE  \A k \in Watches[n].monitors : Kept(n, k)
BY DEF WatchInv, Watch!TypeOK, Kept

\* Commands are counted.
LEMMA WatchCommands ==
  ASSUME NEW n \in DOMAIN Watches, commands \in Nat, Watch(n)!Next PROVE commands' \in Nat
<1>1. ASSUME NEW m \in Watches[n].monitors, Watch(n)!Command(m) PROVE commands' \in Nat
  <2>1. Watch(n)!Commanded => commands' \in Nat BY DEF Watch!Commanded
  <2>2. ASSUME NEW target \in Watch(n)!Targets, Watch(n)!CreateTask(m, target)
        PROVE  commands' \in Nat
    BY <2>2 DEF Watch!CreateTask
  <2> QED BY <1>1, <2>1, <2>2
          DEF Watch!Command, Watch!UpdateTask, Watch!PauseTask, Watch!ResumeTask,
              Watch!DeleteTask, Watch!TriggerCloud, Watch!RequestLocalExecution
<1>2. CASE UNCHANGED commands BY <1>2
<1> QED BY <1>1, <1>2
        DEF Watch!Next, Watch!Pass, Watch!PopDue, Watch!CommitTick, Watch!TriggerDue,
            Watch!TickDies, Watch!ScanRows, Watch!BootstrapSchedule, Watch!Deliver,
            Watch!UpsertSchedule, Watch!RemoveSchedule, Watch!RowDue, Watch!EntryDue,
            Watch!Start, Watch!StartReasoning, Watch!Finish, Watch!Succeed, Watch!Fail,
            Watch!RunDies, Watch!Abandon, Watch!PullLocalTasks, Watch!ReportLocalExecution

\* Only a command brings back what was stopped.
LEMMA WatchStopped ==
  ASSUME NEW n \in DOMAIN Watches, WatchInv(n), commands \in Nat, Watch(n)!Next
  PROVE  Watch(n)!StoppedStep
<1> DEFINE M == Watches[n].monitors
           Rows == Watch(n)!MonitorRows
<1> USE DEF WatchInv
<1>1. /\ monitor \in [M -> Rows] /\ \A m \in M : monitor[m] \in Rows
  BY DEF Watch!TypeOK
<1>2. ASSUME NEW m \in M, NEW x \in {"none", "later", "due"},
             monitor' = [monitor EXCEPT ![m] = [monitor[m] EXCEPT !.next = x]]
      PROVE  \A k \in M : Kept(n, k)
  <2> DEFINE r == [monitor[m] EXCEPT !.next = x]
  <2>1. r.on = monitor[m].on /\ r.status = monitor[m].status BY <1>1, NextRun
  <2>2. monitor' = [monitor EXCEPT ![m] = r] BY <1>2
  <2> HIDE DEF r
  <2> QED BY <2>1, <2>2, KeptRow
<1>3. ASSUME UNCHANGED monitor PROVE \A k \in M : Kept(n, k) BY <1>3 DEF Kept
<1>4. ASSUME NEW m \in M, Watch(n)!Command(m)
      PROVE  \A k \in M : Watch(n)!Exists(k) /\ commands' = commands => Kept(n, k)
  <2>1. ASSUME NEW target \in Watch(n)!Targets, Watch(n)!CreateTask(m, target)
        PROVE  \A k \in M : Watch(n)!Exists(k) => Kept(n, k)
    <3> SUFFICES ASSUME NEW k \in M, Watch(n)!Exists(k) PROVE Kept(n, k) OBVIOUS
    <3>1. k # m BY <2>1 DEF Watch!CreateTask
    <3>2. monitor'[k] = monitor[k] BY <1>1, <2>1, <3>1 DEF Watch!CreateTask
    <3> QED BY <3>2 DEF Kept
  <2>2. Watch(n)!Commanded => commands' # commands BY DEF Watch!Commanded
  <2> QED BY <1>4, <2>1, <2>2
          DEF Watch!Command, Watch!PauseTask, Watch!ResumeTask, Watch!DeleteTask,
              Watch!TriggerCloud, Watch!RequestLocalExecution, Watch!UpdateTask
<1>5. ASSUME NEW m \in M, Watch(n)!Deliver(m) PROVE \A k \in M : Kept(n, k)
  <2>1. CASE Watch(n)!UpsertSchedule(m)
    <3> DEFINE x == IF Watch(n)!Active(m) THEN "later" ELSE "none"
    <3>1. x \in {"none", "later", "due"} OBVIOUS
    <3>2. monitor' = [monitor EXCEPT ![m] = [monitor[m] EXCEPT !.next = x]]
      BY <2>1 DEF Watch!UpsertSchedule
    <3> HIDE DEF x
    <3> QED BY <1>2, <3>1, <3>2
  <2>2. CASE Watch(n)!RemoveSchedule(m)
    <3>1. monitor' = [monitor EXCEPT ![m] = [monitor[m] EXCEPT !.next = "none"]]
      BY <2>2 DEF Watch!RemoveSchedule
    <3> QED BY <1>2, <3>1
  <2> QED BY <1>5, <2>1, <2>2 DEF Watch!Deliver
<1>6. ASSUME NEW m \in M, Watch(n)!RowDue(m) PROVE \A k \in M : Kept(n, k)
  <2>1. monitor' = [monitor EXCEPT ![m] = [monitor[m] EXCEPT !.next = "due"]]
    BY <1>6 DEF Watch!RowDue
  <2> QED BY <1>2, <2>1
<1>7. ASSUME NEW a \in Watches[n].agents, NEW m \in M, Watch(n)!PullLocalTasks(a, m)
      PROVE  \A k \in M : Kept(n, k)
  <2>1. monitor' = [monitor EXCEPT ![m] = [monitor[m] EXCEPT !.next = "later"]]
    BY <1>7 DEF Watch!PullLocalTasks
  <2> QED BY <1>2, <2>1
<1>8. ASSUME NEW S, monitor' = [m \in M |-> IF m \in S THEN [monitor[m] EXCEPT !.next = "later"]
                                                       ELSE monitor[m]]
      PROVE  \A k \in M : Kept(n, k)
  <2>1. \A m \in M : /\ [monitor[m] EXCEPT !.next = "later"].on = monitor[m].on
                     /\ [monitor[m] EXCEPT !.next = "later"].status = monitor[m].status
    BY <1>1, NextRun
  <2> QED BY <1>8, <2>1 DEF Kept
<1>9. ASSUME Watch(n)!Pass \/ Watch(n)!TickDies \/ Watch(n)!ScanRows \/ Watch(n)!BootstrapSchedule
      PROVE  \A k \in M : Kept(n, k)
  <2>1. CASE Watch(n)!CommitTick
    <3> DEFINE S == tick.late
    <3>1. monitor' = [m \in M |-> IF m \in S THEN [monitor[m] EXCEPT !.next = "later"]
                                             ELSE monitor[m]]
      BY <2>1 DEF Watch!CommitTick
    <3> QED BY <1>8, <3>1
  <2>2. CASE Watch(n)!ScanRows
    <3> DEFINE S == {m \in M : Watch(n)!ActiveCloud(m) /\ monitor[m].next \in {"none", "due"}}
    <3>1. monitor' = [m \in M |-> IF m \in S THEN [monitor[m] EXCEPT !.next = "later"]
                                             ELSE monitor[m]]
      BY <2>2 DEF Watch!ScanRows
    <3> HIDE DEF S
    <3> QED BY <1>8, <3>1
  <2>3. CASE Watch(n)!BootstrapSchedule
    <3> DEFINE S == {m \in M : Watch(n)!ActiveCloud(m) /\ monitor[m].next = "none"}
    <3>1. monitor' = [m \in M |-> IF m \in S THEN [monitor[m] EXCEPT !.next = "later"]
                                             ELSE monitor[m]]
      BY <2>3 DEF Watch!BootstrapSchedule
    <3> HIDE DEF S
    <3> QED BY <1>8, <3>1
  <2>4. CASE Watch(n)!PopDue \/ Watch(n)!TickDies \/ \E m \in M : Watch(n)!TriggerDue(m)
    BY <1>3, <2>4 DEF Watch!PopDue, Watch!TickDies, Watch!TriggerDue
  <2> QED BY <1>9, <2>1, <2>2, <2>3, <2>4 DEF Watch!Pass
<1>10. ASSUME NEW w \in Watches[n].workers, Watch(n)!Finish(w) PROVE \A k \in M : Kept(n, k)
  <2> DEFINE m0 == run[w].monitor
  <2>0. run[w] # Watch(n)!NoRun BY <1>10 DEF Watch!Finish, Watch!Succeed, Watch!Fail
  <2>1. m0 \in M /\ monitor[m0] \in Rows /\ run[w].errors \in 0..(Watches[n].errors + 1)
    <3>1. run[w] \in RunRows(n) BY <2>0
    <3> QED BY <1>1, <3>1 DEF RunRows
  <2>2. CASE Watch(n)!Succeed(w)
    <3> DEFINE e == IF run[w].errors = 0 THEN monitor[m0].errors ELSE 0
               r == [monitor[m0] EXCEPT !.errors = e, !.next = "later"]
    <3>1. monitor' = [monitor EXCEPT ![m0].errors = e, ![m0].next = "later"]
      BY <1>1, <2>1, <2>2 DEF Watch!Succeed
    <3> HIDE DEF e
    <3>2. monitor' = [monitor EXCEPT ![m0] = r] BY <1>1, <2>1, <3>1
    <3>3. r.on = monitor[m0].on /\ r.status = monitor[m0].status BY <2>1 DEF Watch!MonitorRows
    <3> HIDE DEF r
    <3> QED BY <3>2, <3>3, KeptRow
  <2>3. ASSUME NEW raised \in BOOLEAN, Watch(n)!Fail(w, raised) PROVE \A k \in M : Kept(n, k)
    <3> DEFINE r == Watch(n)!CountError(monitor[m0], run[w].errors)
    <3>1. monitor' = [monitor EXCEPT ![m0] = r] BY <2>3 DEF Watch!Fail
    <3>2. r.on = monitor[m0].on /\ r.status \in {monitor[m0].status, "suspended"}
      BY <2>1, ErrorCounted
    <3> HIDE DEF r
    <3> QED BY <3>1, <3>2, KeptRow
  <2> QED BY <1>10, <2>2, <2>3 DEF Watch!Finish
<1>11. ASSUME NEW a \in Watches[n].agents, NEW outcome \in {"success", "failure", "skipped"},
              Watch(n)!ReportLocalExecution(a, outcome)
       PROVE  \A k \in M : Kept(n, k)
  <2> DEFINE m0 == claim[a].monitor
             next == [monitor[m0] EXCEPT !.next = "later"]
             r == CASE outcome = "success" -> [next EXCEPT !.errors = 0]
                    [] outcome = "failure" -> Watch(n)!CountError(next, next.errors)
                    [] outcome = "skipped" -> next
  <2>1. m0 \in M /\ monitor[m0] \in Rows BY <1>1, <1>11 DEF ClaimRows, Watch!ReportLocalExecution
  <2>2. monitor' = [monitor EXCEPT ![m0] = r] BY <1>11 DEF Watch!ReportLocalExecution
  <2>3. next \in Rows /\ next.on = monitor[m0].on /\ next.status = monitor[m0].status
    BY <2>1, NextRun
  <2> HIDE DEF next
  <2>4. next.errors \in 0..(Watches[n].errors + 1) BY <2>3 DEF Watch!MonitorRows
  <2>5. r.on = next.on /\ r.status \in {next.status, "suspended"}
    <3>1. CASE outcome = "success" BY <2>3, <3>1, NoErrors
    <3>2. CASE outcome = "failure" BY <2>3, <2>4, <3>2, ErrorCounted
    <3>3. CASE outcome = "skipped" BY <2>3, <3>3
    <3> QED BY <3>1, <3>2, <3>3
  <2> HIDE DEF r
  <2> QED BY <2>2, <2>3, <2>5, KeptRow
<1>12. ASSUME NEW m \in M, Watch(n)!EntryDue(m) \/ Watch(n)!Start(m) PROVE \A k \in M : Kept(n, k)
  BY <1>3, <1>12 DEF Watch!EntryDue, Watch!Start, Watch!StartReasoning
<1>13. ASSUME NEW w \in Watches[n].workers, Watch(n)!RunDies(w) PROVE \A k \in M : Kept(n, k)
  BY <1>3, <1>13 DEF Watch!RunDies
<1>14. ASSUME NEW a \in Watches[n].agents, Watch(n)!Abandon(a) PROVE \A k \in M : Kept(n, k)
  BY <1>3, <1>14 DEF Watch!Abandon
<1> QED BY <1>4, <1>5, <1>6, <1>7, <1>9, <1>10, <1>11, <1>12, <1>13, <1>14, KeptStopped
        DEF Watch!Next

-----------------------------------------------------------------------------
(* Notifications: receipts of what was shown, and channels left to try. *)

\* The records of workers that deliver, of websockets and of the alert.
PosterRows == [note : Notes \cup {Notified!NoNote}, left : SUBSET Readers,
               batch : SUBSET Readers, stamp : Nat]
Sockets(c) == [on : BOOLEAN, cursor : {c}, shown : SUBSET Notes, marks : SUBSET Notes,
               acked : SUBSET Notes]
Alerts == [at : {"idle", "sending", "done", "dead"}, left : SUBSET Notified!Channels,
           offered : SUBSET Notified!Channels, sent : SUBSET Notified!Channels,
           refused : SUBSET Notified!Channels, all : BOOLEAN, tries : 0..AlertRetries]

\* Rows keep their types; who has readers left delivers a notification.
InboxInv ==
  /\ notice \in [Notes -> Notified!NoticeRows] /\ outbox \subseteq Notes /\ wall \in Nat
  /\ receipt \in [Notes -> [Readers -> Notified!ReceiptRows]]
  /\ poster \in [Posters -> PosterRows]
  /\ \A p \in Posters : poster[p].left \cup poster[p].batch # {} => poster[p].note \in Notes
  /\ socket = [u \in Readers |-> socket[u]]
  /\ \A u \in Readers : \E c : socket[u] \in Sockets(c)
  /\ restRead \in [Readers -> SUBSET Notes]
  /\ Notified!ReportedIsRead

\* Until one takes it, or when all are to have it, each channel it was offered to is left
\* or has answered.
AlertInv ==
  /\ channel \in [Notified!Channels -> Notified!ChannelRows]
  /\ alert \in Alerts
  /\ alert.sent \cup alert.refused \cup alert.left \subseteq alert.offered
  /\ (alert.at \in {"sending", "done"} /\ (alert.all = TRUE \/ alert.sent = {})) =>
       alert.sent \cup alert.refused \cup alert.left = alert.offered
  /\ alert.at = "done" => alert.left = {}

\* Nothing is published to begin with, and no alert is raised.
LEMMA NotifiedInit == ASSUME Notified!Init PROVE InboxInv /\ AlertInv
<1>1. AlertRetries \in Nat BY JobsAssumption DEF JobsAssumption
<1>2. /\ Notified!Resting \in PosterRows
      /\ Notified!Resting.left = {} /\ Notified!Resting.batch = {}
      /\ Notified!NoReceipt \in Notified!ReceiptRows
      /\ Notified!Closed \in Sockets(0)
  BY DEF Notified!Resting, PosterRows, Notified!NoReceipt, Notified!ReceiptRows, Notified!Closed,
     Sockets
<1>3. InboxInv
  BY <1>2 DEF InboxInv, Notified!Init, Notified!NoticeRows, Notified!ReportedIsRead
<1>4. AlertInv
  <2>1. /\ Notified!NoAlert \in Alerts /\ Notified!NoAlert.at = "idle"
        /\ Notified!NoAlert.sent \cup Notified!NoAlert.refused \cup Notified!NoAlert.left
             \subseteq Notified!NoAlert.offered
    BY <1>1 DEF Notified!NoAlert, Alerts
  <2>2. channel \in [Notified!Channels -> Notified!ChannelRows]
    BY DEF Notified!Init, Notified!ChannelRows
  <2> QED BY <2>1, <2>2 DEF AlertInv, Notified!Init
<1> QED BY <1>3, <1>4

\* Receipts of other rows are kept, and what is read stays read.
LEMMA PostersMove ==
  ASSUME InboxInv, NEW p \in Posters, Notified!Deliver(p) \/ Notified!DeliveryFails(p)
  PROVE  InboxInv'
<1>1. /\ Notified!Resting \in PosterRows
      /\ Notified!Resting.left = {} /\ Notified!Resting.batch = {}
      /\ poster[p] \in PosterRows
  BY DEF Notified!Resting, PosterRows, InboxInv
<1>2. ASSUME NEW k \in PosterRows, poster' = [poster EXCEPT ![p] = k],
             k.left \cup k.batch # {} => k.note \in Notes,
             outbox' \subseteq Notes, wall' \in Nat,
             receipt' \in [Notes -> [Readers -> Notified!ReceiptRows]],
             \A i \in Notes : \A u \in Readers : receipt[i][u].read => receipt'[i][u].read,
             UNCHANGED <<notice, socket, restRead>>
      PROVE  InboxInv'
  <2>1. Notified!ReportedIsRead'
    <3> SUFFICES ASSUME NEW u \in Readers, NEW i \in Notes, i \in restRead'[u]
                 PROVE  receipt'[i][u].read
      BY DEF Notified!ReportedIsRead
    <3>1. receipt[i][u].read BY <1>2 DEF InboxInv, Notified!ReportedIsRead
    <3> QED BY <1>2, <3>1
  <2> QED BY <1>2, <2>1 DEF InboxInv
<1>3. ASSUME NEW i \in Notes, Notified!StartDelivery(p, i) PROVE InboxInv'
  <2>1. PICK k : k = [Notified!Resting EXCEPT !.note = i, !.left = notice[i]] OBVIOUS
  <2>2. notice[i] \subseteq Readers BY DEF InboxInv, Notified!NoticeRows
  <2>3. k \in PosterRows /\ k.note = i
    BY <1>1, <2>1, <2>2 DEF PosterRows
  <2>4. /\ poster' = [poster EXCEPT ![p] = k] /\ outbox' = outbox \ {i}
        /\ UNCHANGED <<notice, receipt, wall, socket, restRead>>
    BY <1>3, <2>1 DEF Notified!StartDelivery
  <2> QED BY <1>2, <2>3, <2>4 DEF InboxInv
<1>4. ASSUME NEW u \in Readers, Notified!InsertBatch(p, u) PROVE InboxInv'
  <2>1. PICK k : k = [poster[p] EXCEPT !.batch = {u}, !.stamp = wall + 1] OBVIOUS
  <2>2. wall + 1 \in Nat /\ u \in poster[p].left /\ poster[p].note \in Notes
    BY <1>4 DEF InboxInv, Notified!InsertBatch
  <2>3. k \in PosterRows /\ k.note = poster[p].note
    BY <1>1, <2>1, <2>2 DEF PosterRows
  <2>4. /\ poster' = [poster EXCEPT ![p] = k] /\ wall' = wall + 1
        /\ UNCHANGED <<notice, outbox, receipt, socket, restRead>>
    <3>1. poster' = [poster EXCEPT ![p].batch = {u}, ![p].stamp = wall + 1]
      BY <1>4 DEF Notified!InsertBatch
    <3>2. poster' = [poster EXCEPT ![p] = k] BY <2>1, <3>1 DEF InboxInv
    <3> QED BY <1>4, <3>2 DEF Notified!InsertBatch
  <2> QED BY <1>2, <2>2, <2>3, <2>4 DEF InboxInv
<1>5. CASE Notified!CommitBatch(p)
  <2>1. PICK i : i = poster[p].note OBVIOUS
  <2>2. PICK rest, stamp, none : /\ rest = poster[p].left \ poster[p].batch
                                 /\ stamp = poster[p].stamp /\ none = Notified!NoReceipt
    OBVIOUS
  <2>3. i \in Notes /\ rest \subseteq Readers /\ stamp \in Nat
    BY <1>1, <1>5, <2>1, <2>2 DEF InboxInv, PosterRows, Notified!CommitBatch
  <2>4. PICK k : k = IF rest = {} THEN Notified!Resting
                     ELSE [poster[p] EXCEPT !.left = rest, !.batch = {}, !.stamp = 0]
    OBVIOUS
  <2>5. k \in PosterRows /\ (k.left \cup k.batch # {} => k.note \in Notes)
    <3>1. CASE rest = {} BY <1>1, <2>4, <3>1
    <3>2. CASE rest # {} BY <1>1, <2>1, <2>3, <2>4, <3>2 DEF PosterRows
    <3> QED BY <3>1, <3>2
  <2>6. PICK new : new = [none EXCEPT !.at = stamp] OBVIOUS
  <2>7. new \in Notified!ReceiptRows /\ ~none.read
    BY <2>2, <2>3, <2>6 DEF Notified!NoReceipt, Notified!ReceiptRows
  <2>8. /\ poster' = [poster EXCEPT ![p] = k] /\ UNCHANGED <<notice, outbox, wall, socket, restRead>>
        /\ receipt' = [receipt EXCEPT ![i] = [u \in Readers |->
             IF u \in poster[p].batch /\ @[u] = none THEN new ELSE @[u]]]
    BY <1>5, <2>1, <2>2, <2>4, <2>6 DEF Notified!CommitBatch
  <2>9. PICK given : given = [u \in Readers |->
             IF u \in poster[p].batch /\ receipt[i][u] = none THEN new ELSE receipt[i][u]]
    OBVIOUS
  <2>10. /\ given \in [Readers -> Notified!ReceiptRows]
         /\ \A u \in Readers : receipt[i][u].read => given[u].read
    <3>1. receipt[i] \in [Readers -> Notified!ReceiptRows] BY <2>3 DEF InboxInv
    <3> QED BY <2>7, <2>9, <3>1
  <2>11. receipt' = [receipt EXCEPT ![i] = given] BY <2>8, <2>9
  <2>12. /\ receipt' \in [Notes -> [Readers -> Notified!ReceiptRows]]
         /\ \A j \in Notes : \A u \in Readers : receipt[j][u].read => receipt'[j][u].read
    BY <2>3, <2>10, <2>11 DEF InboxInv
  <2> QED BY <1>2, <2>5, <2>8, <2>12 DEF InboxInv
<1>6. CASE Notified!DeliveryFails(p)
  <2>1. PICK k : k = Notified!Resting OBVIOUS
  <2>2. /\ poster' = [poster EXCEPT ![p] = k]
        /\ UNCHANGED <<notice, outbox, receipt, wall, socket, restRead>>
    BY <1>6, <2>1 DEF Notified!DeliveryFails
  <2> QED BY <1>1, <1>2, <2>1, <2>2 DEF InboxInv
<1> QED BY <1>3, <1>4, <1>5, <1>6 DEF Notified!Deliver

\* A websocket shows and marks; the receipts stay.
LEMMA SocketsMove ==
  ASSUME InboxInv, NEW u \in Readers,
         \/ Notified!Connect(u) \/ Notified!Poll(u) \/ Notified!Disconnect(u)
         \/ \E i \in Notes : Notified!SocketMark(u, i)
  PROVE  InboxInv'
<1>1. PICK c0 : socket[u] \in Sockets(c0) BY DEF InboxInv
<1>2. Notified!Inbox(u) \subseteq Notes BY DEF Notified!Inbox
<1>3. UNCHANGED <<notice, outbox, poster, receipt, wall, restRead>>
  BY DEF Notified!Connect, Notified!Poll, Notified!Disconnect, Notified!SocketMark
<1>4. ASSUME NEW c, NEW k \in Sockets(c), socket' = [socket EXCEPT ![u] = k] PROVE InboxInv'
  <2>1. /\ socket' = [v \in Readers |-> socket'[v]]
        /\ \A v \in Readers : \E d : socket'[v] \in Sockets(d)
    BY <1>4 DEF InboxInv
  <2> QED BY <1>3, <2>1 DEF InboxInv, Notified!ReportedIsRead
<1>5. CASE Notified!Connect(u)
  <2>1. PICK c, shown, k :
          /\ c = Notified!Latest(u, Notified!Inbox(u)) /\ shown = Notified!Inbox(u)
          /\ k = [Notified!Closed EXCEPT !.on = TRUE, !.shown = shown, !.cursor = c]
    OBVIOUS
  <2>2. k \in Sockets(c) BY <1>2, <2>1 DEF Notified!Closed, Sockets
  <2>3. socket' = [socket EXCEPT ![u] = k] BY <1>5, <2>1 DEF Notified!Connect
  <2> QED BY <1>4, <2>2, <2>3
<1>6. CASE Notified!Poll(u)
  <2>1. PICK new : new = {i \in Notified!Inbox(u) : /\ socket[u].cursor # 0
                                                    /\ receipt[i][u].at > socket[u].cursor}
    OBVIOUS
  <2>2. PICK c, shown : c = Notified!Latest(u, new) /\ shown = socket[u].shown \cup new OBVIOUS
  <2>3. PICK k : k = [socket[u] EXCEPT !.shown = shown, !.cursor = c] OBVIOUS
  <2>4. shown \subseteq Notes BY <1>1, <1>2, <2>1, <2>2 DEF Sockets
  <2>5. k \in Sockets(c) BY <1>1, <2>3, <2>4 DEF Sockets
  <2>6. socket' = [socket EXCEPT ![u] = k]
    <3>1. socket' = [socket EXCEPT ![u].shown = shown, ![u].cursor = c]
      BY <1>6, <2>1, <2>2 DEF Notified!Poll, InboxInv
    <3> QED BY <2>3, <3>1 DEF InboxInv
  <2> QED BY <1>4, <2>5, <2>6
<1>7. ASSUME NEW i \in Notes, Notified!SocketMark(u, i) PROVE InboxInv'
  <2>1. PICK marks, ack : marks = socket[u].marks \cup {i} /\ ack = socket[u].acked \cup {i}
    OBVIOUS
  <2>2. PICK k : k = [socket[u] EXCEPT !.marks = marks, !.acked = ack] OBVIOUS
  <2>3. marks \subseteq Notes /\ ack \subseteq Notes BY <1>1, <2>1 DEF Sockets
  <2>4. k \in Sockets(c0) BY <1>1, <2>2, <2>3 DEF Sockets
  <2>5. socket' = [socket EXCEPT ![u] = k]
    <3>1. socket' = [socket EXCEPT ![u].marks = marks, ![u].acked = ack]
      BY <1>7, <2>1 DEF Notified!SocketMark, InboxInv
    <3> QED BY <2>2, <3>1 DEF InboxInv
  <2> QED BY <1>4, <2>4, <2>5
<1>8. CASE Notified!Disconnect(u)
  <2>1. PICK ack, k : /\ ack = socket[u].acked
                        /\ k = [Notified!Closed EXCEPT !.acked = ack]
    OBVIOUS
  <2>2. ack \subseteq Notes BY <1>1, <2>1 DEF Sockets
  <2>3. k \in Sockets(0) BY <2>1, <2>2 DEF Notified!Closed, Sockets
  <2>4. socket' = [socket EXCEPT ![u] = k] BY <1>8, <2>1 DEF Notified!Disconnect
  <2> QED BY <1>4, <2>3, <2>4
<1> QED BY <1>5, <1>6, <1>7, <1>8

\* A REST call writes the receipts of its reader, and reports what it wrote.
LEMMA ReceiptsMove ==
  ASSUME InboxInv, NEW u \in Readers,
         Notified!Clear(u) \/ \E ns \in SUBSET Notes : Notified!RestMark(u, ns)
  PROVE  InboxInv'
<1>1. /\ receipt \in [Notes -> [Readers -> Notified!ReceiptRows]]
      /\ \A i \in Notes : /\ receipt[i] \in [Readers -> Notified!ReceiptRows]
                          /\ receipt[i][u] \in Notified!ReceiptRows
      /\ restRead \in [Readers -> SUBSET Notes]
      /\ \A v \in Readers : \A i \in Notes : i \in restRead[v] => receipt[i][v].read
  BY DEF InboxInv, Notified!ReportedIsRead
<1>2. CASE Notified!Clear(u)
  <2> DEFINE row1(i) == [receipt[i][u] EXCEPT !.archived = TRUE]
             new(i) == [receipt[i] EXCEPT ![u] = row1(i)]
  <2>1. \A i \in Notes : row1(i) \in Notified!ReceiptRows /\ row1(i).read = receipt[i][u].read
    <3> SUFFICES ASSUME NEW i \in Notes
                 PROVE  row1(i) \in Notified!ReceiptRows /\ row1(i).read = receipt[i][u].read
      OBVIOUS
    <3>1. receipt[i][u] \in Notified!ReceiptRows BY <1>1
    <3>2. row1(i) \in Notified!ReceiptRows BY <3>1 DEF Notified!ReceiptRows
    <3>3. row1(i).read = receipt[i][u].read BY <3>1 DEF Notified!ReceiptRows
    <3> QED BY <3>2, <3>3
  <2>2. receipt' = [i \in Notes |-> IF i \in Notified!Inbox(u) THEN new(i) ELSE receipt[i]]
    BY <1>2 DEF Notified!Clear
  <2> HIDE DEF row1
  <2>3. \A i \in Notes : /\ new(i) \in [Readers -> Notified!ReceiptRows] /\ new(i)[u] = row1(i)
                         /\ \A v \in Readers : v # u => new(i)[v] = receipt[i][v]
    BY <1>1, <2>1
  <2> HIDE DEF new
  <2>4. receipt' \in [Notes -> [Readers -> Notified!ReceiptRows]] BY <1>1, <2>2, <2>3
  <2>5. \A i \in Notes : \A v \in Readers : receipt[i][v].read => receipt'[i][v].read
    <3> SUFFICES ASSUME NEW i \in Notes, NEW v \in Readers, receipt[i][v].read
                 PROVE  receipt'[i][v].read
      OBVIOUS
    <3>1. CASE i \in Notified!Inbox(u) /\ v = u BY <2>1, <2>2, <2>3, <3>1
    <3>2. CASE i \in Notified!Inbox(u) /\ v # u BY <2>2, <2>3, <3>2
    <3>3. CASE i \notin Notified!Inbox(u) BY <2>2, <3>3
    <3> QED BY <3>1, <3>2, <3>3
  <2>6. UNCHANGED <<notice, outbox, poster, wall, socket, restRead>> BY <1>2 DEF Notified!Clear
  <2>7. Notified!ReportedIsRead' BY <1>1, <2>5, <2>6 DEF Notified!ReportedIsRead
  <2> QED BY <2>4, <2>6, <2>7 DEF InboxInv
<1>3. ASSUME NEW ns \in SUBSET Notes, Notified!RestMark(u, ns) PROVE InboxInv'
  <2> DEFINE row1(i) == [receipt[i][u] EXCEPT !.read = TRUE]
             new(i) == [receipt[i] EXCEPT ![u] = row1(i)]
  <2>1. \A i \in Notes : row1(i) \in Notified!ReceiptRows /\ row1(i).read
    <3> SUFFICES ASSUME NEW i \in Notes PROVE row1(i) \in Notified!ReceiptRows /\ row1(i).read
      OBVIOUS
    <3>1. receipt[i][u] \in Notified!ReceiptRows BY <1>1
    <3>2. row1(i) \in Notified!ReceiptRows BY <3>1 DEF Notified!ReceiptRows
    <3>3. row1(i).read = TRUE BY <3>1 DEF Notified!ReceiptRows
    <3> QED BY <3>2, <3>3
  <2>2. receipt' = [i \in Notes |-> IF i \in ns THEN new(i) ELSE receipt[i]]
    BY <1>1, <1>3 DEF Notified!RestMark
  <2> HIDE DEF row1
  <2>3. \A i \in Notes : /\ new(i) \in [Readers -> Notified!ReceiptRows] /\ new(i)[u] = row1(i)
                         /\ \A v \in Readers : v # u => new(i)[v] = receipt[i][v]
    BY <1>1, <2>1
  <2> HIDE DEF new
  <2>4. receipt' \in [Notes -> [Readers -> Notified!ReceiptRows]] BY <1>1, <2>2, <2>3
  <2>5. /\ \A i \in ns : receipt'[i][u].read
        /\ \A i \in Notes : \A v \in Readers : receipt[i][v].read => receipt'[i][v].read
    <3>1. \A i \in ns : receipt'[i][u].read BY <2>1, <2>2, <2>3
    <3>2. ASSUME NEW i \in Notes, NEW v \in Readers, receipt[i][v].read
          PROVE  receipt'[i][v].read
      <4>1. CASE i \in ns /\ v = u BY <3>1, <4>1
      <4>2. CASE i \in ns /\ v # u BY <2>2, <2>3, <3>2, <4>2
      <4>3. CASE i \notin ns BY <2>2, <3>2, <4>3
      <4> QED BY <4>1, <4>2, <4>3
    <3> QED BY <3>1, <3>2
  <2>6. /\ UNCHANGED <<notice, outbox, poster, wall, socket>>
        /\ restRead' = [restRead EXCEPT ![u] = @ \cup ns]
    BY <1>3 DEF Notified!RestMark
  <2>7. /\ restRead' \in [Readers -> SUBSET Notes] /\ restRead'[u] = restRead[u] \cup ns
        /\ \A v \in Readers : v # u => restRead'[v] = restRead[v]
    BY <1>1, <2>6
  <2>8. Notified!ReportedIsRead' BY <1>1, <2>5, <2>7 DEF Notified!ReportedIsRead
  <2> QED BY <2>4, <2>6, <2>7, <2>8 DEF InboxInv
<1> QED BY <1>2, <1>3

\* Every step of the inbox keeps what is read.
LEMMA InboxStep ==
  ASSUME InboxInv, Notified!InboxNext PROVE InboxInv'
<1>1. ASSUME NEW i \in Notes, NEW to \in SUBSET Readers, Notified!Publish(i, to) PROVE InboxInv'
  <2>1. /\ notice' \in [Notes -> Notified!NoticeRows] /\ outbox' \subseteq Notes
        /\ UNCHANGED <<poster, receipt, wall, socket, restRead>>
    BY <1>1 DEF Notified!Publish, InboxInv, Notified!NoticeRows
  <2> QED BY <2>1 DEF InboxInv, Notified!ReportedIsRead
<1>2. \A u \in Readers : Notified!Inbox(u) \in SUBSET Notes BY DEF Notified!Inbox
<1>3. \A u \in Online : u \in Readers BY JobsAssumption
<1>4. ASSUME NEW u \in Readers, NEW i \in Notes, Notified!RestMark(u, {i}) PROVE InboxInv'
  <2>1. {i} \in SUBSET Notes OBVIOUS
  <2> QED BY <1>4, <2>1, ReceiptsMove
<1>5. ASSUME NEW u \in Readers, Notified!RestMark(u, Notified!Inbox(u)) PROVE InboxInv'
  BY <1>2, <1>5, ReceiptsMove
<1>6. ASSUME NEW i \in Notes, NEW u \in Readers,
             Notified!Publish(i, Readers) \/ Notified!Publish(i, {u})
      PROVE  InboxInv'
  <2>1. Readers \in SUBSET Readers /\ {u} \in SUBSET Readers OBVIOUS
  <2> QED BY <1>1, <1>6, <2>1
<1> QED BY <1>3, <1>4, <1>5, <1>6, PostersMove, SocketsMove, ReceiptsMove DEF Notified!InboxNext

\* The alert goes from channel to channel.
LEMMA AlertStep == ASSUME AlertInv, Notified!ChannelNext PROVE AlertInv'
<1> DEFINE C == Notified!Channels
<1>1. AlertRetries \in Nat /\ alert.tries \in 0..AlertRetries /\ alert.all \in BOOLEAN
  BY JobsAssumption DEF JobsAssumption, AlertInv, Alerts
<1>2. ASSUME NEW all \in BOOLEAN, NEW k \in 0..AlertRetries, Notified!Offer(all, k),
             UNCHANGED channel
      PROVE  AlertInv'
  <2>1. PICK active : active = {c \in C : Notified!On(c)} OBVIOUS
  <2>2. active \in SUBSET C BY <2>1
  <2>3. alert' = [at |-> "sending", left |-> active, offered |-> active, sent |-> {},
                  refused |-> {}, all |-> all, tries |-> k]
    BY <1>2, <2>1 DEF Notified!Offer, Notified!NoAlert
  <2>4. alert' \in Alerts BY <2>2, <2>3 DEF Alerts
  <2>5. /\ alert'.at = "sending" /\ alert'.left = alert'.offered
        /\ alert'.sent = {} /\ alert'.refused = {}
    BY <2>3
  <2> QED BY <1>2, <2>4, <2>5 DEF AlertInv
<1>3. ASSUME NEW c \in C, NEW state \in Notified!ChannelRows, Notified!SetChannel(c, state)
      PROVE  AlertInv'
  BY <1>3 DEF AlertInv, Notified!SetChannel
<1>4. ASSUME NEW all \in BOOLEAN, Notified!Notify(all) PROVE AlertInv'
  <2>1. 0 \in 0..AlertRetries BY <1>1
  <2> QED BY <1>2, <1>4, <2>1 DEF Notified!Notify
<1>5. ASSUME NEW c \in C, NEW ok \in BOOLEAN, Notified!SendNext(c, ok) PROVE AlertInv'
  <2>1. PICK sent, refused, left :
          /\ sent = IF ok THEN alert.sent \cup {c} ELSE alert.sent
          /\ refused = IF ok THEN alert.refused ELSE alert.refused \cup {c}
          /\ left = IF ok /\ ~alert.all THEN {} ELSE alert.left \ {c}
    OBVIOUS
  <2>2. /\ alert' = [alert EXCEPT !.sent = sent, !.refused = refused, !.left = left]
        /\ alert.at = "sending" /\ c \in alert.left /\ UNCHANGED channel
    BY <1>5, <2>1 DEF Notified!SendNext, Notified!First
  <2>3. sent \in SUBSET C /\ refused \in SUBSET C /\ left \in SUBSET C
    BY <2>1 DEF AlertInv, Alerts
  <2>4. /\ alert' \in Alerts /\ alert'.at = "sending" /\ alert'.offered = alert.offered
        /\ alert'.sent = sent /\ alert'.refused = refused /\ alert'.left = left
        /\ alert'.all = alert.all
    BY <2>2, <2>3 DEF AlertInv, Alerts
  <2>5. sent \cup refused \cup left \subseteq alert.offered BY <2>1, <2>2 DEF AlertInv
  <2>6. ASSUME alert.all = TRUE \/ sent = {} PROVE sent \cup refused \cup left = alert.offered
    <3>1. CASE ok
      <4>1. alert.all = TRUE BY <2>1, <2>6, <3>1
      <4>2. left = alert.left \ {c} BY <2>1, <4>1
      <4> QED BY <2>1, <2>2, <3>1, <4>1, <4>2 DEF AlertInv
    <3>2. CASE ~ok BY <2>1, <2>2, <2>6, <3>2 DEF AlertInv
    <3> QED BY <3>1, <3>2
  <2> QED BY <2>2, <2>4, <2>5, <2>6 DEF AlertInv
<1>6. ASSUME NEW x \in {"done", "dead"}, x = "done" => alert.left = {}, alert.at = "sending",
             alert' = [alert EXCEPT !.at = x], UNCHANGED channel
      PROVE  AlertInv'
  <2>1. /\ alert' \in Alerts /\ alert'.at = x /\ alert'.offered = alert.offered
        /\ alert'.sent = alert.sent /\ alert'.refused = alert.refused
        /\ alert'.left = alert.left /\ alert'.all = alert.all
    BY <1>6 DEF AlertInv, Alerts
  <2> QED BY <1>6, <2>1 DEF AlertInv
<1>7. CASE Notified!AlertDone BY <1>6, <1>7 DEF Notified!AlertDone
<1>8. CASE Notified!AlertRaises
  <2>1. CASE alert.tries < AlertRetries
    <3>1. alert.tries + 1 \in 0..AlertRetries BY <1>1, <2>1
    <3>2. Notified!Offer(alert.all, alert.tries + 1) /\ UNCHANGED channel
      BY <1>8, <2>1 DEF Notified!AlertRaises
    <3>3. PICK all, k : all = alert.all /\ k = alert.tries + 1 OBVIOUS
    <3> QED BY <1>1, <1>2, <3>1, <3>2, <3>3
  <2>2. CASE ~(alert.tries < AlertRetries) BY <1>6, <1>8, <2>2 DEF Notified!AlertRaises
  <2> QED BY <2>1, <2>2
<1> QED BY <1>3, <1>4, <1>5, <1>7, <1>8 DEF Notified!ChannelNext

\* What the invariants say of the reader and of the alert.
LEMMA NotifiedPromise ==
  ASSUME InboxInv, AlertInv
  PROVE  Notified!TypeOK /\ Notified!ReportedIsRead /\ Notified!TriedEverything
<1>1. \A u \in Readers : socket[u].shown \cup socket[u].marks \subseteq Notes
  BY DEF InboxInv, Sockets
<1>2. /\ alert.at \in {"idle", "sending", "done", "dead"} /\ alert.tries \in 0..AlertRetries
      /\ alert.sent \cup alert.refused \subseteq alert.offered
  BY DEF AlertInv, Alerts
<1>3. \A u \in Readers : restRead[u] \subseteq Notes BY DEF InboxInv
<1>4. Notified!TypeOK BY <1>1, <1>2, <1>3 DEF InboxInv, AlertInv, Notified!TypeOK
<1>5. Notified!TriedEverything
  <2>1. ASSUME alert.at = "done", alert.sent = {} PROVE alert.refused = alert.offered
    BY <2>1 DEF AlertInv
  <2>2. ASSUME alert.at = "done", alert.all PROVE alert.sent \cup alert.refused = alert.offered
    <3>1. alert.all = TRUE BY <2>2 DEF AlertInv, Alerts
    <3> QED BY <2>2, <3>1 DEF AlertInv
  <2> QED BY <2>1, <2>2 DEF Notified!TriedEverything
<1> QED BY <1>4, <1>5 DEF InboxInv

-----------------------------------------------------------------------------
(* Documents: what a task or a request holds against the rows it will write. *)

\* The rows of documents, and what indexers and requests at work hold.
DocRows(n) == [status : {"none", "pending", "processing", "indexed", "failed", "gone"},
               folder : Libraries[n].folders \cup {Library(n)!Root},
               model : Libraries[n].models \cup {Library(n)!NoModel}]
IndexRows(n) == [at : {"work", "mark"}, doc : Libraries[n].docs,
                 model : Libraries[n].models \cup {Library(n)!NoModel}]
DeleteRows(n) == [at : {"idle", "vectors", "commit"}, todo : SUBSET Libraries[n].docs,
                  rows : SUBSET Libraries[n].docs,
                  seen : [Libraries[n].docs -> Libraries[n].models \cup {Library(n)!NoModel}],
                  folder : Libraries[n].folders \cup {Library(n)!Absent}]

\* Rows keep their types; a queue holds the tasks of requests and those of dead workers;
\* chunks are written with a model that exists; what is left to delete was to be deleted.
LibraryRows(n) ==
  /\ doc \in [Libraries[n].docs -> DocRows(n)]
  /\ parent \in [Libraries[n].folders ->
                   Libraries[n].folders \cup {Library(n)!Root, Library(n)!Absent}]
  /\ points \subseteq Libraries[n].docs \X (Libraries[n].models \cup {"user"})
  /\ model \in Libraries[n].models
  /\ slips \in 0..Libraries[n].slips
  /\ queued \in [Libraries[n].docs -> Nat]
  /\ \A d \in Libraries[n].docs : queued[d] <= Libraries[n].queued + slips
  /\ indexer \in [Libraries[n].indexers -> IndexRows(n) \cup {Library(n)!IndexerIdle}]
  /\ \A w \in Libraries[n].indexers :
       indexer[w].at = "mark" => indexer[w].model \in Libraries[n].models
  /\ deleter \in [Libraries[n].requests -> DeleteRows(n)]
  /\ \A r \in Libraries[n].requests : deleter[r].todo \subseteq deleter[r].rows

\* The chunks of a document in the collection of a model; a deletion that has passed it.
HasChunks(n, d, m) == \E c \in Library(n)!Collection(m) : <<d, c>> \in points
Deleting(n, d) ==
  \E r \in Libraries[n].requests :
    deleter[r].at # "idle" /\ d \in deleter[r].rows \ deleter[r].todo

\* An indexed document has chunks, and so has one that is about to be marked.
LibraryChunks(n) ==
  slips = 0 =>
    /\ \A d \in Libraries[n].docs : doc[d].status = "indexed" =>
         (doc[d].model \in Libraries[n].models /\ HasChunks(n, d, doc[d].model)) \/ Deleting(n, d)
    /\ \A w \in Libraries[n].indexers : indexer[w].at = "mark" =>
         \/ ~Library(n)!Exists(indexer[w].doc)
         \/ HasChunks(n, indexer[w].doc, indexer[w].model)
         \/ Deleting(n, indexer[w].doc)

\* No task is at work on a document that was never uploaded.
LibraryWork(n) ==
  /\ \A w \in Libraries[n].indexers : indexer[w].at # "idle" => doc[indexer[w].doc].status # "none"
  /\ Library(n)!ProcessingIsWorked

LibraryInv(n) ==
  /\ LibraryRows(n) /\ Library(n)!PlacesExist /\ LibraryChunks(n) /\ LibraryWork(n)

\* Nothing is uploaded, queued or at work to begin with.
LEMMA LibraryInit == ASSUME NEW n \in DOMAIN Libraries, Library(n)!Init PROVE LibraryInv(n)
<1>1. Libraries[n].queued \in Nat /\ Libraries[n].slips \in Nat BY JobsAssumption DEF JobsAssumption
<1>2. Library(n)!NoRow \in DocRows(n) /\ Library(n)!NoRow.status = "none"
  BY DEF DocRows, Library!NoRow
<1>3. /\ Library(n)!IndexerIdle.at = "idle"
      /\ Library(n)!DeleterIdle.at = "idle" /\ Library(n)!DeleterIdle.todo = {}
      /\ Library(n)!DeleterIdle.rows = {} /\ Library(n)!DeleterIdle \in DeleteRows(n)
  BY DEF Library!IndexerIdle, Library!DeleterIdle, DeleteRows
<1>4. LibraryRows(n)
  BY <1>1, <1>2, <1>3 DEF LibraryRows, Library!Init
<1>5. /\ \A d \in Libraries[n].docs : doc[d].status = "none"
      /\ \A f \in Libraries[n].folders : parent[f] = Library(n)!Absent
      /\ \A w \in Libraries[n].indexers : indexer[w].at = "idle"
  BY <1>2, <1>3 DEF Library!Init
<1>6. Library(n)!PlacesExist BY <1>5 DEF Library!PlacesExist, Library!Exists
<1>7. LibraryChunks(n) BY <1>5 DEF LibraryChunks
<1>8. LibraryWork(n) BY <1>5 DEF LibraryWork, Library!ProcessingIsWorked
<1> QED BY <1>4, <1>6, <1>7, <1>8 DEF LibraryInv

\* The rows as typed, for use where the definition would be too much.
LEMMA LibraryTyped ==
  ASSUME NEW n \in DOMAIN Libraries, LibraryRows(n)
  PROVE  /\ \A d \in Libraries[n].docs : doc[d] \in DocRows(n)
         /\ \A w \in Libraries[n].indexers : indexer[w].at # "idle" => indexer[w] \in IndexRows(n)
         /\ \A r \in Libraries[n].requests : deleter[r] \in DeleteRows(n)
BY DEF LibraryRows, Library!IndexerIdle

\* A row with another status, folder or model.
LEMMA DocRow ==
  ASSUME NEW n \in DOMAIN Libraries, NEW row0 \in DocRows(n)
  PROVE  /\ \A s \in {"none", "pending", "processing", "indexed", "failed", "gone"} :
              /\ [row0 EXCEPT !.status = s] \in DocRows(n)
              /\ [row0 EXCEPT !.status = s].status = s
              /\ [row0 EXCEPT !.status = s].folder = row0.folder
              /\ [row0 EXCEPT !.status = s].model = row0.model
         /\ \A f \in Libraries[n].folders \cup {Library(n)!Root} :
              /\ [row0 EXCEPT !.folder = f] \in DocRows(n)
              /\ [row0 EXCEPT !.folder = f].folder = f
              /\ [row0 EXCEPT !.folder = f].status = row0.status
              /\ [row0 EXCEPT !.folder = f].model = row0.model
         /\ \A m \in Libraries[n].models \cup {Library(n)!NoModel} :
              /\ [row0 EXCEPT !.model = m] \in DocRows(n)
              /\ [row0 EXCEPT !.model = m].model = m
              /\ [row0 EXCEPT !.model = m].status = row0.status
              /\ [row0 EXCEPT !.model = m].folder = row0.folder
<1>1. ASSUME NEW s \in {"none", "pending", "processing", "indexed", "failed", "gone"}
      PROVE  /\ [row0 EXCEPT !.status = s] \in DocRows(n)
             /\ [row0 EXCEPT !.status = s].status = s
             /\ [row0 EXCEPT !.status = s].folder = row0.folder
             /\ [row0 EXCEPT !.status = s].model = row0.model
  BY DEF DocRows
<1>2. ASSUME NEW f \in Libraries[n].folders \cup {Library(n)!Root}
      PROVE  /\ [row0 EXCEPT !.folder = f] \in DocRows(n)
             /\ [row0 EXCEPT !.folder = f].folder = f
             /\ [row0 EXCEPT !.folder = f].status = row0.status
             /\ [row0 EXCEPT !.folder = f].model = row0.model
  BY DEF DocRows
<1>3. ASSUME NEW m \in Libraries[n].models \cup {Library(n)!NoModel}
      PROVE  /\ [row0 EXCEPT !.model = m] \in DocRows(n)
             /\ [row0 EXCEPT !.model = m].model = m
             /\ [row0 EXCEPT !.model = m].status = row0.status
             /\ [row0 EXCEPT !.model = m].folder = row0.folder
  BY DEF DocRows
<1> QED BY <1>1, <1>2, <1>3

\* Tasks sent to the broker, or lost with a slip.
LEMMA Enqueued ==
  ASSUME NEW n \in DOMAIN Libraries, LibraryRows(n), NEW ds \in SUBSET Libraries[n].docs,
         Library(n)!Enqueue(ds)
  PROVE  /\ queued' \in [Libraries[n].docs -> Nat] /\ slips' \in 0..Libraries[n].slips
         /\ \A d \in Libraries[n].docs : queued'[d] <= Libraries[n].queued + slips'
         /\ \A d \in Libraries[n].docs : queued[d] <= queued'[d]
         /\ slips' = 0 => slips = 0
<1>1. Libraries[n].queued \in Nat /\ Libraries[n].slips \in Nat BY JobsAssumption DEF JobsAssumption
<1>2. CASE /\ \A d \in ds : queued[d] < Libraries[n].queued
           /\ queued' = [d \in Libraries[n].docs |-> IF d \in ds THEN queued[d] + 1 ELSE queued[d]]
           /\ UNCHANGED slips
  BY <1>1, <1>2 DEF LibraryRows
<1>3. CASE Library(n)!Slip /\ UNCHANGED queued BY <1>1, <1>3 DEF LibraryRows, Library!Slip
<1> QED BY <1>2, <1>3 DEF Library!Enqueue

\* A slip is counted.
LEMMA Slipped ==
  ASSUME NEW n \in DOMAIN Libraries, LibraryRows(n), Library(n)!Slip
  PROVE  slips' \in 1..Libraries[n].slips /\ slips' = slips + 1
<1>1. Libraries[n].slips \in Nat BY JobsAssumption DEF JobsAssumption
<1> QED BY <1>1 DEF LibraryRows, Library!Slip

\* A request that writes rows, folders and tasks: it makes no document indexed and none
\* processing.
LEMMA LibraryRequest ==
  ASSUME NEW n \in DOMAIN Libraries, LibraryInv(n),
         doc' \in [Libraries[n].docs -> DocRows(n)],
         parent' \in [Libraries[n].folders ->
                        Libraries[n].folders \cup {Library(n)!Root, Library(n)!Absent}],
         Library(n)!PlacesExist', model' \in Libraries[n].models,
         queued' \in [Libraries[n].docs -> Nat], slips' \in 0..Libraries[n].slips,
         \A d \in Libraries[n].docs : queued'[d] <= Libraries[n].queued + slips',
         \A d \in Libraries[n].docs : queued[d] <= queued'[d],
         slips' = 0 => slips = 0,
         \A d \in Libraries[n].docs :
           /\ doc'[d].status = "indexed" => doc[d].status = "indexed" /\ doc'[d].model = doc[d].model
           /\ doc'[d].status = "processing" => doc[d].status = "processing"
           /\ doc[d].status # "none" => doc'[d].status # "none"
           /\ doc[d].status = "gone" => doc'[d].status = "gone",
         UNCHANGED <<points, indexer, deleter>>
  PROVE  LibraryInv(n)' /\ Library(n)!GoneStep
<1>1. LibraryRows(n)' BY DEF LibraryInv, LibraryRows
<1>2. \A w \in Libraries[n].indexers : indexer[w].at # "idle" => indexer[w].doc \in Libraries[n].docs
  BY LibraryTyped DEF LibraryInv, IndexRows
<1>3. LibraryChunks(n)'
  <2> SUFFICES ASSUME slips' = 0
               PROVE  /\ \A d \in Libraries[n].docs : doc'[d].status = "indexed" =>
                           \/ doc'[d].model \in Libraries[n].models /\ HasChunks(n, d, doc[d].model)'
                           \/ Deleting(n, d)'
                      /\ \A w \in Libraries[n].indexers : indexer'[w].at = "mark" =>
                           \/ ~Library(n)!Exists(indexer[w].doc)'
                           \/ HasChunks(n, indexer[w].doc, indexer[w].model)'
                           \/ Deleting(n, indexer[w].doc)'
    BY DEF LibraryChunks
  <2>1. \A d, m : HasChunks(n, d, m) => HasChunks(n, d, m)' BY DEF HasChunks, Library!Collection
  <2>2. \A d : Deleting(n, d) => Deleting(n, d)' BY DEF Deleting
  <2>3. ASSUME NEW d \in Libraries[n].docs, doc'[d].status = "indexed"
        PROVE  \/ doc'[d].model \in Libraries[n].models /\ HasChunks(n, d, doc[d].model)'
               \/ Deleting(n, d)'
    <3>1. doc[d].status = "indexed" /\ doc'[d].model = doc[d].model BY <2>3
    <3>2. (doc[d].model \in Libraries[n].models /\ HasChunks(n, d, doc[d].model)) \/ Deleting(n, d)
      BY <3>1 DEF LibraryInv, LibraryChunks
    <3>3. PICK m : m = doc[d].model OBVIOUS
    <3>4. HasChunks(n, d, m) => HasChunks(n, d, m)' BY <2>1
    <3> QED BY <2>2, <3>1, <3>2, <3>3, <3>4
  <2>4. ASSUME NEW w \in Libraries[n].indexers, indexer'[w].at = "mark"
        PROVE  \/ ~Library(n)!Exists(indexer[w].doc)'
               \/ HasChunks(n, indexer[w].doc, indexer[w].model)'
               \/ Deleting(n, indexer[w].doc)'
    <3>1. PICK d, m : d = indexer[w].doc /\ m = indexer[w].model OBVIOUS
    <3>2. indexer[w].at = "mark" /\ indexer'[w].doc = d /\ indexer'[w].model = m BY <2>4, <3>1
    <3>3. d \in Libraries[n].docs BY <1>2, <3>1, <3>2
    <3>4. ~Library(n)!Exists(d) \/ HasChunks(n, d, m) \/ Deleting(n, d)
      BY <3>1, <3>2 DEF LibraryInv, LibraryChunks
    <3>5. Library(n)!Exists(d)' => Library(n)!Exists(d)
      BY <3>1, <3>2, <3>3 DEF Library!Exists, LibraryInv, LibraryWork
    <3> QED BY <2>1, <2>2, <3>2, <3>4, <3>5
  <2> QED BY <2>3, <2>4
<1>4. LibraryWork(n)'
  <2>1. \A w \in Libraries[n].indexers : indexer'[w].at # "idle" => doc'[indexer'[w].doc].status # "none"
    BY <1>2 DEF LibraryInv, LibraryWork
  <2>2. Library(n)!ProcessingIsWorked'
    <3> SUFFICES ASSUME NEW d \in Libraries[n].docs, doc'[d].status = "processing"
                 PROVE  queued'[d] > 0 \/ \E w \in Libraries[n].indexers :
                                            indexer'[w].at # "idle" /\ indexer'[w].doc = d
      BY DEF Library!ProcessingIsWorked
    <3>1. queued[d] > 0 \/ \E w \in Libraries[n].indexers : indexer[w].at # "idle" /\ indexer[w].doc = d
      BY DEF LibraryInv, LibraryWork, Library!ProcessingIsWorked
    <3>2. queued[d] > 0 => queued'[d] > 0 BY DEF LibraryInv, LibraryRows
    <3> QED BY <3>1, <3>2
  <2> QED BY <2>1, <2>2 DEF LibraryWork
<1>5. Library(n)!GoneStep BY DEF Library!GoneStep
<1> QED BY <1>1, <1>3, <1>4, <1>5 DEF LibraryInv

\* What the requests of LibraryRequest do.
LEMMA LibraryUser ==
  ASSUME NEW n \in DOMAIN Libraries, LibraryInv(n),
         \/ \E f \in Libraries[n].folders, p \in Libraries[n].folders \cup {Library(n)!Root} :
              Library(n)!CreateFolder(f, p)
         \/ \E d \in Libraries[n].docs, f \in Libraries[n].folders \cup {Library(n)!Root} :
              Library(n)!UploadFile(d, f) \/ \E s \in Libraries[n].docs : Library(n)!CopyFile(s, d, f)
         \/ \E ds \in SUBSET Libraries[n].docs :
              \/ Library(n)!RetryFiles(ds)
              \/ \E f \in Libraries[n].folders \cup {Library(n)!Root} : Library(n)!MoveFiles(ds, f)
         \/ \E m \in Libraries[n].models : Library(n)!SwitchModel(m)
  PROVE  LibraryInv(n)' /\ Library(n)!GoneStep
<1> DEFINE D == Libraries[n].docs
           F == Libraries[n].folders
<1>0. LibraryRows(n) BY DEF LibraryInv
<1>1. /\ doc \in [D -> DocRows(n)] /\ \A d \in D : doc[d] \in DocRows(n)
      /\ parent \in [F -> F \cup {Library(n)!Root, Library(n)!Absent}]
      /\ model \in Libraries[n].models /\ queued \in [D -> Nat] /\ slips \in 0..Libraries[n].slips
      /\ \A d \in D : queued[d] <= Libraries[n].queued + slips
      /\ Library(n)!PlacesExist
  BY LibraryTyped DEF LibraryInv, LibraryRows
<1>2. ASSUME NEW f \in F, NEW p \in F \cup {Library(n)!Root}, Library(n)!CreateFolder(f, p)
      PROVE  LibraryInv(n)' /\ Library(n)!GoneStep
  <2>1. parent' \in [F -> F \cup {Library(n)!Root, Library(n)!Absent}]
    BY <1>1, <1>2 DEF Library!CreateFolder
  <2>2. Library(n)!PlacesExist'
    BY <1>1, <1>2 DEF Library!CreateFolder, Library!PlacesExist, Library!Place, Library!Exists
  <2>3. \A d \in D : queued[d] <= queued'[d] BY <1>1, <1>2 DEF Library!CreateFolder
  <2>4. UNCHANGED <<doc, points, model, queued, indexer, deleter, slips>>
    BY <1>2 DEF Library!CreateFolder
  <2> QED BY <1>1, <2>1, <2>2, <2>3, <2>4, LibraryRequest
<1>3. ASSUME NEW d \in D, NEW f \in F \cup {Library(n)!Root}, doc[d].status = "none",
             f \in Library(n)!Place,
             doc' = [doc EXCEPT ![d] = [Library(n)!NoRow EXCEPT !.status = "pending", !.folder = f]],
             Library(n)!Enqueue({d}), UNCHANGED <<parent, points, model, indexer, deleter>>
      PROVE  LibraryInv(n)' /\ Library(n)!GoneStep
  <2> DEFINE new == [Library(n)!NoRow EXCEPT !.status = "pending", !.folder = f]
  <2>1. new \in DocRows(n) /\ new.status = "pending" /\ new.folder = f
    BY DEF DocRows, Library!NoRow
  <2> HIDE DEF new
  <2>2. doc' \in [D -> DocRows(n)] /\ doc'[d] = new /\ \A e \in D : e # d => doc'[e] = doc[e]
    BY <1>1, <1>3, <2>1 DEF new
  <2>3. Library(n)!PlacesExist'
    BY <1>1, <1>3, <2>1, <2>2 DEF Library!PlacesExist, Library!Place, Library!Exists
  <2>4. \A e \in D :
           /\ doc'[e].status = "indexed" => doc[e].status = "indexed" /\ doc'[e].model = doc[e].model
           /\ doc'[e].status = "processing" => doc[e].status = "processing"
           /\ doc[e].status # "none" => doc'[e].status # "none"
           /\ doc[e].status = "gone" => doc'[e].status = "gone"
    BY <1>3, <2>1, <2>2
  <2>5. /\ queued' \in [D -> Nat] /\ slips' \in 0..Libraries[n].slips
        /\ \A e \in D : queued'[e] <= Libraries[n].queued + slips'
        /\ \A e \in D : queued[e] <= queued'[e]
        /\ slips' = 0 => slips = 0
    <3>1. {d} \in SUBSET D OBVIOUS
    <3> QED BY <1>0, <1>3, <3>1, Enqueued
  <2> QED BY <1>1, <1>3, <2>2, <2>3, <2>4, <2>5, LibraryRequest
<1>4. ASSUME NEW d \in D, NEW f \in F \cup {Library(n)!Root}, Library(n)!UploadFile(d, f)
      PROVE  LibraryInv(n)' /\ Library(n)!GoneStep
  BY <1>3, <1>4 DEF Library!UploadFile
<1>5. ASSUME NEW d \in D, NEW f \in F \cup {Library(n)!Root}, NEW s \in D, Library(n)!CopyFile(s, d, f)
      PROVE  LibraryInv(n)' /\ Library(n)!GoneStep
  BY <1>3, <1>5 DEF Library!CopyFile
<1>6. ASSUME NEW ds \in SUBSET D, Library(n)!RetryFiles(ds)
      PROVE  LibraryInv(n)' /\ Library(n)!GoneStep
  <2> DEFINE new(d) == [doc[d] EXCEPT !.status = "pending", !.model = Library(n)!NoModel]
  <2>1. \A d \in D : new(d) \in DocRows(n) /\ new(d).status = "pending" /\ new(d).folder = doc[d].folder
    BY <1>1 DEF DocRows
  <2>2. doc' = [d \in D |-> IF d \in ds THEN new(d) ELSE doc[d]] BY <1>6 DEF Library!RetryFiles
  <2>3. \A d \in ds : doc[d].status \notin {"none", "gone"}
    BY <1>6 DEF Library!RetryFiles, Library!Exists
  <2> HIDE DEF new
  <2>4. doc' \in [D -> DocRows(n)] BY <1>1, <2>1, <2>2
  <2>5. \A e \in D :
           /\ doc'[e].status = "indexed" => doc[e].status = "indexed" /\ doc'[e].model = doc[e].model
           /\ doc'[e].status = "processing" => doc[e].status = "processing"
           /\ doc[e].status # "none" => doc'[e].status # "none"
           /\ doc[e].status = "gone" => doc'[e].status = "gone"
    BY <2>1, <2>2, <2>3
  <2>6. UNCHANGED <<parent, points, model, indexer, deleter>> /\ Library(n)!Enqueue(ds)
    BY <1>6 DEF Library!RetryFiles
  <2>7. Library(n)!PlacesExist'
    <3>1. \A d \in D : Library(n)!Exists(d)' => Library(n)!Exists(d) /\ doc'[d].folder = doc[d].folder
      BY <2>1, <2>2, <2>3 DEF Library!Exists
    <3> QED BY <1>1, <2>6, <3>1 DEF Library!PlacesExist, Library!Place
  <2>8. /\ queued' \in [D -> Nat] /\ slips' \in 0..Libraries[n].slips
        /\ \A e \in D : queued'[e] <= Libraries[n].queued + slips'
        /\ \A e \in D : queued[e] <= queued'[e]
        /\ slips' = 0 => slips = 0
    BY <1>0, <2>6, Enqueued
  <2> QED BY <1>1, <2>4, <2>5, <2>6, <2>7, <2>8, LibraryRequest
<1>7. ASSUME NEW ds \in SUBSET D, NEW f \in F \cup {Library(n)!Root}, Library(n)!MoveFiles(ds, f)
      PROVE  LibraryInv(n)' /\ Library(n)!GoneStep
  <2> DEFINE new(d) == [doc[d] EXCEPT !.folder = f]
  <2>1. \A d \in D : /\ new(d) \in DocRows(n) /\ new(d).folder = f
                     /\ new(d).status = doc[d].status /\ new(d).model = doc[d].model
    <3> SUFFICES ASSUME NEW d \in D
                 PROVE  /\ new(d) \in DocRows(n) /\ new(d).folder = f
                        /\ new(d).status = doc[d].status /\ new(d).model = doc[d].model
      OBVIOUS
    <3>1. doc[d] \in DocRows(n) BY <1>1
    <3> QED BY <3>1 DEF DocRows
  <2>2. doc' = [d \in D |-> IF d \in ds THEN new(d) ELSE doc[d]] BY <1>7 DEF Library!MoveFiles
  <2> HIDE DEF new
  <2>3. doc' \in [D -> DocRows(n)] BY <1>1, <2>1, <2>2
  <2>4. \A e \in D : doc'[e].status = doc[e].status /\ doc'[e].model = doc[e].model BY <2>1, <2>2
  <2>5. UNCHANGED <<parent, points, model, queued, indexer, deleter, slips>> /\ f \in Library(n)!Place
    BY <1>7 DEF Library!MoveFiles
  <2>6. Library(n)!PlacesExist'
    <3>1. \A d \in D : doc'[d].folder \in {doc[d].folder, f} BY <2>1, <2>2
    <3> QED BY <1>1, <2>4, <2>5, <3>1 DEF Library!PlacesExist, Library!Place, Library!Exists
  <2>7. \A e \in D : queued[e] <= queued'[e] BY <1>1, <2>5
  <2> QED BY <1>1, <2>3, <2>4, <2>5, <2>6, <2>7, LibraryRequest
<1>8. ASSUME NEW m \in Libraries[n].models, Library(n)!SwitchModel(m)
      PROVE  LibraryInv(n)' /\ Library(n)!GoneStep
  <2>1. UNCHANGED <<doc, parent, points, queued, indexer, deleter, slips>> /\ model' = m
    BY <1>8 DEF Library!SwitchModel
  <2>2. Library(n)!PlacesExist'
    BY <1>1, <2>1 DEF Library!PlacesExist, Library!Place, Library!Exists
  <2>3. \A e \in D : queued[e] <= queued'[e] BY <1>1, <2>1
  <2> QED BY <1>1, <2>1, <2>2, <2>3, LibraryRequest
<1> QED BY <1>2, <1>4, <1>5, <1>6, <1>7, <1>8

\* A deletion begins with what it read.
LEMMA LibraryDeletion ==
  ASSUME NEW n \in DOMAIN Libraries, LibraryInv(n), NEW r \in Libraries[n].requests,
         \/ \E ds \in SUBSET Libraries[n].docs : Library(n)!DeleteFiles(r, ds)
         \/ \E f \in Libraries[n].folders, recursive \in BOOLEAN :
              Library(n)!DeleteFolder(r, f, recursive)
  PROVE  LibraryInv(n)' /\ Library(n)!GoneStep
<1> DEFINE D == Libraries[n].docs
           seen == [d \in D |-> doc[d].model]
<1>0. LibraryRows(n) /\ \A d \in D : doc[d] \in DocRows(n) BY LibraryTyped DEF LibraryInv
<1>1. seen \in [D -> Libraries[n].models \cup {Library(n)!NoModel}] BY <1>0 DEF DocRows
<1>2. /\ deleter[r].at = "idle"
      /\ UNCHANGED <<doc, parent, points, model, queued, indexer, slips>>
      /\ \E new \in DeleteRows(n) : new.todo = new.rows /\ deleter' = [deleter EXCEPT ![r] = new]
  <2>1. ASSUME NEW ds \in SUBSET D, Library(n)!DeleteFiles(r, ds)
        PROVE  \E new \in DeleteRows(n) :
                 new.todo = new.rows /\ deleter' = [deleter EXCEPT ![r] = new]
    <3> DEFINE new == [Library(n)!DeleterIdle EXCEPT !.at = "vectors", !.todo = ds, !.rows = ds,
                                                    !.seen = seen]
    <3>1. new \in DeleteRows(n) /\ new.todo = new.rows
      BY <1>1 DEF DeleteRows, Library!DeleterIdle
    <3>2. deleter' = [deleter EXCEPT ![r] = new] BY <2>1 DEF Library!DeleteFiles
    <3> QED BY <3>1, <3>2
  <2>2. ASSUME NEW f \in Libraries[n].folders, NEW recursive \in BOOLEAN,
               Library(n)!DeleteFolder(r, f, recursive)
        PROVE  \E new \in DeleteRows(n) :
                 new.todo = new.rows /\ deleter' = [deleter EXCEPT ![r] = new]
    <3> DEFINE ds == {d \in D : Library(n)!Exists(d)
                                /\ doc[d].folder \in {f} \cup Library(n)!Descendants(f)}
               new == [at |-> IF ds = {} THEN "commit" ELSE "vectors", todo |-> ds, rows |-> ds,
                       seen |-> seen, folder |-> f]
    <3>1. deleter' = [deleter EXCEPT ![r] = new] BY <2>2 DEF Library!DeleteFolder
    <3>2. ds \in SUBSET D OBVIOUS
    <3> HIDE DEF ds, seen
    <3>3. new \in DeleteRows(n) /\ new.todo = new.rows BY <1>1, <3>2 DEF DeleteRows
    <3> QED BY <3>1, <3>3
  <2> QED BY <2>1, <2>2 DEF Library!DeleteFiles, Library!DeleteFolder
<1>3. PICK new \in DeleteRows(n) : new.todo = new.rows /\ deleter' = [deleter EXCEPT ![r] = new]
  BY <1>2
<1>4. LibraryRows(n)'
  <2>1. /\ deleter' \in [Libraries[n].requests -> DeleteRows(n)]
        /\ \A q \in Libraries[n].requests : deleter'[q].todo \subseteq deleter'[q].rows
    BY <1>0, <1>3 DEF LibraryRows
  <2> QED BY <1>0, <1>2, <2>1 DEF LibraryRows
<1>5. \A d : Deleting(n, d) => Deleting(n, d)'
  <2>1. \A q \in Libraries[n].requests : deleter[q].at # "idle" => deleter'[q] = deleter[q]
    BY <1>0, <1>2, <1>3 DEF LibraryRows
  <2> QED BY <2>1 DEF Deleting
<1>6. LibraryChunks(n)'
  BY <1>2, <1>5 DEF LibraryInv, LibraryChunks, HasChunks, Library!Collection, Library!Exists
<1>7. LibraryWork(n)' /\ Library(n)!PlacesExist' /\ Library(n)!GoneStep
  BY <1>2 DEF LibraryInv, LibraryWork, Library!ProcessingIsWorked, Library!PlacesExist,
     Library!Exists, Library!Place, Library!GoneStep
<1> QED BY <1>4, <1>6, <1>7 DEF LibraryInv

\* The chunks of a document under deletion go, and no others.
LEMMA LibraryVectors ==
  ASSUME NEW n \in DOMAIN Libraries, LibraryInv(n), NEW r \in Libraries[n].requests,
         NEW e \in Libraries[n].docs, Library(n)!DeleteVectors(r, e)
  PROVE  LibraryInv(n)' /\ Library(n)!GoneStep
<1> DEFINE D == Libraries[n].docs
           left == deleter[r].todo \ {e}
           next == IF left = {} THEN "commit" ELSE "vectors"
           new == [deleter[r] EXCEPT !.todo = left, !.at = next]
<1>0. LibraryRows(n) /\ deleter[r] \in DeleteRows(n) BY LibraryTyped DEF LibraryInv
<1>1. /\ UNCHANGED <<doc, parent, model, queued, indexer>>
      /\ deleter[r].at = "vectors" /\ e \in deleter[r].todo
      /\ \/ points' = points \ ({e} \X Library(n)!Collection(deleter[r].seen[e])) /\ UNCHANGED slips
         \/ Library(n)!Slip /\ UNCHANGED points
  BY DEF Library!DeleteVectors
<1>2. deleter' = [deleter EXCEPT ![r] = new]
  <2>1. deleter' = [deleter EXCEPT ![r].todo = left, ![r].at = next]
    BY <1>1 DEF Library!DeleteVectors
  <2> HIDE DEF left, next
  <2> QED BY <1>0, <2>1 DEF LibraryRows
<1>3. left \in SUBSET D /\ next \in {"vectors", "commit"} BY <1>0 DEF DeleteRows
<1>4. /\ new \in DeleteRows(n) /\ new.todo = left /\ new.rows = deleter[r].rows /\ new.at # "idle"
  <2> HIDE DEF left, next
  <2> QED BY <1>0, <1>3 DEF DeleteRows
<1>5. e \in deleter[r].rows /\ left \subseteq deleter[r].todo /\ e \notin left
      /\ deleter[r].todo \subseteq deleter[r].rows
  BY <1>0, <1>1 DEF LibraryRows
<1> HIDE DEF left, next, new
<1>6. /\ deleter' \in [Libraries[n].requests -> DeleteRows(n)] /\ deleter'[r] = new
      /\ \A q \in Libraries[n].requests : q # r => deleter'[q] = deleter[q]
  BY <1>0, <1>2, <1>4 DEF LibraryRows
<1>7. points' \subseteq points BY <1>1
<1>8. \A d \in D : \A c : d # e /\ <<d, c>> \in points => <<d, c>> \in points' BY <1>1
<1>9. slips' \in 0..Libraries[n].slips /\ (slips' = 0 => slips = 0) /\ slips <= slips'
  BY <1>0, <1>1, Slipped DEF LibraryRows
<1>10. LibraryRows(n)'
  <2>1. \A q \in Libraries[n].requests : deleter'[q].todo \subseteq deleter'[q].rows
    BY <1>0, <1>4, <1>5, <1>6 DEF LibraryRows
  <2>2. \A d \in D : queued'[d] <= Libraries[n].queued + slips'
    <3>1. Libraries[n].queued \in Nat BY JobsAssumption DEF JobsAssumption
    <3> QED BY <1>0, <1>1, <1>9, <3>1 DEF LibraryRows
  <2> QED BY <1>0, <1>1, <1>6, <1>7, <1>9, <2>1, <2>2 DEF LibraryRows
<1>11. Deleting(n, e)' /\ \A d : Deleting(n, d) => Deleting(n, d)'
  <2>1. \A q \in Libraries[n].requests : deleter[q].at # "idle" =>
          /\ deleter'[q].at # "idle"
          /\ deleter[q].rows \ deleter[q].todo \subseteq deleter'[q].rows \ deleter'[q].todo
    BY <1>4, <1>5, <1>6
  <2>2. deleter'[r].at # "idle" /\ e \in deleter'[r].rows \ deleter'[r].todo
    BY <1>4, <1>5, <1>6
  <2> QED BY <2>1, <2>2 DEF Deleting
<1>12. \A d \in D : \A m : HasChunks(n, d, m) => HasChunks(n, d, m)' \/ Deleting(n, d)'
  BY <1>1, <1>8, <1>11 DEF HasChunks, Library!Collection
<1>13. LibraryChunks(n)'
  <2>1. \A w \in Libraries[n].indexers : indexer[w].at = "mark" => indexer[w].doc \in D
    BY <1>0, LibraryTyped DEF IndexRows
  <2>2. \A d \in D : (Library(n)!Exists(d)' <=> Library(n)!Exists(d))
    BY <1>1 DEF Library!Exists
  <2> QED BY <1>1, <1>9, <1>11, <1>12, <2>1, <2>2 DEF LibraryInv, LibraryChunks
<1>14. LibraryWork(n)' /\ Library(n)!PlacesExist' /\ Library(n)!GoneStep
  BY <1>1 DEF LibraryInv, LibraryWork, Library!ProcessingIsWorked, Library!PlacesExist,
     Library!Exists, Library!Place, Library!GoneStep
<1> QED BY <1>10, <1>13, <1>14 DEF LibraryInv

\* The rows of a deletion go, with the folder; what was in the folder goes to the root.
LEMMA LibraryCommit ==
  ASSUME NEW n \in DOMAIN Libraries, LibraryInv(n), NEW r \in Libraries[n].requests,
         Library(n)!CommitDelete(r) \/ Library(n)!RollBackDelete(r)
  PROVE  LibraryInv(n)' /\ Library(n)!GoneStep
<1> DEFINE D == Libraries[n].docs
           F == Libraries[n].folders
           f == deleter[r].folder
           kept(d) == IF f # Library(n)!Absent /\ doc[d].folder = f
                      THEN [doc[d] EXCEPT !.folder = Library(n)!Root] ELSE doc[d]
           gone(d) == [kept(d) EXCEPT !.status = "gone", !.folder = Library(n)!Root]
<1>0. /\ LibraryRows(n) /\ \A d \in D : doc[d] \in DocRows(n)
      /\ deleter[r] \in DeleteRows(n)
      /\ \A w \in Libraries[n].indexers : indexer[w].at # "idle" => indexer[w].doc \in D
  BY LibraryTyped DEF LibraryInv, IndexRows
<1>1. Library(n)!DeleterIdle \in DeleteRows(n) /\ Library(n)!DeleterIdle.at = "idle"
      /\ Library(n)!DeleterIdle.todo = {} /\ Library(n)!DeleterIdle.rows = {}
  BY DEF Library!DeleterIdle, DeleteRows
<1>2. /\ UNCHANGED <<points, model, queued, indexer>>
      /\ deleter' = [deleter EXCEPT ![r] = Library(n)!DeleterIdle] /\ deleter[r].at = "commit"
  BY DEF Library!CommitDelete, Library!RollBackDelete
<1>3. /\ deleter' \in [Libraries[n].requests -> DeleteRows(n)]
      /\ \A q \in Libraries[n].requests : deleter'[q].todo \subseteq deleter'[q].rows
      /\ \A q \in Libraries[n].requests : q # r => deleter'[q] = deleter[q]
  BY <1>0, <1>1, <1>2 DEF LibraryRows
<1>4. CASE Library(n)!RollBackDelete(r)
  <2>1. UNCHANGED <<doc, parent>> BY <1>4 DEF Library!RollBackDelete
  <2>2. slips' \in 1..Libraries[n].slips /\ slips' = slips + 1
    BY <1>0, <1>4, Slipped DEF Library!RollBackDelete
  <2>3. LibraryRows(n)'
    <3>1. \A d \in D : queued'[d] <= Libraries[n].queued + slips'
      <4>1. Libraries[n].queued \in Nat BY JobsAssumption DEF JobsAssumption
      <4> QED BY <1>0, <1>2, <2>2, <4>1 DEF LibraryRows
    <3>2. slips' \in 0..Libraries[n].slips BY <2>2
    <3> QED BY <1>0, <1>2, <1>3, <2>1, <3>1, <3>2 DEF LibraryRows
  <2>4. LibraryChunks(n)'
    <3>1. slips' # 0 BY <2>2
    <3> QED BY <3>1 DEF LibraryChunks
  <2>5. LibraryWork(n)' /\ Library(n)!PlacesExist' /\ Library(n)!GoneStep
    BY <1>2, <2>1 DEF LibraryInv, LibraryWork, Library!ProcessingIsWorked, Library!PlacesExist,
       Library!Exists, Library!Place, Library!GoneStep
  <2> QED BY <2>3, <2>4, <2>5 DEF LibraryInv
<1>5. CASE Library(n)!CommitDelete(r)
  <2>1. /\ doc' = [d \in D |-> IF d \in deleter[r].rows THEN gone(d) ELSE kept(d)]
        /\ parent' = IF f = Library(n)!Absent THEN parent ELSE Library(n)!FolderGone(f)
        /\ UNCHANGED slips
    BY <1>5 DEF Library!CommitDelete
  <2>2. \A d \in D : /\ kept(d) \in DocRows(n) /\ kept(d).status = doc[d].status
                     /\ kept(d).model = doc[d].model
                     /\ kept(d).folder = IF f # Library(n)!Absent /\ doc[d].folder = f
                                         THEN Library(n)!Root ELSE doc[d].folder
    BY <1>0 DEF DocRows
  <2> HIDE DEF kept
  <2>3. \A d \in D : gone(d) \in DocRows(n) /\ gone(d).status = "gone"
    BY <2>2 DEF DocRows
  <2> HIDE DEF gone
  <2>4. doc' \in [D -> DocRows(n)] BY <2>1, <2>2, <2>3
  <2>5. \A d \in D : /\ doc'[d].status # "gone" =>
                          doc'[d].status = doc[d].status /\ doc'[d].model = doc[d].model
                          /\ d \notin deleter[r].rows /\ doc'[d].folder = kept(d).folder
                     /\ doc[d].status = "gone" => doc'[d].status = "gone"
    BY <2>1, <2>2, <2>3
  <2>6. parent' \in [F -> F \cup {Library(n)!Root, Library(n)!Absent}]
    BY <1>0, <2>1 DEF LibraryRows, Library!FolderGone
  <2>7. LibraryRows(n)' BY <1>0, <1>2, <1>3, <2>1, <2>4, <2>6 DEF LibraryRows
  <2>8. Library(n)!PlacesExist'
    <3>1. \A g \in F : parent[g] # Library(n)!Absent => parent[g] \in Library(n)!Place
      BY DEF LibraryInv, Library!PlacesExist
    <3>2. \A p \in Library(n)!Place : p # f => p \in Library(n)!Place'
      BY <1>0, <2>1 DEF Library!Place, Library!FolderGone, LibraryRows, Library!Root, Library!Absent
    <3>3. Library(n)!Root \in Library(n)!Place' BY DEF Library!Place
    <3>4. ASSUME NEW d \in D, Library(n)!Exists(d)' PROVE doc'[d].folder \in Library(n)!Place'
      <4>1. doc'[d].status \notin {"none", "gone"} BY <3>4 DEF Library!Exists
      <4>2. Library(n)!Exists(d) /\ doc'[d].folder = kept(d).folder
        BY <2>5, <4>1 DEF Library!Exists
      <4>3. doc[d].folder \in Library(n)!Place BY <4>2 DEF LibraryInv, Library!PlacesExist
      <4>4. CASE f = Library(n)!Absent
        <5>1. UNCHANGED parent BY <2>1, <4>4
        <5>2. doc'[d].folder = doc[d].folder BY <2>2, <4>2, <4>4
        <5> QED BY <4>3, <5>1, <5>2 DEF Library!Place
      <4>5. CASE f # Library(n)!Absent BY <2>2, <3>2, <3>3, <4>2, <4>3, <4>5
      <4> QED BY <4>4, <4>5
    <3>5. ASSUME NEW g \in F, parent'[g] # Library(n)!Absent PROVE parent'[g] \in Library(n)!Place'
      <4>1. CASE f = Library(n)!Absent
        <5>1. UNCHANGED parent BY <2>1, <4>1
        <5> QED BY <3>1, <3>5, <5>1 DEF Library!Place
      <4>2. CASE f # Library(n)!Absent
        <5>1. parent'[g] = IF g = f THEN Library(n)!Absent
                           ELSE IF parent[g] = f THEN Library(n)!Root ELSE parent[g]
          BY <2>1, <4>2 DEF Library!FolderGone
        <5> QED BY <3>1, <3>2, <3>3, <3>5, <5>1
      <4> QED BY <4>1, <4>2
    <3> QED BY <3>4, <3>5 DEF Library!PlacesExist
  <2>9. LibraryChunks(n)'
    <3> SUFFICES ASSUME slips' = 0
                 PROVE  /\ \A d \in D : doc'[d].status = "indexed" =>
                             \/ (doc[d].model \in Libraries[n].models /\ HasChunks(n, d, doc[d].model))'
                             \/ Deleting(n, d)'
                        /\ \A w \in Libraries[n].indexers : indexer'[w].at = "mark" =>
                             \/ ~Library(n)!Exists(indexer[w].doc)'
                             \/ HasChunks(n, indexer[w].doc, indexer[w].model)'
                             \/ Deleting(n, indexer[w].doc)'
      BY DEF LibraryChunks
    <3>1. \A d, m : HasChunks(n, d, m) => HasChunks(n, d, m)'
      BY <1>2 DEF HasChunks, Library!Collection
    <3>2. \A d \in D : Deleting(n, d) /\ d \notin deleter[r].rows => Deleting(n, d)'
      BY <1>3 DEF Deleting
    <3>3. ASSUME NEW d \in D, doc'[d].status = "indexed"
          PROVE  \/ (doc[d].model \in Libraries[n].models /\ HasChunks(n, d, doc[d].model))'
                 \/ Deleting(n, d)'
      <4>1. doc[d].status = "indexed" /\ d \notin deleter[r].rows BY <2>5, <3>3
      <4>2. PICK m : m = doc[d].model OBVIOUS
      <4>3. doc'[d].model = m BY <2>5, <3>3, <4>2
      <4>4. (m \in Libraries[n].models /\ HasChunks(n, d, m)) \/ Deleting(n, d)
        BY <2>1, <4>1, <4>2 DEF LibraryInv, LibraryChunks
      <4> QED BY <3>1, <3>2, <4>1, <4>3, <4>4
    <3>4. ASSUME NEW w \in Libraries[n].indexers, indexer'[w].at = "mark"
          PROVE  \/ ~Library(n)!Exists(indexer[w].doc)'
                 \/ HasChunks(n, indexer[w].doc, indexer[w].model)'
                 \/ Deleting(n, indexer[w].doc)'
      <4>1. PICK d, m : d = indexer[w].doc /\ m = indexer[w].model OBVIOUS
      <4>2. indexer[w].at = "mark" /\ indexer'[w].doc = d /\ indexer'[w].model = m /\ d \in D
        BY <1>0, <1>2, <3>4, <4>1
      <4>3. ~Library(n)!Exists(d) \/ HasChunks(n, d, m) \/ Deleting(n, d)
        BY <2>1, <4>1, <4>2 DEF LibraryInv, LibraryChunks
      <4>4. Library(n)!Exists(d)' => Library(n)!Exists(d) /\ d \notin deleter[r].rows
        BY <2>5, <4>2 DEF Library!Exists
      <4> QED BY <3>1, <3>2, <4>2, <4>3, <4>4
    <3> QED BY <3>3, <3>4
  <2>10. LibraryWork(n)'
    <3>1. \A d \in D : doc[d].status # "none" => doc'[d].status # "none" BY <2>5
    <3>2. \A d \in D : doc'[d].status = "processing" => doc[d].status = "processing" BY <2>5
    <3> QED BY <1>0, <1>2, <3>1, <3>2 DEF LibraryInv, LibraryWork, Library!ProcessingIsWorked
  <2>11. Library(n)!GoneStep BY <2>5 DEF Library!GoneStep
  <2> QED BY <2>7, <2>8, <2>9, <2>10, <2>11 DEF LibraryInv
<1> QED BY <1>4, <1>5

\* A task that is taken, done or given up.
LEMMA LibraryTask ==
  ASSUME NEW n \in DOMAIN Libraries, LibraryInv(n), NEW w \in Libraries[n].indexers,
         Library(n)!IndexerStep(w) \/ Library(n)!WorkerDies(w)
  PROVE  LibraryInv(n)' /\ Library(n)!GoneStep
<1> DEFINE D == Libraries[n].docs
           W == Libraries[n].indexers
           K == IndexRows(n) \cup {Library(n)!IndexerIdle}
           d0 == indexer[w].doc
<1>0. /\ LibraryRows(n) /\ \A d \in D : doc[d] \in DocRows(n)
      /\ \A v \in W : indexer[v].at # "idle" => indexer[v].doc \in D /\ indexer[v] \in IndexRows(n)
      /\ doc \in [D -> DocRows(n)] /\ indexer \in [W -> K] /\ queued \in [D -> Nat]
  BY LibraryTyped DEF LibraryInv, IndexRows, LibraryRows
<1>1. Library(n)!IndexerIdle \in K /\ Library(n)!IndexerIdle.at = "idle" BY DEF Library!IndexerIdle
<1>2. ASSUME NEW new \in K, indexer' = [indexer EXCEPT ![w] = new],
             new.at = "mark" => new.model \in Libraries[n].models
      PROVE  /\ indexer' \in [W -> K] /\ indexer'[w] = new
             /\ \A v \in W : v # w => indexer'[v] = indexer[v]
             /\ \A v \in W : indexer'[v].at = "mark" => indexer'[v].model \in Libraries[n].models
  BY <1>0, <1>2 DEF LibraryRows
<1> HIDE DEF K
\* A row gets another status and model; the task ends or begins.
<1>3. ASSUME NEW d \in D, NEW new \in DocRows(n), doc' = [doc EXCEPT ![d] = new],
             Library(n)!Exists(d), new.status \in {"processing", "indexed", "failed"},
             new.folder = doc[d].folder
      PROVE  /\ doc' \in [D -> DocRows(n)] /\ doc'[d] = new /\ \A e \in D : e # d => doc'[e] = doc[e]
             /\ \A e \in D : /\ Library(n)!Exists(e)' <=> Library(n)!Exists(e)
                             /\ doc'[e].status = "none" <=> doc[e].status = "none"
                             /\ doc'[e].folder = doc[e].folder
             /\ Library(n)!GoneStep
  <2>1. doc' \in [D -> DocRows(n)] /\ doc'[d] = new /\ \A e \in D : e # d => doc'[e] = doc[e]
    BY <1>0, <1>3
  <2>2. \A e \in D : /\ Library(n)!Exists(e)' <=> Library(n)!Exists(e)
                     /\ doc'[e].status = "none" <=> doc[e].status = "none"
                     /\ doc'[e].folder = doc[e].folder
    BY <1>3, <2>1 DEF Library!Exists
  <2>3. Library(n)!GoneStep BY <1>3, <2>1 DEF Library!GoneStep, Library!Exists
  <2> QED BY <2>1, <2>2, <2>3
<1>4. ASSUME \A e \in D : /\ Library(n)!Exists(e)' => Library(n)!Exists(e)
                          /\ doc'[e].folder = doc[e].folder,
             UNCHANGED parent
      PROVE  Library(n)!PlacesExist'
  BY <1>4 DEF LibraryInv, Library!PlacesExist, Library!Place
<1>5. ASSUME UNCHANGED doc
      PROVE  \A e \in D : /\ Library(n)!Exists(e)' <=> Library(n)!Exists(e)
                          /\ doc'[e].status = "none" <=> doc[e].status = "none"
                          /\ doc'[e].folder = doc[e].folder
  BY <1>5 DEF Library!Exists
<1>6. \A d, m : (points \subseteq points' => (HasChunks(n, d, m) => HasChunks(n, d, m)'))
  BY DEF HasChunks, Library!Collection
<1>7. ASSUME doc' \in [D -> DocRows(n)],
             \A e \in D : /\ Library(n)!Exists(e)' <=> Library(n)!Exists(e)
                          /\ doc'[e].status = "none" <=> doc[e].status = "none"
                          /\ doc'[e].folder = doc[e].folder,
             \A e \in D : (doc'[e].status = "indexed" /\ slips' = 0) =>
               \/ doc'[e].status = doc[e].status /\ doc'[e].model = doc[e].model
               \/ (doc[e].model \in Libraries[n].models /\ HasChunks(n, e, doc[e].model))'
               \/ Deleting(n, e),
             \A e \in D : doc'[e].status = "processing" =>
               queued'[e] > 0 \/ \E v \in W : indexer'[v].at # "idle" /\ indexer'[v].doc = e,
             NEW new \in K, indexer' = [indexer EXCEPT ![w] = new],
             new.at # "idle" => new.doc \in D /\ doc[new.doc].status # "none",
             new.at = "mark" => new.model \in Libraries[n].models,
             (new.at = "mark" /\ slips' = 0) => HasChunks(n, new.doc, new.model)',
             points \subseteq points', points' \subseteq D \X (Libraries[n].models \cup {"user"}),
             queued' \in [D -> Nat], slips' \in 0..Libraries[n].slips, slips' = 0 => slips = 0,
             \A e \in D : queued'[e] <= Libraries[n].queued + slips',
             UNCHANGED <<parent, model, deleter>>
      PROVE  LibraryInv(n)'
  <2>0. PICK one, two : one = new.doc /\ two = new.model OBVIOUS
  <2>1. /\ indexer' \in [W -> K] /\ indexer'[w] = new
        /\ \A v \in W : v # w => indexer'[v] = indexer[v]
        /\ \A v \in W : indexer'[v].at = "mark" => indexer'[v].model \in Libraries[n].models
    BY <1>2, <1>7
  <2>2. LibraryRows(n)' BY <1>0, <1>7, <2>1 DEF LibraryRows, K
  <2>3. Library(n)!PlacesExist' BY <1>4, <1>7
  <2>4. LibraryWork(n)'
    <3>1. \A v \in W : indexer'[v].at # "idle" => doc'[indexer'[v].doc].status # "none"
      BY <1>0, <1>7, <2>1 DEF LibraryInv, LibraryWork
    <3> QED BY <1>7, <3>1 DEF LibraryWork, Library!ProcessingIsWorked
  <2>5. \A e : Deleting(n, e) => Deleting(n, e)' BY <1>7 DEF Deleting
  <2>6. LibraryChunks(n)'
    <3> SUFFICES ASSUME slips' = 0
                 PROVE  /\ \A e \in D : doc'[e].status = "indexed" =>
                             \/ (doc[e].model \in Libraries[n].models /\ HasChunks(n, e, doc[e].model))'
                             \/ Deleting(n, e)'
                        /\ \A v \in W : indexer'[v].at = "mark" =>
                             \/ ~Library(n)!Exists(indexer[v].doc)'
                             \/ HasChunks(n, indexer[v].doc, indexer[v].model)'
                             \/ Deleting(n, indexer[v].doc)'
      BY DEF LibraryChunks
    <3>1. ASSUME NEW e \in D, doc'[e].status = "indexed"
          PROVE  \/ (doc[e].model \in Libraries[n].models /\ HasChunks(n, e, doc[e].model))'
                 \/ Deleting(n, e)'
      <4>1. CASE doc'[e].status = doc[e].status /\ doc'[e].model = doc[e].model
        <5>1. PICK m : m = doc[e].model OBVIOUS
        <5>2. (m \in Libraries[n].models /\ HasChunks(n, e, m)) \/ Deleting(n, e)
          BY <1>7, <3>1, <4>1, <5>1 DEF LibraryInv, LibraryChunks
        <5>3. doc'[e].model = m BY <4>1, <5>1
        <5> QED BY <1>6, <1>7, <2>5, <5>2, <5>3
      <4>2. CASE ~(doc'[e].status = doc[e].status /\ doc'[e].model = doc[e].model)
        BY <1>7, <2>5, <3>1, <4>2
      <4> QED BY <4>1, <4>2
    <3>2. ASSUME NEW v \in W, indexer'[v].at = "mark"
          PROVE  \/ ~Library(n)!Exists(indexer[v].doc)'
                 \/ HasChunks(n, indexer[v].doc, indexer[v].model)'
                 \/ Deleting(n, indexer[v].doc)'
      <4>1. CASE v = w BY <1>7, <2>0, <2>1, <3>2, <4>1
      <4>2. CASE v # w
        <5>1. PICK d, m : d = indexer[v].doc /\ m = indexer[v].model OBVIOUS
        <5>2. indexer[v].at = "mark" /\ indexer'[v].doc = d /\ indexer'[v].model = m /\ d \in D
          BY <1>0, <2>1, <3>2, <4>2, <5>1
        <5>3. ~Library(n)!Exists(d) \/ HasChunks(n, d, m) \/ Deleting(n, d)
          BY <1>7, <5>1, <5>2 DEF LibraryInv, LibraryChunks
        <5> QED BY <1>6, <1>7, <2>5, <5>2, <5>3
      <4> QED BY <4>1, <4>2
    <3> QED BY <3>1, <3>2
  <2> QED BY <2>2, <2>3, <2>4, <2>6 DEF LibraryInv
<1>8. \A e \in D : doc[e].status = "processing" =>
        queued[e] > 0 \/ \E v \in W : indexer[v].at # "idle" /\ indexer[v].doc = e
  BY DEF LibraryInv, LibraryWork, Library!ProcessingIsWorked
<1>9. /\ Libraries[n].queued \in Nat /\ \A e \in D : queued[e] <= Libraries[n].queued + slips
      /\ slips \in 0..Libraries[n].slips /\ points \subseteq D \X (Libraries[n].models \cup {"user"})
      /\ model \in Libraries[n].models
  BY <1>0, JobsAssumption DEF LibraryRows, JobsAssumption
<1>10. PICK idle : idle = Library(n)!IndexerIdle OBVIOUS
<1>11. ASSUME NEW d \in D, Library(n)!TakeTask(w, d) PROVE LibraryInv(n)' /\ Library(n)!GoneStep
  <2>1. /\ queued' = [queued EXCEPT ![d] = @ - 1] /\ queued[d] > 0 /\ indexer[w].at = "idle"
        /\ UNCHANGED <<parent, points, model, deleter, slips>>
    BY <1>11 DEF Library!TakeTask
  <2>2. /\ queued' \in [D -> Nat] /\ \A e \in D : queued'[e] <= Libraries[n].queued + slips'
        /\ \A e \in D : e # d => queued'[e] = queued[e]
    BY <1>0, <1>9, <2>1
  <2>3. CASE Library(n)!Exists(d)
    <3> DEFINE row1 == [doc[d] EXCEPT !.status = "processing"]
    <3>1. PICK new : new = [at |-> "work", doc |-> d, model |-> Library(n)!NoModel] OBVIOUS
    <3>2. new \in K /\ new.at = "work" /\ new.doc = d BY <3>1 DEF IndexRows, K
    <3>3. indexer' = [indexer EXCEPT ![w] = new] /\ doc' = [doc EXCEPT ![d] = row1]
      BY <1>11, <2>3, <3>1 DEF Library!TakeTask
    <3>4. /\ row1 \in DocRows(n) /\ row1.status = "processing" /\ row1.folder = doc[d].folder
      BY <1>0 DEF DocRows
    <3> HIDE DEF row1
    <3>5. /\ doc' \in [D -> DocRows(n)] /\ doc'[d] = row1 /\ \A e \in D : e # d => doc'[e] = doc[e]
          /\ \A e \in D : /\ Library(n)!Exists(e)' <=> Library(n)!Exists(e)
                          /\ doc'[e].status = "none" <=> doc[e].status = "none"
                          /\ doc'[e].folder = doc[e].folder
          /\ Library(n)!GoneStep
      <4>1. PICK r1 : r1 = row1 OBVIOUS
      <4> QED BY <1>3, <2>3, <3>3, <3>4, <4>1
    <3>6. indexer'[w] = new /\ \A v \in W : v # w => indexer'[v] = indexer[v]
      BY <1>2, <3>2, <3>3
    <3>7. \A e \in D : doc'[e].status = "processing" =>
            queued'[e] > 0 \/ \E v \in W : indexer'[v].at # "idle" /\ indexer'[v].doc = e
      <4> SUFFICES ASSUME NEW e \in D, doc'[e].status = "processing"
                   PROVE  queued'[e] > 0 \/ \E v \in W : indexer'[v].at # "idle" /\ indexer'[v].doc = e
        OBVIOUS
      <4>1. CASE e = d BY <3>2, <3>6, <4>1
      <4>2. CASE e # d BY <1>8, <2>1, <2>2, <3>5, <3>6, <4>2
      <4> QED BY <4>1, <4>2
    <3>8. \A e \in D : (doc'[e].status = "indexed" /\ slips' = 0) =>
            doc'[e].status = doc[e].status /\ doc'[e].model = doc[e].model
      BY <3>4, <3>5
    <3>9. doc[d].status # "none" BY <2>3 DEF Library!Exists
    <3>10. LibraryInv(n)' BY <1>7, <1>9, <2>1, <2>2, <3>2, <3>3, <3>5, <3>7, <3>8, <3>9
    <3> QED BY <3>5, <3>10
  <2>4. CASE ~Library(n)!Exists(d)
    <3>1. UNCHANGED <<doc, indexer>> BY <1>11, <2>4 DEF Library!TakeTask
    <3>2. PICK new : new = indexer[w] OBVIOUS
    <3>3. new \in K /\ new.at = "idle" /\ indexer' = [indexer EXCEPT ![w] = new]
      BY <1>0, <2>1, <3>1, <3>2
    <3>4. \A e \in D : doc'[e].status = "processing" =>
            queued'[e] > 0 \/ \E v \in W : indexer'[v].at # "idle" /\ indexer'[v].doc = e
      <4>1. doc[d].status # "processing" BY <2>4 DEF Library!Exists
      <4> QED BY <1>8, <2>2, <3>1, <4>1
    <3>5. LibraryInv(n)' BY <1>0, <1>5, <1>7, <1>9, <2>1, <2>2, <3>1, <3>3, <3>4
    <3> QED BY <3>1, <3>5 DEF Library!GoneStep
  <2> QED BY <2>3, <2>4
\* The end of a task: its row, if it is there, is failed or indexed.
<1>12. ASSUME indexer[w].at # "idle", indexer' = [indexer EXCEPT ![w] = idle],
              NEW row1 \in DocRows(n), row1.status \in {"failed", "indexed"},
              row1.folder = doc[d0].folder,
              doc' = IF Library(n)!Exists(d0) THEN [doc EXCEPT ![d0] = row1] ELSE doc,
              (row1.status = "indexed" /\ slips = 0 /\ Library(n)!Exists(d0)) =>
                \/ row1.model \in Libraries[n].models /\ HasChunks(n, d0, row1.model)
                \/ Deleting(n, d0),
              UNCHANGED <<parent, points, model, queued, deleter, slips>>
       PROVE  LibraryInv(n)' /\ Library(n)!GoneStep
  <2>0. d0 \in D /\ idle \in K /\ idle.at = "idle" BY <1>0, <1>1, <1>10, <1>12
  <2>1. /\ doc' \in [D -> DocRows(n)] /\ \A e \in D : e # d0 => doc'[e] = doc[e]
        /\ Library(n)!Exists(d0) => doc'[d0] = row1
        /\ ~Library(n)!Exists(d0) => UNCHANGED doc
        /\ \A e \in D : /\ Library(n)!Exists(e)' <=> Library(n)!Exists(e)
                        /\ doc'[e].status = "none" <=> doc[e].status = "none"
                        /\ doc'[e].folder = doc[e].folder
        /\ Library(n)!GoneStep
    <3>1. CASE Library(n)!Exists(d0)
      <4>1. PICK d : d = d0 OBVIOUS
      <4> QED BY <1>3, <1>12, <2>0, <3>1, <4>1
    <3>2. CASE ~Library(n)!Exists(d0)
      <4>1. UNCHANGED doc BY <1>12, <3>2
      <4> QED BY <1>0, <1>5, <3>2, <4>1 DEF Library!GoneStep
    <3> QED BY <3>1, <3>2
  <2>2. indexer'[w] = idle /\ \A v \in W : v # w => indexer'[v] = indexer[v]
    BY <1>2, <1>12, <2>0
  <2>3. \A e \in D : doc'[e].status = "processing" =>
          queued'[e] > 0 \/ \E v \in W : indexer'[v].at # "idle" /\ indexer'[v].doc = e
    <3> SUFFICES ASSUME NEW e \in D, doc'[e].status = "processing"
                 PROVE  queued'[e] > 0 \/ \E v \in W : indexer'[v].at # "idle" /\ indexer'[v].doc = e
      OBVIOUS
    <3>1. e # d0
      <4>1. doc[d0].status = "processing" => Library(n)!Exists(d0) BY DEF Library!Exists
      <4> QED BY <1>12, <2>1, <4>1
    <3> QED BY <1>8, <1>12, <2>1, <2>2, <3>1
  <2>4. \A e \in D : (doc'[e].status = "indexed" /\ slips' = 0) =>
          \/ doc'[e].status = doc[e].status /\ doc'[e].model = doc[e].model
          \/ (doc[e].model \in Libraries[n].models /\ HasChunks(n, e, doc[e].model))'
          \/ Deleting(n, e)
    <3> SUFFICES ASSUME NEW e \in D, doc'[e].status = "indexed", slips' = 0
                 PROVE  \/ doc'[e].status = doc[e].status /\ doc'[e].model = doc[e].model
                        \/ (doc[e].model \in Libraries[n].models /\ HasChunks(n, e, doc[e].model))'
                        \/ Deleting(n, e)
      OBVIOUS
    <3>1. CASE e = d0 /\ Library(n)!Exists(d0)
      <4>1. PICK m : m = row1.model OBVIOUS
      <4>2. doc'[e].model = m BY <2>1, <3>1, <4>1
      <4> QED BY <1>6, <1>12, <2>1, <3>1, <4>1, <4>2
    <3>2. CASE ~(e = d0 /\ Library(n)!Exists(d0)) BY <2>1, <3>2
    <3> QED BY <3>1, <3>2
  <2>5. LibraryInv(n)' BY <1>0, <1>7, <1>9, <1>12, <2>0, <2>1, <2>3, <2>4
  <2> QED BY <2>1, <2>5
<1>13. CASE Library(n)!MarkFailed(w)
  <2>1. PICK row1 : row1 = [doc[d0] EXCEPT !.status = "failed"] OBVIOUS
  <2>2. indexer[w].at = "work" BY <1>13 DEF Library!MarkFailed
  <2>3. doc[d0] \in DocRows(n) BY <1>0, <2>2
  <2>4. row1 \in DocRows(n) /\ row1.status = "failed" /\ row1.folder = doc[d0].folder
    BY <2>1, <2>3 DEF DocRows
  <2> QED BY <1>10, <1>12, <1>13, <2>1, <2>2, <2>4 DEF Library!MarkFailed
<1>14. CASE Library(n)!MarkIndexed(w)
  <2>1. PICK row1 : row1 = [doc[d0] EXCEPT !.status = "indexed", !.model = indexer[w].model] OBVIOUS
  <2>2. indexer[w].at = "mark" BY <1>14 DEF Library!MarkIndexed
  <2>3. doc[d0] \in DocRows(n) /\ indexer[w].model \in Libraries[n].models
    BY <1>0, <2>2 DEF LibraryRows
  <2>4. /\ row1 \in DocRows(n) /\ row1.status = "indexed" /\ row1.folder = doc[d0].folder
        /\ row1.model = indexer[w].model
    BY <2>1, <2>3 DEF DocRows
  <2>5. doc' = IF Library(n)!Exists(d0) THEN [doc EXCEPT ![d0] = row1] ELSE doc
    <3>1. doc' = IF Library(n)!Exists(d0)
                 THEN [doc EXCEPT ![d0].status = "indexed", ![d0].model = indexer[w].model] ELSE doc
      BY <1>14 DEF Library!MarkIndexed
    <3> QED BY <1>0, <2>1, <2>2, <3>1
  <2>6. (slips = 0 /\ Library(n)!Exists(d0)) =>
          HasChunks(n, d0, indexer[w].model) \/ Deleting(n, d0)
    BY <2>2 DEF LibraryInv, LibraryChunks
  <2> QED BY <1>10, <1>12, <1>14, <2>2, <2>3, <2>4, <2>5, <2>6 DEF Library!MarkIndexed
<1>15. CASE Library(n)!Upsert(w)
  <2>1. PICK new : new = [indexer[w] EXCEPT !.at = "mark", !.model = model] OBVIOUS
  <2>2. /\ indexer[w].at = "work" /\ points' = points \cup ({d0} \X Library(n)!Collection(model))
        /\ UNCHANGED <<doc, parent, model, queued, deleter, slips>>
    BY <1>15 DEF Library!Upsert
  <2>3. indexer[w] \in IndexRows(n) BY <1>0, <2>2
  <2>4. /\ new \in K /\ new.at = "mark" /\ new.doc = d0 /\ new.model = model
    BY <1>9, <2>1, <2>3 DEF IndexRows, K
  <2>5. indexer' = [indexer EXCEPT ![w] = new]
    <3>1. indexer' = [indexer EXCEPT ![w].at = "mark", ![w].model = model]
      BY <1>15 DEF Library!Upsert
    <3> QED BY <1>0, <2>1, <3>1
  <2>6. indexer'[w] = new /\ \A v \in W : v # w => indexer'[v] = indexer[v]
    <3>1. new.model \in Libraries[n].models BY <1>9, <2>4
    <3> QED BY <1>2, <2>4, <2>5, <3>1
  <2>7. Library(n)!Collection(model) \subseteq Libraries[n].models \cup {"user"}
        /\ \E c \in Library(n)!Collection(model) : TRUE
    <3>1. "no model" \notin Libraries[n].models BY JobsAssumption DEF JobsAssumption
    <3>2. model \in Libraries[n].models /\ model # "no model" BY <1>9, <3>1
    <3>3. CASE Libraries[n].sharded
      <4>1. Library(n)!Collection(model) = {model}
        BY <3>2, <3>3 DEF Library!Collection, Library!NoModel
      <4> QED BY <3>2, <4>1
    <3>4. CASE ~Libraries[n].sharded
      <4>1. Library(n)!Collection(model) = {"user"} BY <3>4 DEF Library!Collection
      <4> QED BY <4>1
    <3> QED BY <3>3, <3>4
  <2>8. points \subseteq points' /\ points' \subseteq D \X (Libraries[n].models \cup {"user"})
    BY <1>0, <1>9, <2>2, <2>7
  <2>9. HasChunks(n, new.doc, new.model)'
    <3>1. new.model = model BY <2>4
    <3>2. PICK c : c \in Library(n)!Collection(model) BY <2>7
    <3>3. <<new.doc, c>> \in points' BY <2>2, <2>4, <3>2
    <3>4. c \in Library(n)!Collection(new.model)' BY <3>1, <3>2 DEF Library!Collection
    <3> QED BY <3>3, <3>4 DEF HasChunks
  <2>10. \A e \in D : doc'[e].status = "processing" =>
           queued'[e] > 0 \/ \E v \in W : indexer'[v].at # "idle" /\ indexer'[v].doc = e
    BY <1>8, <2>2, <2>4, <2>6
  <2>11. new.doc \in D /\ doc[new.doc].status # "none"
    BY <1>0, <2>2, <2>4 DEF LibraryInv, LibraryWork
  <2>12. LibraryInv(n)'
    BY <1>0, <1>5, <1>7, <1>9, <2>2, <2>4, <2>5, <2>8, <2>9, <2>10, <2>11
  <2> QED BY <2>2, <2>12 DEF Library!GoneStep
<1>16. CASE Library(n)!WorkerDies(w)
  <2>1. /\ indexer[w].at # "idle" /\ queued' = [queued EXCEPT ![d0] = @ + 1]
        /\ indexer' = [indexer EXCEPT ![w] = idle]
        /\ UNCHANGED <<doc, parent, points, model, deleter>>
    BY <1>10, <1>16 DEF Library!WorkerDies
  <2>2. slips' \in 1..Libraries[n].slips /\ slips' = slips + 1
    BY <1>0, <1>16, Slipped DEF Library!WorkerDies
  <2>3. d0 \in D /\ idle \in K /\ idle.at = "idle" BY <1>0, <1>1, <1>10, <2>1
  <2>4. /\ queued' \in [D -> Nat] /\ \A e \in D : queued'[e] <= Libraries[n].queued + slips'
        /\ queued'[d0] > 0 /\ \A e \in D : queued[e] <= queued'[e]
    BY <1>0, <1>9, <2>1, <2>2, <2>3
  <2>5. indexer'[w] = idle /\ \A v \in W : v # w => indexer'[v] = indexer[v]
    BY <1>2, <2>1, <2>3
  <2>6. \A e \in D : doc'[e].status = "processing" =>
          queued'[e] > 0 \/ \E v \in W : indexer'[v].at # "idle" /\ indexer'[v].doc = e
    <3> SUFFICES ASSUME NEW e \in D, doc'[e].status = "processing"
                 PROVE  queued'[e] > 0 \/ \E v \in W : indexer'[v].at # "idle" /\ indexer'[v].doc = e
      OBVIOUS
    <3>1. queued[e] > 0 => queued'[e] > 0 BY <1>0, <2>4
    <3> QED BY <1>8, <2>1, <2>4, <2>5, <3>1
  <2>7. slips' \in 0..Libraries[n].slips /\ slips' # 0 BY <2>2
  <2>8. LibraryInv(n)' BY <1>0, <1>5, <1>7, <1>9, <2>1, <2>3, <2>4, <2>6, <2>7
  <2> QED BY <2>1, <2>8 DEF Library!GoneStep
<1> QED BY <1>11, <1>13, <1>14, <1>15, <1>16 DEF Library!IndexerStep

\* Every step of the library keeps the invariant, and revives nothing.
LEMMA LibraryStep ==
  ASSUME NEW n \in DOMAIN Libraries, LibraryInv(n), Library(n)!Next
  PROVE  LibraryInv(n)' /\ Library(n)!GoneStep
BY LibraryUser, LibraryDeletion, LibraryVectors, LibraryCommit, LibraryTask DEF Library!Next

\* What the library promises.
LEMMA LibraryPromise ==
  ASSUME NEW n \in DOMAIN Libraries, LibraryInv(n)
  PROVE  /\ Library(n)!TypeOK /\ Library(n)!PlacesExist
         /\ Library(n)!IndexedHasChunks /\ Library(n)!ProcessingIsWorked
<1> DEFINE D == Libraries[n].docs
<1>1. Libraries[n].queued \in Nat /\ Libraries[n].slips \in Nat BY JobsAssumption DEF JobsAssumption
<1>2. \A d \in D : queued[d] \in 0..(Libraries[n].queued + Libraries[n].slips)
  BY <1>1 DEF LibraryInv, LibraryRows
<1>3. Library(n)!TypeOK
  BY <1>2, LibraryTyped DEF LibraryInv, LibraryRows, DocRows, Library!TypeOK
<1>4. Library(n)!IndexedHasChunks
  <2> SUFFICES ASSUME slips = 0, NEW d \in D, doc[d].status = "indexed",
                      doc[d].model \in Libraries[n].models, HasChunks(n, d, doc[d].model)
               PROVE  Library(n)!Chunks(d) # {}
    BY DEF Library!IndexedHasChunks, LibraryInv, LibraryChunks, Deleting
  <2>1. PICK c \in Library(n)!Collection(doc[d].model) : <<d, c>> \in points BY DEF HasChunks
  <2>2. c \in Libraries[n].models \cup {"user"} BY <2>1 DEF Library!Collection
  <2> QED BY <2>1, <2>2 DEF Library!Chunks
<1> QED BY <1>3, <1>4 DEF LibraryInv, LibraryWork

-----------------------------------------------------------------------------
(* Skills: what lets a submission of the market in. *)

\* Healers, dry runs and index tasks, and what they hold.
WorkerRows(n) ==
  {Registry(n)!Idle}
    \cup [pc : {"running"}, skill : Registry(n)!Ids, allow : BOOLEAN, seen : Registry(n)!Manifests]
    \cup [pc : {"healing"}, skill : Registry(n)!Ids, seen : Registry(n)!Manifests]
    \cup [pc : {"syncing"}, skill : Registry(n)!Ids, status : Registry(n)!Statuses \cup {"none"}]
SkillRows(n) == [status : Registry(n)!Statuses \cup {"none"}, code : 0..Registries[n].code,
                 manifest : Registry(n)!Manifests]

\* A worker's copy of a manifest came by the same channel as the row, unless the row was
\* written anew meanwhile.
RegistryInv(n) ==
  /\ row \in [Registry(n)!Ids -> SkillRows(n)]
  /\ worker \in [Registries[n].workers -> WorkerRows(n)]
  /\ skillPoints \in [Registry(n)!PointIds -> Registry(n)!Statuses \cup {"none"}]
  /\ syncs \subseteq Registry(n)!Ids
  /\ letIn \subseteq Registry(n)!Ids /\ rewritten \subseteq Registry(n)!Ids
  /\ \A w \in Registries[n].workers :
       (worker[w].pc \in {"running", "healing"} /\ worker[w].skill \notin rewritten) =>
         worker[w].seen.channel = row[worker[w].skill].manifest.channel
  /\ Registry(n)!MarketNeedsApproval

\* A manifest with its metrics or its history written anew keeps its channel.
LEMMA ManifestKept ==
  ASSUME NEW n \in DOMAIN Registries, NEW m \in Registry(n)!Manifests
  PROVE  /\ \A k \in Nat : /\ Registry(n)!MergeMetrics(m, k) \in Registry(n)!Manifests
                           /\ Registry(n)!MergeMetrics(m, k).channel = m.channel
         /\ Registry(n)!Healed(m) \in Registry(n)!Manifests
         /\ Registry(n)!Healed(m).channel = m.channel
         /\ m.fails \in Nat /\ m.of \in 0..Registries[n].code
<1>1. Registries[n].code \in Nat /\ Registries[n].heals \in Nat /\ Registries[n].fails \in Nat
  BY JobsAssumption DEF JobsAssumption
<1>2. ASSUME NEW k \in Nat
      PROVE  /\ Registry(n)!MergeMetrics(m, k) \in Registry(n)!Manifests
             /\ Registry(n)!MergeMetrics(m, k).channel = m.channel
  <2>1. PICK f : f = Registry(n)!Cap(k, Registries[n].fails + 1) OBVIOUS
  <2>2. f \in 0..Registries[n].fails + 1 BY <1>1, <2>1 DEF Registry!Cap
  <2>3. 0 \in 0..Registries[n].heals + 1 BY <1>1
  <2>4. Registry(n)!MergeMetrics(m, k) = [m EXCEPT !.fails = f, !.heals = 0]
    BY <2>1 DEF Registry!MergeMetrics
  <2> QED BY <2>2, <2>3, <2>4 DEF Registry!Manifests
<1>3. /\ Registry(n)!Healed(m) \in Registry(n)!Manifests
      /\ Registry(n)!Healed(m).channel = m.channel
  <2>1. PICK h : h = Registry(n)!Cap(m.heals + 1, Registries[n].heals + 1) OBVIOUS
  <2>2. m.heals \in Nat BY <1>1 DEF Registry!Manifests
  <2>3. h \in 0..Registries[n].heals + 1 BY <1>1, <2>1, <2>2 DEF Registry!Cap
  <2>4. Registry(n)!Healed(m) = [m EXCEPT !.heals = h] BY <2>1 DEF Registry!Healed
  <2> QED BY <2>3, <2>4 DEF Registry!Manifests
<1>4. m.fails \in Nat /\ m.of \in 0..Registries[n].code BY <1>1 DEF Registry!Manifests
<1> QED BY <1>2, <1>3, <1>4

\* A manifest written from nothing is of the channel that writes it.
LEMMA ManifestNew ==
  ASSUME NEW n \in DOMAIN Registries, NEW c \in 0..Registries[n].code, NEW ch \in Registry(n)!Channels
  PROVE  /\ Registry(n)!NewManifest(c, ch) \in Registry(n)!Manifests
         /\ Registry(n)!NewManifest(c, ch).channel = ch
<1>1. Registries[n].heals \in Nat /\ Registries[n].fails \in Nat
  BY JobsAssumption DEF JobsAssumption
<1> QED BY <1>1 DEF Registry!NewManifest, Registry!Manifests

\* Nothing is registered to begin with.
LEMMA RegistryInit == ASSUME NEW n \in DOMAIN Registries, Registry(n)!Init PROVE RegistryInv(n)
<1>1. Registry(n)!NoRow \in SkillRows(n) /\ Registry(n)!NoRow.status = "none"
  <2>1. 0 \in 0..Registries[n].code
    <3>1. Registries[n].code \in Nat BY JobsAssumption DEF JobsAssumption
    <3> QED BY <3>1
  <2>2. "direct" \in Registry(n)!Channels BY DEF Registry!Channels
  <2> QED BY <2>1, <2>2, ManifestNew DEF Registry!NoRow, SkillRows
<1>2. Registry(n)!Idle \in WorkerRows(n) /\ Registry(n)!Idle.pc = "idle"
  BY DEF WorkerRows, Registry!Idle
<1>3. /\ row \in [Registry(n)!Ids -> SkillRows(n)] /\ \A s \in Registry(n)!Ids : row[s].status = "none"
      /\ worker \in [Registries[n].workers -> WorkerRows(n)]
      /\ \A w \in Registries[n].workers : worker[w].pc = "idle"
  BY <1>1, <1>2 DEF Registry!Init
<1>4. /\ skillPoints \in [Registry(n)!PointIds -> Registry(n)!Statuses \cup {"none"}]
      /\ syncs \subseteq Registry(n)!Ids
      /\ letIn \subseteq Registry(n)!Ids /\ rewritten \subseteq Registry(n)!Ids
  BY DEF Registry!Init
<1>5. Registry(n)!MarketNeedsApproval
  BY <1>3 DEF Registry!MarketNeedsApproval, Registry!IsMarketSubmission, Registry!Ids
<1> QED BY <1>3, <1>4, <1>5 DEF RegistryInv

\* What a worker holds.
LEMMA WorkerTyped ==
  ASSUME NEW n \in DOMAIN Registries, NEW k \in WorkerRows(n)
  PROVE  /\ k.pc \in {"idle", "running", "healing", "syncing"}
         /\ k.pc # "idle" => k.skill \in Registry(n)!Ids
         /\ k.pc \in {"running", "healing"} => k.seen \in Registry(n)!Manifests
         /\ k.pc = "syncing" => k.status \in Registry(n)!Statuses \cup {"none"}
BY DEF WorkerRows, Registry!Idle

\* One row is written, and a worker begins or ends.
LEMMA RegistryMove ==
  ASSUME NEW n \in DOMAIN Registries, RegistryInv(n), NEW s \in Registry(n)!Ids,
         NEW r \in SkillRows(n), row' = [row EXCEPT ![s] = r],
         worker' \in [Registries[n].workers -> WorkerRows(n)],
         \A v \in Registries[n].workers :
           \/ worker'[v] = worker[v]
           \/ worker'[v].pc \in {"running", "healing"} =>
                worker'[v].skill = s /\ worker'[v].seen.channel = r.manifest.channel,
         skillPoints' \in [Registry(n)!PointIds -> Registry(n)!Statuses \cup {"none"}],
         syncs' \subseteq Registry(n)!Ids,
         letIn' \subseteq Registry(n)!Ids, letIn \ {s} \subseteq letIn',
         rewritten' \subseteq Registry(n)!Ids, rewritten \subseteq rewritten',
         \/ r.manifest.channel = row[s].manifest.channel
         \/ s \in rewritten' \/ ~Registry(n)!Held(s),
         (s \notin rewritten' /\ s \in Registries[n].skills /\ r.status = "active"
            /\ r.manifest.channel = "plugin_market") => s \in letIn'
  PROVE  RegistryInv(n)'
<1> DEFINE W == Registries[n].workers
<1>1. /\ row' \in [Registry(n)!Ids -> SkillRows(n)] /\ row'[s] = r
      /\ \A t \in Registry(n)!Ids : t # s => row'[t] = row[t]
  BY DEF RegistryInv
<1>2. ASSUME NEW w \in W, worker'[w].pc \in {"running", "healing"}, worker'[w].skill \notin rewritten'
      PROVE  worker'[w].seen.channel = row'[worker'[w].skill].manifest.channel
  <2>1. CASE worker'[w] = worker[w]
    <3>1. PICK k : k = worker[w] OBVIOUS
    <3>2. k \in WorkerRows(n) BY <3>1 DEF RegistryInv
    <3>3. k.skill \in Registry(n)!Ids BY <1>2, <2>1, <3>1, <3>2, WorkerTyped
    <3>4. k.seen.channel = row[k.skill].manifest.channel
      BY <1>2, <2>1, <3>1 DEF RegistryInv
    <3>5. CASE k.skill = s
      <4>1. Registry(n)!Held(s) BY <1>2, <2>1, <3>1, <3>5 DEF Registry!Held
      <4> QED BY <1>1, <1>2, <2>1, <3>1, <3>4, <3>5, <4>1
    <3>6. CASE k.skill # s BY <1>1, <2>1, <3>1, <3>3, <3>4, <3>6
    <3> QED BY <3>5, <3>6
  <2>2. CASE worker'[w] # worker[w] BY <1>1, <1>2, <2>2
  <2> QED BY <2>1, <2>2
<1>3. Registry(n)!MarketNeedsApproval'
  <2> SUFFICES ASSUME NEW t \in Registries[n].skills \ rewritten', row'[t].status = "active",
                      row'[t].manifest.channel = "plugin_market"
               PROVE  t \in letIn'
    BY DEF Registry!MarketNeedsApproval, Registry!IsMarketSubmission, Registry!RequiresApproval
  <2>1. CASE t = s BY <1>1, <2>1
  <2>2. CASE t # s
    <3>1. t \in Registry(n)!Ids BY DEF Registry!Ids
    <3>2. row'[t] = row[t] BY <1>1, <2>2, <3>1
    <3>3. t \in letIn
      BY <3>2 DEF RegistryInv, Registry!MarketNeedsApproval, Registry!IsMarketSubmission,
         Registry!RequiresApproval
    <3> QED BY <2>2, <3>3
  <2> QED BY <2>1, <2>2
<1> QED BY <1>1, <1>2, <1>3 DEF RegistryInv

\* Ingestion, review, the administrator's console and feedback write one row.
LEMMA RegistryReview ==
  ASSUME NEW n \in DOMAIN Registries, RegistryInv(n),
         \/ \E s \in Registries[n].skills, by \in Registry(n)!Channels :
              Registry(n)!IngestRepo(s, by)
         \/ \E s \in Registries[n].skills : Registry(n)!ApproveReview(s) \/ Registry(n)!RejectReview(s)
         \/ \E s \in Registry(n)!Ids : \/ Registry(n)!UpdateSkill(s, "active")
                                      \/ Registry(n)!UpdateSkill(s, "disabled")
                                      \/ Registry(n)!RecordFailure(s)
  PROVE  RegistryInv(n)'
<1> DEFINE I == Registry(n)!Ids
<1>0. /\ worker \in [Registries[n].workers -> WorkerRows(n)]
      /\ skillPoints \in [Registry(n)!PointIds -> Registry(n)!Statuses \cup {"none"}]
      /\ syncs \subseteq I /\ letIn \subseteq I /\ rewritten \subseteq I
      /\ Registries[n].skills \subseteq I
      /\ \A s \in I : /\ row[s] \in SkillRows(n) /\ row[s].status \in Registry(n)!Statuses \cup {"none"}
                      /\ row[s].code \in 0..Registries[n].code
                      /\ row[s].manifest \in Registry(n)!Manifests
  BY DEF RegistryInv, Registry!Ids, SkillRows
<1>1. ASSUME NEW s \in I, NEW x \in Registry(n)!Statuses
      PROVE  /\ [row[s] EXCEPT !.status = x] \in SkillRows(n)
             /\ [row[s] EXCEPT !.status = x].status = x
             /\ [row[s] EXCEPT !.status = x].manifest = row[s].manifest
  BY <1>0 DEF SkillRows
<1>2. ASSUME NEW s \in I, NEW x \in Registry(n)!Statuses,
             row' = [row EXCEPT ![s].status = x], UNCHANGED <<worker, rewritten>>,
             skillPoints' \in [Registry(n)!PointIds -> Registry(n)!Statuses \cup {"none"}],
             syncs' \subseteq I, letIn' \subseteq I, letIn \subseteq letIn',
             x = "active" => s \in letIn'
      PROVE  RegistryInv(n)'
  <2>1. PICK r : r = [row[s] EXCEPT !.status = x] OBVIOUS
  <2>2. r \in SkillRows(n) /\ r.status = x /\ r.manifest = row[s].manifest BY <1>1, <2>1
  <2>3. row' = [row EXCEPT ![s] = r] BY <1>2, <2>1
  <2> QED BY <1>0, <1>2, <2>2, <2>3, RegistryMove
<1>3. ASSUME NEW s \in Registries[n].skills, NEW by \in Registry(n)!Channels,
             Registry(n)!IngestRepo(s, by)
      PROVE  RegistryInv(n)'
  <2>1. PICK code : code = row[s].code + 1 OBVIOUS
  <2>2. PICK m : m = Registry(n)!NewManifest(code, by) OBVIOUS
  <2>3. PICK r : r = [status |-> IF by = "plugin_market" THEN "needs_review" ELSE "draft",
                      code |-> code, manifest |-> m]
    OBVIOUS
  <2>4. code \in 0..Registries[n].code
    <3>1. Registries[n].code \in Nat BY JobsAssumption DEF JobsAssumption
    <3> QED BY <1>0, <1>3, <2>1, <3>1 DEF Registry!IngestRepo
  <2>5. m \in Registry(n)!Manifests /\ m.channel = by BY <2>2, <2>4, ManifestNew
  <2>6. r \in SkillRows(n) /\ r.status # "active" /\ r.manifest = m
    BY <2>3, <2>4, <2>5 DEF SkillRows, Registry!Statuses
  <2>7. /\ row' = [row EXCEPT ![s] = r] /\ letIn' = letIn \ {s} /\ syncs' = syncs \cup {s}
        /\ rewritten' = (IF Registry(n)!Held(s) THEN rewritten \cup {s} ELSE rewritten)
        /\ UNCHANGED <<skillPoints, worker>>
    BY <1>3, <2>1, <2>2, <2>3 DEF Registry!IngestRepo
  <2>8. s \in I /\ (s \in rewritten' \/ ~Registry(n)!Held(s)) BY <1>0, <2>7
  <2>9. /\ rewritten \subseteq rewritten' /\ rewritten' \subseteq I /\ syncs' \subseteq I
        /\ letIn' \subseteq I /\ letIn \ {s} \subseteq letIn'
    BY <1>0, <2>7
  <2> QED BY <1>0, <2>6, <2>7, <2>8, <2>9, RegistryMove
<1>4. ASSUME NEW s \in Registries[n].skills, Registry(n)!ApproveReview(s) PROVE RegistryInv(n)'
  <2>1. /\ row' = [row EXCEPT ![s].status = "active"] /\ UNCHANGED <<skillPoints, worker, rewritten>>
        /\ letIn' = letIn \cup {s} /\ syncs' = syncs \cup {s}
    BY <1>4 DEF Registry!ApproveReview
  <2>2. "active" \in Registry(n)!Statuses /\ s \in I BY <1>0 DEF Registry!Statuses
  <2> QED BY <1>0, <1>2, <2>1, <2>2
<1>5. ASSUME NEW s \in Registries[n].skills, Registry(n)!RejectReview(s) PROVE RegistryInv(n)'
  <2>1. /\ row' = [row EXCEPT ![s].status = "rejected"] /\ UNCHANGED <<syncs, worker, letIn, rewritten>>
        /\ skillPoints' = [skillPoints EXCEPT ![Registry(n)!OwnId(s)] = "none"]
    BY <1>5 DEF Registry!RejectReview, Registry!RemoveSkill
  <2>2. "rejected" \in Registry(n)!Statuses /\ s \in I BY <1>0 DEF Registry!Statuses
  <2> QED BY <1>0, <1>2, <2>1, <2>2
<1>6. ASSUME NEW s \in I, NEW x \in {"active", "disabled"}, Registry(n)!UpdateSkill(s, x)
      PROVE  RegistryInv(n)'
  <2>1. /\ row' = [row EXCEPT ![s].status = x] /\ UNCHANGED <<skillPoints, syncs, worker, rewritten>>
        /\ letIn' = IF x = "active" THEN letIn \cup {s} ELSE letIn
    BY <1>6 DEF Registry!UpdateSkill
  <2>2. x \in Registry(n)!Statuses BY DEF Registry!Statuses
  <2> QED BY <1>0, <1>2, <2>1, <2>2
<1>7. ASSUME NEW s \in I, Registry(n)!RecordFailure(s) PROVE RegistryInv(n)'
  <2>1. PICK m : m = Registry(n)!MergeMetrics(row[s].manifest, row[s].manifest.fails + 1) OBVIOUS
  <2>2. m \in Registry(n)!Manifests /\ m.channel = row[s].manifest.channel
    <3>1. row[s].manifest \in Registry(n)!Manifests /\ row[s].manifest.fails + 1 \in Nat
      <4>1. row[s].manifest \in Registry(n)!Manifests BY <1>0
      <4>2. row[s].manifest.fails \in Nat BY <4>1, ManifestKept
      <4> QED BY <4>1, <4>2
    <3> QED BY <2>1, <3>1, ManifestKept
  <2>3. PICK x : x = IF m.fails > Registries[n].fails THEN "disabled" ELSE row[s].status OBVIOUS
  <2>4. PICK r : r = [row[s] EXCEPT !.manifest = m, !.status = x] OBVIOUS
  <2>5. row' = [row EXCEPT ![s] = r]
    <3>1. row' = [row EXCEPT ![s].manifest = m, ![s].status = x]
      BY <1>0, <1>7, <2>1, <2>3 DEF Registry!RecordFailure
    <3> QED BY <2>4, <3>1 DEF RegistryInv
  <2>6. r \in SkillRows(n) /\ r.manifest = m /\ r.status = x
    <3>1. x \in Registry(n)!Statuses \cup {"none"} BY <1>0, <2>3 DEF Registry!Statuses
    <3> QED BY <1>0, <2>2, <2>4, <3>1 DEF SkillRows
  <2>7. UNCHANGED <<skillPoints, syncs, worker, letIn, rewritten>>
    BY <1>7 DEF Registry!RecordFailure
  <2>8. (s \notin rewritten /\ s \in Registries[n].skills /\ r.status = "active"
           /\ r.manifest.channel = "plugin_market") => s \in letIn
    <3>1. r.status = "active" => row[s].status = "active" BY <2>3, <2>6
    <3> QED BY <2>2, <2>6, <3>1 DEF RegistryInv, Registry!MarketNeedsApproval,
            Registry!IsMarketSubmission, Registry!RequiresApproval
  <2> QED BY <1>0, <2>2, <2>5, <2>6, <2>7, <2>8, RegistryMove
<1> QED BY <1>3, <1>4, <1>5, <1>6, <1>7

\* A worker takes a row, or ends without writing it.
LEMMA RegistryStart ==
  ASSUME NEW n \in DOMAIN Registries, RegistryInv(n), NEW w \in Registries[n].workers,
         \/ \E s \in Registries[n].skills : \/ Registry(n)!DryRunSkill(w, s)
                                            \/ Registry(n)!SelfHealSkill(w, s)
         \/ \E s \in Registry(n)!Ids : Registry(n)!SyncRead(w, s)
         \/ Registry(n)!HealFails(w) \/ Registry(n)!SyncWrite(w) \/ Registry(n)!SyncFails(w)
  PROVE  RegistryInv(n)'
<1> DEFINE I == Registry(n)!Ids
<1>0. /\ worker \in [Registries[n].workers -> WorkerRows(n)] /\ worker[w] \in WorkerRows(n)
      /\ row \in [I -> SkillRows(n)]
      /\ skillPoints \in [Registry(n)!PointIds -> Registry(n)!Statuses \cup {"none"}]
      /\ syncs \subseteq I /\ letIn \subseteq I /\ rewritten \subseteq I
      /\ Registries[n].skills \subseteq I
      /\ \A s \in I : /\ row[s] \in SkillRows(n) /\ row[s].status \in Registry(n)!Statuses \cup {"none"}
                      /\ row[s].manifest \in Registry(n)!Manifests
  BY DEF RegistryInv, Registry!Ids, SkillRows
<1>1. ASSUME NEW s \in I, NEW k \in WorkerRows(n), worker' = [worker EXCEPT ![w] = k],
             k.pc \in {"running", "healing"} =>
               k.skill = s /\ k.seen.channel = row[s].manifest.channel,
             skillPoints' \in [Registry(n)!PointIds -> Registry(n)!Statuses \cup {"none"}],
             syncs' \subseteq I, UNCHANGED <<row, letIn, rewritten>>
      PROVE  RegistryInv(n)'
  <2>1. PICK r : r = row[s] OBVIOUS
  <2>2. row' = [row EXCEPT ![s] = r] /\ r \in SkillRows(n) BY <1>0, <1>1, <2>1
  <2>3. /\ worker' \in [Registries[n].workers -> WorkerRows(n)]
        /\ \A v \in Registries[n].workers :
             \/ worker'[v] = worker[v]
             \/ worker'[v].pc \in {"running", "healing"} =>
                  worker'[v].skill = s /\ worker'[v].seen.channel = r.manifest.channel
    BY <1>0, <1>1, <2>1
  <2>4. (s \notin rewritten /\ s \in Registries[n].skills /\ r.status = "active"
           /\ r.manifest.channel = "plugin_market") => s \in letIn
    BY <2>1 DEF RegistryInv, Registry!MarketNeedsApproval, Registry!IsMarketSubmission,
       Registry!RequiresApproval
  <2>5. /\ letIn' = letIn /\ rewritten' = rewritten /\ letIn \ {s} \subseteq letIn'
        /\ r.manifest.channel = row[s].manifest.channel
    BY <1>1, <2>1
  <2> QED BY <1>0, <1>1, <2>2, <2>3, <2>4, <2>5, RegistryMove
<1>2. ASSUME NEW s \in Registries[n].skills, Registry(n)!DryRunSkill(w, s) PROVE RegistryInv(n)'
  <2>1. PICK k : k = [pc |-> "running", skill |-> s, allow |-> TRUE, seen |-> row[s].manifest] OBVIOUS
  <2>2. k \in WorkerRows(n) /\ k.skill = s /\ k.seen = row[s].manifest BY <1>0, <2>1 DEF WorkerRows
  <2>3. /\ worker' = [worker EXCEPT ![w] = k]
        /\ UNCHANGED <<row, skillPoints, syncs, letIn, rewritten>>
    BY <1>2, <2>1 DEF Registry!DryRunSkill, Registry!StartDryRun
  <2> QED BY <1>0, <1>1, <2>2, <2>3
<1>3. ASSUME NEW s \in Registries[n].skills, Registry(n)!SelfHealSkill(w, s) PROVE RegistryInv(n)'
  <2>1. PICK k : k = [pc |-> "healing", skill |-> s, seen |-> row[s].manifest] OBVIOUS
  <2>2. k \in WorkerRows(n) /\ k.skill = s /\ k.seen = row[s].manifest BY <1>0, <2>1 DEF WorkerRows
  <2>3. /\ worker' = [worker EXCEPT ![w] = k]
        /\ UNCHANGED <<row, skillPoints, syncs, letIn, rewritten>>
    BY <1>3, <2>1 DEF Registry!SelfHealSkill, Registry!StartHeal
  <2> QED BY <1>0, <1>1, <2>2, <2>3
<1>4. ASSUME NEW s \in I, Registry(n)!SyncRead(w, s) PROVE RegistryInv(n)'
  <2>1. PICK k : k = [pc |-> "syncing", skill |-> s, status |-> row[s].status] OBVIOUS
  <2>2. k \in WorkerRows(n) /\ k.pc = "syncing" BY <1>0, <2>1 DEF WorkerRows
  <2>3. /\ worker' = [worker EXCEPT ![w] = k] /\ syncs' = syncs \ {s}
        /\ UNCHANGED <<row, skillPoints, letIn, rewritten>>
    BY <1>4, <2>1 DEF Registry!SyncRead
  <2> QED BY <1>0, <1>1, <2>2, <2>3
<1>5. CASE Registry(n)!HealFails(w) \/ Registry(n)!SyncWrite(w) \/ Registry(n)!SyncFails(w)
  <2>1. PICK k, s : k = Registry(n)!Idle /\ s = worker[w].skill OBVIOUS
  <2>2. k \in WorkerRows(n) /\ k.pc = "idle" BY <2>1 DEF WorkerRows, Registry!Idle
  <2>3. /\ worker' = [worker EXCEPT ![w] = k] /\ worker[w].pc # "idle"
        /\ UNCHANGED <<row, syncs, letIn, rewritten>>
    BY <1>5, <2>1 DEF Registry!HealFails, Registry!SyncWrite, Registry!SyncFails
  <2>4. s \in I BY <1>0, <2>1, <2>3, WorkerTyped
  <2>5. skillPoints' \in [Registry(n)!PointIds -> Registry(n)!Statuses \cup {"none"}]
    <3>1. CASE Registry(n)!SyncWrite(w)
      <4>1. worker[w].status \in Registry(n)!Statuses \cup {"none"}
        BY <1>0, <3>1, WorkerTyped DEF Registry!SyncWrite
      <4> QED BY <1>0, <3>1, <4>1 DEF Registry!SyncWrite
    <3>2. CASE Registry(n)!HealFails(w) \/ Registry(n)!SyncFails(w)
      BY <1>0, <3>2 DEF Registry!HealFails, Registry!SyncFails
    <3> QED BY <1>5, <3>1, <3>2
  <2> QED BY <1>0, <1>1, <2>2, <2>3, <2>4, <2>5
<1> QED BY <1>2, <1>3, <1>4, <1>5

\* A worker writes the manifest it holds.
LEMMA RegistryWrite ==
  ASSUME NEW n \in DOMAIN Registries, RegistryInv(n), NEW w \in Registries[n].workers,
         \/ Registry(n)!DryRunPasses(w) \/ Registry(n)!DryRunFails(w) \/ Registry(n)!PatchRejected(w)
         \/ \E whole \in BOOLEAN : Registry(n)!PatchApplied(w, whole)
  PROVE  RegistryInv(n)'
<1> DEFINE I == Registry(n)!Ids
<1>0. /\ worker \in [Registries[n].workers -> WorkerRows(n)] /\ worker[w] \in WorkerRows(n)
      /\ row \in [I -> SkillRows(n)] /\ \A s \in I : row[s] \in SkillRows(n)
      /\ skillPoints \in [Registry(n)!PointIds -> Registry(n)!Statuses \cup {"none"}]
      /\ syncs \subseteq I /\ letIn \subseteq I /\ rewritten \subseteq I
  BY DEF RegistryInv
<1>1. worker[w].pc \in {"running", "healing"} /\ UNCHANGED <<skillPoints, syncs, letIn>>
  BY DEF Registry!DryRunPasses, Registry!DryRunFails, Registry!PatchRejected, Registry!PatchApplied
<1>2. PICK s, seen, idle : s = worker[w].skill /\ seen = worker[w].seen /\ idle = Registry(n)!Idle
  OBVIOUS
<1>3. /\ s \in I /\ seen \in Registry(n)!Manifests /\ row[s] \in SkillRows(n)
      /\ idle \in WorkerRows(n) /\ idle.pc = "idle"
      /\ s \notin rewritten => seen.channel = row[s].manifest.channel
  BY <1>0, <1>1, <1>2, WorkerTyped DEF RegistryInv, WorkerRows, Registry!Idle
<1>4. ASSUME NEW r \in SkillRows(n), row' = [row EXCEPT ![s] = r],
             NEW k \in WorkerRows(n), worker' = [worker EXCEPT ![w] = k],
             k.pc \in {"running", "healing"} =>
               k.skill = s /\ k.seen.channel = r.manifest.channel,
             rewritten' \in {rewritten, rewritten \cup {s}},
             s \notin rewritten' => r.manifest.channel = seen.channel,
             (s \notin rewritten' /\ s \in Registries[n].skills /\ r.status = "active"
                /\ r.manifest.channel = "plugin_market") => s \in letIn
      PROVE  RegistryInv(n)'
  <2>1. /\ worker' \in [Registries[n].workers -> WorkerRows(n)]
        /\ \A v \in Registries[n].workers :
             \/ worker'[v] = worker[v]
             \/ worker'[v].pc \in {"running", "healing"} =>
                  worker'[v].skill = s /\ worker'[v].seen.channel = r.manifest.channel
    BY <1>0, <1>4
  <2>2. rewritten' \subseteq I /\ rewritten \subseteq rewritten' /\ letIn \ {s} \subseteq letIn'
    BY <1>0, <1>1, <1>3, <1>4
  <2>3. r.manifest.channel = row[s].manifest.channel \/ s \in rewritten' BY <1>3, <1>4, <2>2
  <2> QED BY <1>0, <1>1, <1>3, <1>4, <2>1, <2>2, <2>3, RegistryMove
<1>6. CASE Registry(n)!DryRunPasses(w)
  <2>1. PICK m : m = Registry(n)!MergeMetrics(seen, 0) OBVIOUS
  <2>2. m \in Registry(n)!Manifests /\ m.channel = seen.channel BY <1>3, <2>1, ManifestKept
  <2>3. PICK x : x = Registry(n)!SuccessStatus(m) OBVIOUS
  <2>4. x \in Registry(n)!Statuses \cup {"none"} /\ (x = "active" => m.channel # "plugin_market")
    BY <2>3 DEF Registry!SuccessStatus, Registry!Statuses, Registry!RequiresApproval
  <2>5. PICK r : r = [row[s] EXCEPT !.manifest = m, !.status = x] OBVIOUS
  <2>6. r \in SkillRows(n) /\ r.manifest = m /\ r.status = x BY <1>3, <2>2, <2>4, <2>5 DEF SkillRows
  <2>7. row' = [row EXCEPT ![s] = r]
    <3>1. row' = [row EXCEPT ![s].manifest = m, ![s].status = x]
      BY <1>2, <1>6, <2>1, <2>3 DEF Registry!DryRunPasses
    <3> QED BY <1>0, <1>3, <2>5, <3>1
  <2>8. worker' = [worker EXCEPT ![w] = idle] /\ rewritten' = rewritten
    BY <1>2, <1>6 DEF Registry!DryRunPasses
  <2> QED BY <1>3, <1>4, <2>2, <2>4, <2>6, <2>7, <2>8
<1>7. CASE Registry(n)!DryRunFails(w)
  <2>1. PICK m : m = Registry(n)!MergeMetrics(seen, seen.fails + 1) OBVIOUS
  <2>2. m \in Registry(n)!Manifests /\ m.channel = seen.channel
    <3>1. seen.fails \in Nat BY <1>3, ManifestKept
    <3>2. seen.fails + 1 \in Nat BY <3>1
    <3> QED BY <1>3, <2>1, <3>2, ManifestKept
  <2>3. PICK x : x = Registry(n)!FailureStatus(m) OBVIOUS
  <2>4. x \in Registry(n)!Statuses \cup {"none"} /\ x # "active"
    BY <2>3 DEF Registry!FailureStatus, Registry!Statuses
  <2>5. PICK r : r = [row[s] EXCEPT !.manifest = m, !.status = x] OBVIOUS
  <2>6. r \in SkillRows(n) /\ r.manifest = m /\ r.status = x BY <1>3, <2>2, <2>4, <2>5 DEF SkillRows
  <2>7. row' = [row EXCEPT ![s] = r]
    <3>1. row' = [row EXCEPT ![s].manifest = m, ![s].status = x]
      BY <1>2, <1>7, <2>1, <2>3 DEF Registry!DryRunFails
    <3> QED BY <1>0, <1>3, <2>5, <3>1
  <2>8. PICK heal : heal = [pc |-> "healing", skill |-> s, seen |-> m] OBVIOUS
  <2>9. heal \in WorkerRows(n) /\ heal.skill = s /\ heal.seen = m
    BY <1>3, <2>2, <2>8 DEF WorkerRows
  <2>10. /\ worker' = [worker EXCEPT ![w] = heal] \/ worker' = [worker EXCEPT ![w] = idle]
         /\ rewritten' = rewritten
    BY <1>2, <1>7, <2>1, <2>8 DEF Registry!DryRunFails, Registry!StartHeal
  <2>11. CASE worker' = [worker EXCEPT ![w] = heal]
    BY <1>4, <2>2, <2>4, <2>6, <2>7, <2>9, <2>10, <2>11
  <2>12. CASE worker' = [worker EXCEPT ![w] = idle]
    BY <1>3, <1>4, <2>2, <2>4, <2>6, <2>7, <2>10, <2>12
  <2> QED BY <2>10, <2>11, <2>12
\* A patch writes the manifest and leaves the status.
<1>8. ASSUME NEW m \in Registry(n)!Manifests, row' = [row EXCEPT ![s].manifest = m],
             NEW k \in WorkerRows(n), worker' = [worker EXCEPT ![w] = k],
             k.pc \in {"running", "healing"} => k.skill = s /\ k.seen.channel = m.channel,
             rewritten' \in {rewritten, rewritten \cup {s}},
             s \notin rewritten' => m.channel = seen.channel
      PROVE  RegistryInv(n)'
  <2>1. PICK r : r = [row[s] EXCEPT !.manifest = m] OBVIOUS
  <2>2. r \in SkillRows(n) /\ r.manifest = m /\ r.status = row[s].status
    BY <1>3, <2>1 DEF SkillRows
  <2>3. row' = [row EXCEPT ![s] = r] BY <1>8, <2>1
  <2>4. ASSUME s \notin rewritten', s \in Registries[n].skills, r.status = "active",
               r.manifest.channel = "plugin_market"
        PROVE  s \in letIn
    <3>1. s \notin rewritten BY <1>8, <2>4
    <3>2. row[s].status = "active" /\ row[s].manifest.channel = "plugin_market"
      BY <1>3, <1>8, <2>2, <2>4, <3>1
    <3> QED BY <2>4, <3>1, <3>2 DEF RegistryInv, Registry!MarketNeedsApproval,
            Registry!IsMarketSubmission, Registry!RequiresApproval
  <2> QED BY <1>4, <1>8, <2>2, <2>3, <2>4
<1>9. CASE Registry(n)!PatchRejected(w)
  <2>1. PICK m : m = Registry(n)!Healed(seen) OBVIOUS
  <2>2. m \in Registry(n)!Manifests /\ m.channel = seen.channel BY <1>3, <2>1, ManifestKept
  <2>3. /\ row' = [row EXCEPT ![s].manifest = m] /\ worker' = [worker EXCEPT ![w] = idle]
        /\ rewritten' = rewritten
    BY <1>2, <1>9, <2>1 DEF Registry!PatchRejected
  <2> QED BY <1>3, <1>8, <2>2, <2>3
<1>10. ASSUME NEW whole \in BOOLEAN, Registry(n)!PatchApplied(w, whole) PROVE RegistryInv(n)'
  <2>1. PICK base : base = IF whole THEN Registry(n)!NewManifest(seen.of, "direct") ELSE seen OBVIOUS
  <2>2. base \in Registry(n)!Manifests /\ (~whole => base = seen)
    <3>1. seen.of \in 0..Registries[n].code BY <1>3, ManifestKept
    <3>2. "direct" \in Registry(n)!Channels BY DEF Registry!Channels
    <3>3. Registry(n)!NewManifest(seen.of, "direct") \in Registry(n)!Manifests
      BY <3>1, <3>2, ManifestNew
    <3> QED BY <1>3, <2>1, <3>3
  <2>3. PICK m : m = Registry(n)!Healed(base) OBVIOUS
  <2>4. m \in Registry(n)!Manifests /\ m.channel = base.channel BY <2>2, <2>3, ManifestKept
  <2>5. PICK k : k = [pc |-> "running", skill |-> s, allow |-> FALSE, seen |-> m] OBVIOUS
  <2>6. k \in WorkerRows(n) /\ k.skill = s /\ k.seen = m BY <1>3, <2>4, <2>5 DEF WorkerRows
  <2>7. /\ row' = [row EXCEPT ![s].manifest = m] /\ worker' = [worker EXCEPT ![w] = k]
        /\ rewritten' = IF whole THEN rewritten \cup {s} ELSE rewritten
    BY <1>2, <1>10, <2>1, <2>3, <2>5 DEF Registry!PatchApplied, Registry!StartDryRun
  <2>8. s \notin rewritten' => m.channel = seen.channel BY <2>2, <2>4, <2>7
  <2> QED BY <1>8, <2>4, <2>6, <2>7, <2>8
<1> QED BY <1>6, <1>7, <1>9, <1>10

\* The seeding lets in what it ships, and disables what it ships no more.
LEMMA RegistrySeed ==
  ASSUME NEW n \in DOMAIN Registries, RegistryInv(n), NEW shipped \in SUBSET Registries[n].builtins,
         Registry(n)!SeedBuiltins(shipped)
  PROVE  RegistryInv(n)'
<1> DEFINE I == Registry(n)!Ids
           B == Registries[n].builtins
           new(s) == [status |-> "active", code |-> row[s].code,
                      manifest |-> Registry(n)!NewManifest(row[s].code, "direct")]
           off(s) == [row[s] EXCEPT !.status = "disabled"]
<1>0. /\ worker \in [Registries[n].workers -> WorkerRows(n)] /\ shipped \subseteq I
      /\ row \in [I -> SkillRows(n)]
      /\ skillPoints \in [Registry(n)!PointIds -> Registry(n)!Statuses \cup {"none"}]
      /\ syncs \subseteq I /\ letIn \subseteq I /\ rewritten \subseteq I
      /\ \A s \in I : row[s] \in SkillRows(n) /\ row[s].code \in 0..Registries[n].code
  BY DEF RegistryInv, Registry!Ids, SkillRows
<1>1. /\ row' = [s \in I |-> CASE s \in shipped -> new(s)
                              [] s \in B \ shipped /\ row[s].status # "none" -> off(s)
                              [] OTHER -> row[s]]
      /\ skillPoints' = [p \in Registry(n)!PointIds |->
           CASE \E s \in shipped : p = Registry(n)!VectorId(s) /\ row[s].status # "none" -> "active"
             [] \E s \in B \ shipped : p = Registry(n)!OwnId(s) -> "none"
             [] OTHER -> skillPoints[p]]
      /\ letIn' = letIn \cup shipped
      /\ rewritten' = rewritten \cup {s \in shipped : Registry(n)!Held(s)}
      /\ UNCHANGED <<syncs, worker>>
  BY DEF Registry!SeedBuiltins
<1>2. \A s \in I : new(s) \in SkillRows(n)
  <2>1. "direct" \in Registry(n)!Channels BY DEF Registry!Channels
  <2>2. \A s \in I : Registry(n)!NewManifest(row[s].code, "direct") \in Registry(n)!Manifests
    BY <1>0, <2>1, ManifestNew
  <2> QED BY <1>0, <2>2 DEF SkillRows, Registry!Statuses
<1>3. \A s \in I : /\ off(s) \in SkillRows(n) /\ off(s).status = "disabled"
                   /\ off(s).manifest = row[s].manifest
  BY <1>0 DEF SkillRows, Registry!Statuses
<1> HIDE DEF new, off
<1>4. \A s \in I : /\ row'[s] \in SkillRows(n)
                   /\ s \notin shipped => /\ row'[s].manifest = row[s].manifest
                                          /\ row'[s].status \in {row[s].status, "disabled"}
  BY <1>0, <1>1, <1>2, <1>3
<1>5. row' \in [I -> SkillRows(n)] BY <1>1, <1>4
<1>6. skillPoints' \in [Registry(n)!PointIds -> Registry(n)!Statuses \cup {"none"}]
  <2>1. \A p \in Registry(n)!PointIds : skillPoints'[p] \in Registry(n)!Statuses \cup {"none"}
    BY <1>0, <1>1 DEF Registry!Statuses
  <2> QED BY <1>1, <2>1
<1>7. /\ letIn' \subseteq I /\ letIn \subseteq letIn' /\ shipped \subseteq letIn'
      /\ rewritten' \subseteq I /\ rewritten \subseteq rewritten'
  BY <1>0, <1>1
<1>8. ASSUME NEW w \in Registries[n].workers, worker'[w].pc \in {"running", "healing"},
             worker'[w].skill \notin rewritten'
      PROVE  worker'[w].seen.channel = row'[worker'[w].skill].manifest.channel
  <2>1. PICK k : k = worker[w] OBVIOUS
  <2>2. k \in WorkerRows(n) /\ worker'[w] = k BY <1>0, <1>1, <2>1
  <2>3. k.skill \in I BY <1>8, <2>2, WorkerTyped
  <2>4. Registry(n)!Held(k.skill) BY <1>8, <2>1, <2>2 DEF Registry!Held
  <2>5. k.skill \notin shipped BY <1>1, <1>8, <2>2, <2>4
  <2>6. k.seen.channel = row[k.skill].manifest.channel BY <1>7, <1>8, <2>1, <2>2 DEF RegistryInv
  <2> QED BY <1>4, <2>2, <2>3, <2>5, <2>6
<1>9. Registry(n)!MarketNeedsApproval'
  <2> SUFFICES ASSUME NEW t \in Registries[n].skills \ rewritten', row'[t].status = "active",
                      row'[t].manifest.channel = "plugin_market"
               PROVE  t \in letIn'
    BY DEF Registry!MarketNeedsApproval, Registry!IsMarketSubmission, Registry!RequiresApproval
  <2>1. CASE t \in shipped BY <1>7, <2>1
  <2>2. CASE t \notin shipped
    <3>1. t \in I BY DEF Registry!Ids
    <3>2. row[t].status = "active" /\ row[t].manifest.channel = "plugin_market"
      BY <1>4, <2>2, <3>1
    <3> QED BY <1>7, <3>2 DEF RegistryInv, Registry!MarketNeedsApproval,
            Registry!IsMarketSubmission, Registry!RequiresApproval
  <2> QED BY <2>1, <2>2
<1> QED BY <1>0, <1>1, <1>5, <1>6, <1>7, <1>8, <1>9 DEF RegistryInv

\* Every step of the registry keeps the invariant.
LEMMA RegistryStep ==
  ASSUME NEW n \in DOMAIN Registries, RegistryInv(n), Registry(n)!Next PROVE RegistryInv(n)'
<1>1. CASE Registry(n)!SyncAllActive
  <2>1. /\ syncs' = syncs \cup Registry(n)!Active
        /\ UNCHANGED <<row, skillPoints, worker, letIn, rewritten>>
    BY <1>1 DEF Registry!SyncAllActive
  <2>2. syncs' \subseteq Registry(n)!Ids BY <2>1 DEF RegistryInv, Registry!Active
  <2> QED BY <2>1, <2>2 DEF RegistryInv, Registry!MarketNeedsApproval, Registry!IsMarketSubmission
<1> QED BY <1>1, RegistryReview, RegistryStart, RegistryWrite, RegistrySeed
        DEF Registry!Next, Registry!WorkerStep

\* What the registry promises.
LEMMA RegistryPromise ==
  ASSUME NEW n \in DOMAIN Registries, RegistryInv(n)
  PROVE  Registry(n)!TypeOK /\ Registry(n)!MarketNeedsApproval
BY WorkerTyped DEF RegistryInv, SkillRows, Registry!TypeOK

-----------------------------------------------------------------------------
(* Payments: balances and transactions, and the adjustments under way. *)

\* What a request holds: one that settles an order has the order.
Settling == {"query", "apply", "lookup", "open", "insert", "reopen", "credit", "finish", "settle"}
HandlerRows == {x \in Paid!Handler : x.at \in Settling => x.order \in Orders}
AdjustedRows == [started : Nat, booked : Nat, unbooked : Int, sum : Int]
QuotaRows == [today : BOOLEAN, balance : Int, version : Nat]

\* The requests at an adjustment of a balance.
Adjusting == {h \in Handlers : handler[h].at \in {"deduct", "write", "book"}}

\* The rows keep their types.
PaidRows ==
  /\ policy \in Rates
  /\ trade \in [Orders -> {"wait", "paid", "closed"}]
  /\ acked \subseteq Orders
  /\ order \in [Orders -> Paid!Order]
  /\ txn \in [Orders -> Paid!Txn]
  /\ quota \in QuotaRows
  /\ days \in 0..MaxDays /\ crashes \in 0..MaxCrashes

\* An adjustment is in the books, or a request is at it, or died; MaxAdjusts were started.
PaidInv ==
  /\ PaidRows
  /\ handler \in [Handlers -> HandlerRows]
  /\ adjusted \in AdjustedRows
  /\ adjusted.booked + Cardinality(Adjusting) <= adjusted.started
  /\ adjusted.started <= MaxAdjusts

\* An idle request.
LEMMA PaidIdle == Paid!Idle \in HandlerRows /\ Paid!Idle.at = "idle"
<1>1. Paid!NoOrder \in Paid!Order BY DEF Paid!NoOrder, Paid!Order
<1>2. Paid!Idle \in Paid!Handler BY <1>1 DEF Paid!Idle, Paid!Handler
<1> QED BY <1>2 DEF HandlerRows, Settling, Paid!Idle

\* It holds before any order.
LEMMA PaidInit == Paid!Init => PaidInv
<1> SUFFICES ASSUME Paid!Init PROVE PaidInv OBVIOUS
<1>1. Paid!NoOrder \in Paid!Order /\ Paid!NoTxn \in Paid!Txn
  BY DEF Paid!NoOrder, Paid!Order, Paid!NoTxn, Paid!Txn
<1>2. handler \in [Handlers -> HandlerRows] /\ \A h \in Handlers : handler[h].at = "idle"
  BY PaidIdle DEF Paid!Init
<1>3. Adjusting = {} BY <1>2 DEF Adjusting
<1>4. Cardinality(Adjusting) = 0 BY <1>3, FS_EmptySet
<1>5. /\ adjusted \in AdjustedRows /\ adjusted.booked = 0 /\ adjusted.started = 0
  BY DEF Paid!Init, AdjustedRows
<1>7. MaxDays \in Nat /\ MaxCrashes \in Nat /\ MaxAdjusts \in Nat BY JobsAssumption
<1>6. PaidRows
  <2>1. 0 \in 0..MaxDays /\ 0 \in 0..MaxCrashes BY <1>7
  <2>2. quota \in QuotaRows BY DEF Paid!Init, QuotaRows
  <2> QED BY <1>1, <2>1, <2>2 DEF Paid!Init, PaidRows
<1> QED BY <1>2, <1>4, <1>5, <1>6, <1>7 DEF PaidInv

\* How the number of adjustments under way follows a request's step.
LEMMA PaidCount ==
  ASSUME PaidInv, NEW h \in Handlers, NEW x \in HandlerRows,
         handler' = [handler EXCEPT ![h] = x]
  PROVE  /\ handler' \in [Handlers -> HandlerRows]
         /\ Cardinality(Adjusting) \in Nat
         /\ Cardinality(Adjusting') =
              Cardinality(Adjusting)
                + (IF x.at \in {"deduct", "write", "book"} THEN 1 ELSE 0)
                - (IF h \in Adjusting THEN 1 ELSE 0)
<1>1. handler \in [Handlers -> HandlerRows] BY DEF PaidInv
<1>2. handler' \in [Handlers -> HandlerRows] /\ handler'[h] = x
      /\ \A g \in Handlers : g # h => handler'[g] = handler[g]
  BY <1>1
<1>3. Adjusting \subseteq Handlers /\ IsFiniteSet(Handlers) BY JobsAssumption DEF Adjusting
<1>4. IsFiniteSet(Adjusting) BY <1>3, FS_Subset
<1>5. Cardinality(Adjusting) \in Nat BY <1>4, FS_CardinalityType
<1>6. IsFiniteSet(Adjusting \ {h}) /\ Cardinality(Adjusting \ {h}) =
        IF h \in Adjusting THEN Cardinality(Adjusting) - 1 ELSE Cardinality(Adjusting)
  BY <1>4, FS_RemoveElement
<1>7. CASE x.at \in {"deduct", "write", "book"}
  <2>1. Adjusting' = (Adjusting \ {h}) \cup {h} BY <1>2, <1>7 DEF Adjusting
  <2>2. Cardinality(Adjusting') = Cardinality(Adjusting \ {h}) + 1
    <3>1. h \notin Adjusting \ {h} OBVIOUS
    <3>2. Cardinality((Adjusting \ {h}) \cup {h}) = Cardinality(Adjusting \ {h}) + 1
      BY <1>6, <3>1, FS_AddElement
    <3> QED BY <2>1, <3>2
  <2> QED BY <1>2, <1>5, <1>6, <1>7, <2>2
<1>8. CASE x.at \notin {"deduct", "write", "book"}
  <2>1. Adjusting' = Adjusting \ {h} BY <1>2, <1>8 DEF Adjusting
  <2> QED BY <1>2, <1>5, <1>6, <1>8, <2>1
<1> QED BY <1>7, <1>8

\* A request moves without starting or booking an adjustment.
LEMMA PaidMove ==
  ASSUME PaidInv, NEW h \in Handlers, NEW x \in HandlerRows,
         handler' = [handler EXCEPT ![h] = x],
         x.at \in {"deduct", "write", "book"} => h \in Adjusting,
         PaidRows', adjusted' \in AdjustedRows,
         adjusted'.started = adjusted.started, adjusted'.booked = adjusted.booked
  PROVE  PaidInv'
<1>1. /\ handler' \in [Handlers -> HandlerRows]
      /\ Cardinality(Adjusting) \in Nat
      /\ Cardinality(Adjusting') = Cardinality(Adjusting)
           + (IF x.at \in {"deduct", "write", "book"} THEN 1 ELSE 0)
           - (IF h \in Adjusting THEN 1 ELSE 0)
  BY PaidCount
<1>2. Cardinality(Adjusting') <= Cardinality(Adjusting) /\ Cardinality(Adjusting') \in Int
  BY <1>1
<1>3. adjusted.booked \in Nat /\ adjusted.started \in Nat BY DEF PaidInv, AdjustedRows
<1>4. adjusted'.booked + Cardinality(Adjusting') <= adjusted'.started
  BY <1>1, <1>2, <1>3 DEF PaidInv
<1> QED BY <1>1, <1>4 DEF PaidInv

\* Only rows move.
LEMMA PaidRest ==
  ASSUME PaidInv, UNCHANGED <<handler, adjusted>>, PaidRows'
  PROVE  PaidInv'
<1>1. Adjusting' = Adjusting BY DEF Adjusting
<1> QED BY <1>1 DEF PaidInv

\* A request goes on or ends.
LEMMA PaidGoes ==
  ASSUME PaidInv, NEW h \in Handlers, NEW s, Paid!Goes(h, s),
         s \in Settling \cup {"deduct", "write", "book"},
         s \in Settling => handler[h].at \in Settling
  PROVE  \E x \in HandlerRows : handler' = [handler EXCEPT ![h] = x] /\ x.at = s
<1>1. handler \in [Handlers -> HandlerRows] BY DEF PaidInv
<1>2. PICK y : y = handler[h] OBVIOUS
<1>3. PICK x : x = [y EXCEPT !.at = s] OBVIOUS
<1>4. handler' = [handler EXCEPT ![h] = x] BY <1>1, <1>2, <1>3 DEF Paid!Goes
<1>5. y \in Paid!Handler /\ (s \in Settling => y.order \in Orders)
  BY <1>1, <1>2 DEF HandlerRows
<1>6. x \in Paid!Handler /\ x.at = s /\ x.order = y.order
  BY <1>3, <1>5 DEF Paid!Handler, Settling
<1>7. x \in HandlerRows BY <1>5, <1>6 DEF HandlerRows
<1> QED BY <1>4, <1>6, <1>7

\* A request ends, and its worker is idle.
LEMMA PaidEnds ==
  ASSUME NEW h \in Handlers, Paid!Ends(h)
  PROVE  \E x \in HandlerRows : handler' = [handler EXCEPT ![h] = x] /\ x.at = "idle"
BY PaidIdle DEF Paid!Ends

\* What a request flushes is an order's row.
LEMMA PaidFlush ==
  ASSUME PaidInv, NEW h \in Handlers, NEW b \in BOOLEAN
  PROVE  Paid!Flushed(h, b) \in [Orders -> Paid!Order]
<1>1. PICK y : y = handler[h] OBVIOUS
<1>2. PICK c : c = IF y.rate = 0 THEN y.loaded.credit ELSE y.rate OBVIOUS
<1>3. PICK s : s = Paid!StatusOf(y.saw) OBVIOUS
<1>4. PICK o : o = y.order OBVIOUS
<1>5. PICK old : old = order[o] OBVIOUS
<1>6. PICK r0 : r0 = [status |-> IF s # y.loaded.status THEN s ELSE old.status,
                        credit |-> IF c # y.loaded.credit THEN c ELSE old.credit,
                        settled |-> old.settled \/ b]
  OBVIOUS
<1>7. Paid!Flushed(h, b) = [order EXCEPT ![o] = r0]
  BY <1>1, <1>2, <1>3, <1>4, <1>5, <1>6 DEF Paid!Flushed
<1>8. order \in [Orders -> Paid!Order] BY DEF PaidInv, PaidRows
<1>9. ASSUME o \in Orders PROVE r0 \in Paid!Order
  <2>1. y \in Paid!Handler BY <1>1 DEF PaidInv, HandlerRows
  <2>2. c \in {0} \cup Rates BY <1>2, <2>1 DEF Paid!Handler, Paid!Order
  <2>3. s \in {"absent", "PENDING", "SUCCESS", "FAILED"} BY <1>3 DEF Paid!StatusOf
  <2>4. old \in Paid!Order BY <1>5, <1>8, <1>9
  <2>5. r0.settled \in BOOLEAN BY <1>6, <2>4, Zenon DEF Paid!Order
  <2>6. r0.status \in {"absent", "PENDING", "SUCCESS", "FAILED"}
        /\ r0.credit \in {0} \cup Rates
    BY <1>6, <2>2, <2>3, <2>4 DEF Paid!Order
  <2>7. r0 = [status |-> r0.status, credit |-> r0.credit, settled |-> r0.settled]
    BY <1>6
  <2> QED BY <2>5, <2>6, <2>7 DEF Paid!Order
<1>10. CASE o \in Orders BY <1>7, <1>8, <1>9, <1>10
<1>11. CASE o \notin Orders
  <2>1. Paid!Flushed(h, b) = order BY <1>7, <1>8, <1>11
  <2> QED BY <1>8, <2>1
<1> QED BY <1>10, <1>11

\* A request that settles an order writes the order, the transaction and the balance.
LEMMA PaidSettles ==
  ASSUME PaidInv, NEW h \in Handlers,
         \/ Paid!Apply(h) \/ Paid!LookUp(h) \/ Paid!OpenQuota(h) \/ Paid!Insert(h)
         \/ Paid!Reopen(h) \/ Paid!Credit(h) \/ Paid!Finish(h) \/ Paid!Settle(h)
  PROVE  PaidInv'
<1>1. /\ UNCHANGED <<policy, trade, adjusted, days, crashes>>
      /\ handler[h].at \in Settling
  BY DEF Paid!Apply, Paid!LookUp, Paid!OpenQuota, Paid!Insert, Paid!Reopen, Paid!Credit,
         Paid!Finish, Paid!Settle, Paid!Alipay, Paid!Bounds, Paid!At, Settling
<1>2. /\ handler[h] \in HandlerRows /\ handler[h] \in Paid!Handler /\ handler[h].order \in Orders
      /\ handler[h].rate \in {0} \cup Rates /\ handler[h].rate \in Nat
      /\ handler \in [Handlers -> HandlerRows]
  <2>1. handler[h] \in HandlerRows /\ handler \in [Handlers -> HandlerRows] BY DEF PaidInv
  <2>2. handler[h] \in Paid!Handler /\ handler[h].order \in Orders
    BY <1>1, <2>1 DEF HandlerRows
  <2>3. handler[h].rate \in {0} \cup Rates BY <2>2 DEF Paid!Handler
  <2>4. Rates \subseteq Nat BY JobsAssumption
  <2>5. handler[h].rate \in Nat
    <3>1. CASE handler[h].rate = 0 BY <3>1
    <3>2. CASE handler[h].rate \in Rates BY <2>4, <3>2
    <3> QED BY <2>3, <3>1, <3>2
  <2> QED BY <2>1, <2>2, <2>3, <2>5
<1>3. /\ order \in [Orders -> Paid!Order] /\ txn \in [Orders -> Paid!Txn]
      /\ quota \in QuotaRows /\ acked \subseteq Orders
      /\ policy \in Rates /\ adjusted \in AdjustedRows
  BY DEF PaidInv, PaidRows
<1>4. \E x \in HandlerRows : /\ handler' = [handler EXCEPT ![h] = x]
                             /\ x.at \notin {"deduct", "write", "book"}
  <2>1. CASE Paid!Ends(h)
    <3>1. PICK x \in HandlerRows : handler' = [handler EXCEPT ![h] = x] /\ x.at = "idle"
      BY <2>1, PaidEnds
    <3> QED BY <3>1
  <2>2. CASE \E s \in Settling : Paid!Goes(h, s)
    <3>1. PICK s \in Settling : Paid!Goes(h, s) BY <2>2
    <3>2. PICK x \in HandlerRows : handler' = [handler EXCEPT ![h] = x] /\ x.at = s
      BY <1>1, <3>1, PaidGoes
    <3> QED BY <3>2 DEF Settling
  <2>3. CASE handler' = [handler EXCEPT ![h].at = "lookup", ![h].rate = policy]
    <3>1. PICK y : y = handler[h] OBVIOUS
    <3>2. PICK x : x = [y EXCEPT !.at = "lookup", !.rate = policy] OBVIOUS
    <3>3. handler' = [handler EXCEPT ![h] = x] BY <1>2, <2>3, <3>1, <3>2
    <3>4. x \in Paid!Handler /\ x.at = "lookup" /\ x.order = y.order
      BY <1>2, <1>3, <3>1, <3>2 DEF Paid!Handler
    <3>5. x \in HandlerRows BY <1>2, <3>1, <3>4 DEF HandlerRows
    <3> QED BY <3>3, <3>4, <3>5
  <2>4. \/ Paid!Ends(h)
        \/ \E s \in {"open", "settle", "insert", "reopen", "credit", "finish"} : Paid!Goes(h, s)
        \/ handler' = [handler EXCEPT ![h].at = "lookup", ![h].rate = policy]
    BY DEF Paid!Apply, Paid!LookUp, Paid!OpenQuota, Paid!Insert, Paid!Reopen, Paid!Credit,
           Paid!Finish, Paid!Settle
  <2> QED BY <2>1, <2>2, <2>3, <2>4 DEF Settling
<1>5. order' \in [Orders -> Paid!Order]
  <2>1. order' = order \/ \E b \in BOOLEAN : order' = Paid!Flushed(h, b)
    BY DEF Paid!Apply, Paid!LookUp, Paid!OpenQuota, Paid!Insert, Paid!Reopen, Paid!Credit,
           Paid!Finish, Paid!Settle
  <2> QED BY <1>3, <2>1, PaidFlush
<1>6. txn' \in [Orders -> Paid!Txn]
  <2>1. \/ txn' = txn
        \/ \E b \in BOOLEAN : txn' = [txn EXCEPT ![handler[h].order] =
             [status |-> "PENDING", amount |-> handler[h].rate, paid |-> b]]
        \/ txn' = [txn EXCEPT ![handler[h].order].status = "COMMITTED"]
    BY DEF Paid!Apply, Paid!LookUp, Paid!OpenQuota, Paid!Insert, Paid!Reopen, Paid!Credit,
           Paid!Finish, Paid!Settle
  <2>2. ASSUME NEW b \in BOOLEAN
        PROVE  [status |-> "PENDING", amount |-> handler[h].rate, paid |-> b] \in Paid!Txn
    BY <1>2 DEF Paid!Txn
  <2>3. CASE txn' = [txn EXCEPT ![handler[h].order].status = "COMMITTED"]
    <3>1. PICK old : old = txn[handler[h].order] OBVIOUS
    <3>2. PICK new : new = [old EXCEPT !.status = "COMMITTED"] OBVIOUS
    <3>3. old \in Paid!Txn BY <1>2, <1>3, <3>1
    <3>4. new \in Paid!Txn BY <3>2, <3>3 DEF Paid!Txn
    <3>5. txn' = [txn EXCEPT ![handler[h].order] = new] BY <2>3, <3>1, <3>2
    <3> QED BY <1>3, <3>4, <3>5
  <2> QED BY <1>3, <2>1, <2>2, <2>3
<1>7. quota' \in QuotaRows
  <2>1. \/ quota' = quota
        \/ quota' = [quota EXCEPT !.today = TRUE]
        \/ quota' = [quota EXCEPT !.balance = @ + handler[h].rate, !.version = @ + 1]
    BY DEF Paid!Apply, Paid!LookUp, Paid!OpenQuota, Paid!Insert, Paid!Reopen, Paid!Credit,
           Paid!Finish, Paid!Settle
  <2>2. CASE quota' = [quota EXCEPT !.today = TRUE] BY <1>3, <2>2 DEF QuotaRows
  <2>3. CASE quota' = [quota EXCEPT !.balance = @ + handler[h].rate, !.version = @ + 1]
    <3>1. quota.balance + handler[h].rate \in Int /\ quota.version + 1 \in Nat
      BY <1>2, <1>3 DEF QuotaRows
    <3> QED BY <1>3, <2>3, <3>1 DEF QuotaRows
  <2> QED BY <1>3, <2>1, <2>2, <2>3
<1>8. acked' \subseteq Orders
  <2>1. acked' = acked \/ acked' = acked \cup {handler[h].order}
    BY DEF Paid!Apply, Paid!LookUp, Paid!OpenQuota, Paid!Insert, Paid!Reopen, Paid!Credit,
           Paid!Finish, Paid!Settle
  <2> QED BY <1>2, <1>3, <2>1
<1>9. PaidRows' BY <1>1, <1>5, <1>6, <1>7, <1>8 DEF PaidInv, PaidRows
<1> QED BY <1>1, <1>3, <1>4, <1>9, PaidMove

\* A balance is adjusted, and the adjustment booked.
LEMMA PaidAdjusts ==
  ASSUME PaidInv, NEW h \in Handlers,
         \/ Paid!Adjust(h) \/ Paid!CheckAndDeduct(h) \/ Paid!WriteBalance(h)
         \/ Paid!BookAdjustment(h)
  PROVE  PaidInv'
<1>1. UNCHANGED <<policy, trade, acked, order, txn, days, crashes>>
  BY DEF Paid!Adjust, Paid!CheckAndDeduct, Paid!WriteBalance, Paid!BookAdjustment, Paid!Alipay,
         Paid!Bounds
<1>2. /\ handler[h] \in HandlerRows /\ handler[h] \in Paid!Handler
      /\ handler \in [Handlers -> HandlerRows]
      /\ quota \in QuotaRows /\ adjusted \in AdjustedRows /\ quota.version \in Nat
  BY DEF PaidInv, PaidRows, HandlerRows, QuotaRows
<1>3. Paid!Change(h) \in Int BY DEF Paid!Change
<1>4. UNCHANGED quota => PaidRows' BY <1>1 DEF PaidInv, PaidRows
<1>5. PICK y : y = handler[h] OBVIOUS
<1>6. CASE Paid!Adjust(h)
  <2>1. PICK a \in {"write", "deduct"}, k \in {"raise", "lower"} :
          handler' = [handler EXCEPT ![h].at = a, ![h].kind = k]
    BY <1>6 DEF Paid!Adjust
  <2>2. PICK x : x = [y EXCEPT !.at = a, !.kind = k] OBVIOUS
  <2>3. handler' = [handler EXCEPT ![h] = x] BY <1>2, <1>5, <2>1, <2>2
  <2>4. x \in Paid!Handler /\ x.at = a BY <1>2, <1>5, <2>2 DEF Paid!Handler
  <2>5. x \in HandlerRows BY <2>4 DEF HandlerRows, Settling
  <2>6. /\ adjusted' = [adjusted EXCEPT !.started = @ + 1] /\ UNCHANGED quota
        /\ adjusted.started < MaxAdjusts /\ handler[h].at = "idle"
    BY <1>6 DEF Paid!Adjust, Paid!At
  <2>7. h \notin Adjusting BY <2>6 DEF Adjusting
  <2>8. /\ handler' \in [Handlers -> HandlerRows]
        /\ Cardinality(Adjusting) \in Nat
        /\ Cardinality(Adjusting') = Cardinality(Adjusting) + 1
    <3>1. /\ handler' \in [Handlers -> HandlerRows]
          /\ Cardinality(Adjusting) \in Nat
          /\ Cardinality(Adjusting') = Cardinality(Adjusting)
               + (IF x.at \in {"deduct", "write", "book"} THEN 1 ELSE 0)
               - (IF h \in Adjusting THEN 1 ELSE 0)
      BY <2>3, <2>5, PaidCount
    <3> QED BY <2>4, <2>7, <3>1
  <2>9. /\ adjusted' \in AdjustedRows /\ adjusted'.started = adjusted.started + 1
        /\ adjusted'.booked = adjusted.booked
    BY <1>2, <2>6 DEF AdjustedRows
  <2>10. adjusted.booked \in Nat /\ adjusted.started \in Nat /\ MaxAdjusts \in Nat
    BY <1>2, JobsAssumption DEF AdjustedRows
  <2>11. adjusted'.booked + Cardinality(Adjusting') <= adjusted'.started
    BY <2>8, <2>9, <2>10 DEF PaidInv
  <2>12. adjusted'.started <= MaxAdjusts BY <2>6, <2>9, <2>10
  <2> QED BY <1>4, <2>6, <2>8, <2>9, <2>11, <2>12 DEF PaidInv
<1>7. CASE Paid!CheckAndDeduct(h)
  <2>1. PICK v : v = quota.version OBVIOUS
  <2>2. PICK x : x = [y EXCEPT !.at = "write", !.version = v] OBVIOUS
  <2>3. /\ handler' = [handler EXCEPT ![h].at = "write", ![h].version = v]
        /\ UNCHANGED <<quota, adjusted>> /\ handler[h].at = "deduct"
    BY <1>7, <2>1 DEF Paid!CheckAndDeduct, Paid!At
  <2>4. handler' = [handler EXCEPT ![h] = x] BY <1>2, <1>5, <2>2, <2>3
  <2>9. v \in Int BY <1>2, <2>1
  <2>5. x \in Paid!Handler /\ x.at = "write" BY <1>2, <1>5, <2>2, <2>9 DEF Paid!Handler
  <2>6. x \in HandlerRows BY <2>5 DEF HandlerRows, Settling
  <2>7. h \in Adjusting BY <2>3 DEF Adjusting
  <2>8. adjusted' \in AdjustedRows BY <1>2, <2>3
  <2> QED BY <1>4, <2>3, <2>4, <2>6, <2>7, <2>8, PaidMove
<1>8. CASE Paid!WriteBalance(h)
  <2>1. PICK s \in {"deduct", "book"} : Paid!Goes(h, s)
    BY <1>8 DEF Paid!WriteBalance
  <2>2. handler[h].at = "write" BY <1>8 DEF Paid!WriteBalance, Paid!At
  <2>3. PICK x \in HandlerRows : handler' = [handler EXCEPT ![h] = x] /\ x.at = s
    BY <2>1, PaidGoes DEF Settling
  <2>4. h \in Adjusting BY <2>2 DEF Adjusting
  <2>5. \/ UNCHANGED <<quota, adjusted>>
        \/ /\ quota' = [quota EXCEPT !.balance = @ + Paid!Change(h), !.version = @ + 1]
           /\ adjusted' = [adjusted EXCEPT !.unbooked = @ + Paid!Change(h)]
    BY <1>8 DEF Paid!WriteBalance
  <2>6. quota' \in QuotaRows
    <3>1. quota.balance + Paid!Change(h) \in Int /\ quota.version + 1 \in Nat
      BY <1>2, <1>3 DEF QuotaRows
    <3> QED BY <1>2, <2>5, <3>1 DEF QuotaRows
  <2>7. /\ adjusted' \in AdjustedRows /\ adjusted'.started = adjusted.started
        /\ adjusted'.booked = adjusted.booked
    <3>1. adjusted.unbooked + Paid!Change(h) \in Int BY <1>2, <1>3 DEF AdjustedRows
    <3> QED BY <1>2, <2>5, <3>1 DEF AdjustedRows
  <2>8. PaidRows' BY <1>1, <2>6 DEF PaidInv, PaidRows
  <2> QED BY <2>3, <2>4, <2>7, <2>8, PaidMove
<1>9. CASE Paid!BookAdjustment(h)
  <2>1. /\ Paid!Ends(h) /\ handler[h].at = "book" /\ UNCHANGED quota
        /\ adjusted' = [adjusted EXCEPT !.unbooked = @ - Paid!Change(h),
                                        !.sum = @ + Paid!Change(h), !.booked = @ + 1]
    BY <1>9 DEF Paid!BookAdjustment, Paid!At
  <2>2. PICK x \in HandlerRows : handler' = [handler EXCEPT ![h] = x] /\ x.at = "idle"
    BY <2>1, PaidEnds
  <2>3. h \in Adjusting BY <2>1 DEF Adjusting
  <2>4. /\ handler' \in [Handlers -> HandlerRows]
        /\ Cardinality(Adjusting) \in Nat
        /\ Cardinality(Adjusting') = Cardinality(Adjusting) - 1
    <3>1. /\ handler' \in [Handlers -> HandlerRows]
          /\ Cardinality(Adjusting) \in Nat
          /\ Cardinality(Adjusting') = Cardinality(Adjusting)
               + (IF x.at \in {"deduct", "write", "book"} THEN 1 ELSE 0)
               - (IF h \in Adjusting THEN 1 ELSE 0)
      BY <2>2, PaidCount
    <3> QED BY <2>2, <2>3, <3>1
  <2>5. adjusted.booked \in Nat /\ adjusted.started \in Nat /\ adjusted.unbooked \in Int
        /\ adjusted.sum \in Int
    BY <1>2 DEF AdjustedRows
  <2>6. /\ adjusted.unbooked - Paid!Change(h) \in Int /\ adjusted.sum + Paid!Change(h) \in Int
    BY <1>3, <2>5
  <2>7. /\ adjusted' \in AdjustedRows /\ adjusted'.started = adjusted.started
        /\ adjusted'.booked = adjusted.booked + 1
    <3>1. PICK u, m \in Int : u = adjusted.unbooked - Paid!Change(h)
                              /\ m = adjusted.sum + Paid!Change(h)
      BY <2>6
    <3>2. PICK b \in Nat : b = adjusted.booked + 1 BY <2>5
    <3>3. adjusted' = [adjusted EXCEPT !.unbooked = u, !.sum = m, !.booked = b]
      BY <2>1, <3>1, <3>2
    <3> QED BY <1>2, <3>2, <3>3 DEF AdjustedRows
  <2>8. adjusted'.booked + Cardinality(Adjusting') <= adjusted'.started
    BY <2>4, <2>5, <2>7 DEF PaidInv
  <2> QED BY <1>4, <2>1, <2>4, <2>7, <2>8 DEF PaidInv
<1> QED BY <1>6, <1>7, <1>8, <1>9

\* A request begins or asks Alipay.
LEMMA PaidAsks ==
  ASSUME PaidInv, NEW h \in Handlers,
         (\E o \in Orders : Paid!Notify(h, o) \/ Paid!Refresh(h, o)) \/ Paid!QueryTrade(h)
  PROVE  PaidInv'
<1>1. UNCHANGED <<policy, trade, acked, order, txn, quota, adjusted, days, crashes>>
  BY DEF Paid!Notify, Paid!Refresh, Paid!QueryTrade, Paid!Alipay, Paid!Bounds
<1>2. /\ order \in [Orders -> Paid!Order] /\ trade \in [Orders -> {"wait", "paid", "closed"}]
      /\ handler \in [Handlers -> HandlerRows]
  BY DEF PaidInv, PaidRows
<1>3. PaidRows' BY <1>1 DEF PaidInv, PaidRows
<1>4. \E x \in HandlerRows : /\ handler' = [handler EXCEPT ![h] = x]
                             /\ x.at \notin {"deduct", "write", "book"}
  <2>1. ASSUME NEW o \in Orders, Paid!Notify(h, o) \/ Paid!Refresh(h, o)
        PROVE  \E x \in HandlerRows : /\ handler' = [handler EXCEPT ![h] = x]
                                      /\ x.at \notin {"deduct", "write", "book"}
    <3>1. PICK l : l = order[o] OBVIOUS
    <3>2. Paid!Idle \in Paid!Handler /\ l \in Paid!Order BY <1>2, <3>1, PaidIdle DEF HandlerRows
    <3>3. CASE Paid!Notify(h, o)
      <4>1. PICK x : x = [Paid!Idle EXCEPT !.at = "apply", !.kind = "notify", !.order = o,
                                           !.saw = "paid", !.loaded = l]
        OBVIOUS
      <4>2. handler' = [handler EXCEPT ![h] = x] BY <3>1, <3>3, <4>1 DEF Paid!Notify
      <4>3. x \in Paid!Handler /\ x.at = "apply" /\ x.order = o
        BY <3>2, <4>1 DEF Paid!Handler
      <4>4. x \in HandlerRows BY <4>3 DEF HandlerRows
      <4> QED BY <4>2, <4>3, <4>4
    <3>4. CASE Paid!Refresh(h, o)
      <4>1. PICK x : x = [Paid!Idle EXCEPT !.at = "query", !.kind = "refresh", !.order = o,
                                           !.loaded = l]
        OBVIOUS
      <4>2. handler' = [handler EXCEPT ![h] = x] BY <3>1, <3>4, <4>1 DEF Paid!Refresh
      <4>3. x \in Paid!Handler /\ x.at = "query" /\ x.order = o
        BY <3>2, <4>1 DEF Paid!Handler
      <4>4. x \in HandlerRows BY <4>3 DEF HandlerRows
      <4> QED BY <4>2, <4>3, <4>4
    <3> QED BY <2>1, <3>3, <3>4
  <2>2. CASE Paid!QueryTrade(h)
    <3>1. handler[h].at = "query" BY <2>2 DEF Paid!QueryTrade, Paid!At
    <3>2. PICK y : y = handler[h] OBVIOUS
    <3>3. y \in Paid!Handler /\ y.order \in Orders
      BY <1>2, <3>1, <3>2 DEF HandlerRows, Settling
    <3>4. PICK s : s = trade[y.order] OBVIOUS
    <3>5. s \in {"wait", "paid", "closed"} BY <1>2, <3>3, <3>4
    <3>6. CASE Paid!Ends(h)
      <4>1. PICK x \in HandlerRows : handler' = [handler EXCEPT ![h] = x] /\ x.at = "idle"
        BY <3>6, PaidEnds
      <4> QED BY <4>1
    <3>7. CASE handler' = [handler EXCEPT ![h].at = "apply", ![h].saw = trade[handler[h].order]]
      <4>1. handler' = [handler EXCEPT ![h].at = "apply", ![h].saw = s] BY <3>2, <3>4, <3>7
      <4>2. PICK x : x = [y EXCEPT !.at = "apply", !.saw = s] OBVIOUS
      <4>3. handler' = [handler EXCEPT ![h] = x] BY <1>2, <3>2, <4>1, <4>2
      <4>4. x \in Paid!Handler /\ x.at = "apply" /\ x.order = y.order
        BY <3>3, <3>5, <4>2 DEF Paid!Handler
      <4>5. x \in HandlerRows BY <3>3, <4>4 DEF HandlerRows
      <4> QED BY <4>3, <4>4, <4>5
    <3> QED BY <2>2, <3>6, <3>7 DEF Paid!QueryTrade
  <2> QED BY <2>1, <2>2
<1>5. adjusted' \in AdjustedRows BY <1>1 DEF PaidInv
<1> QED BY <1>1, <1>3, <1>4, <1>5, PaidMove

\* Each step keeps the types.
LEMMA PaidStep == PaidInv /\ Paid!Next => PaidInv'
<1> SUFFICES ASSUME PaidInv, Paid!Next PROVE PaidInv' OBVIOUS
<1>1. /\ order \in [Orders -> Paid!Order] /\ trade \in [Orders -> {"wait", "paid", "closed"}]
      /\ policy \in Rates /\ quota \in QuotaRows /\ days \in 0..MaxDays
      /\ crashes \in 0..MaxCrashes
  BY DEF PaidInv, PaidRows
<1>2. ASSUME NEW o \in Orders, Paid!CreateOrder(o) PROVE PaidInv'
  <2>1. PICK old : old = order[o] OBVIOUS
  <2>2. PICK new : new = [old EXCEPT !.status = "PENDING", !.credit = policy] OBVIOUS
  <2>3. new \in Paid!Order BY <1>1, <2>1, <2>2 DEF Paid!Order
  <2>4. order' = [order EXCEPT ![o] = new]
        /\ UNCHANGED <<policy, trade, acked, txn, quota, handler, adjusted, days, crashes>>
    BY <1>2, <2>1, <2>2 DEF Paid!CreateOrder, Paid!Alipay, Paid!Bounds
  <2>5. order' \in [Orders -> Paid!Order] BY <1>1, <2>3, <2>4
  <2>6. PaidRows' BY <2>4, <2>5 DEF PaidInv, PaidRows
  <2> QED BY <2>4, <2>6, PaidRest
<1>3. ASSUME NEW o \in Orders, Paid!Pay(o) \/ Paid!Close(o) PROVE PaidInv'
  <2>1. PICK s \in {"paid", "closed"} : trade' = [trade EXCEPT ![o] = s]
    BY <1>3 DEF Paid!Pay, Paid!Close
  <2>2. UNCHANGED <<policy, acked, order, txn, quota, handler, adjusted, days, crashes>>
    BY <1>3 DEF Paid!Pay, Paid!Close, Paid!Bounds
  <2>3. trade' \in [Orders -> {"wait", "paid", "closed"}] BY <1>1, <2>1
  <2>4. PaidRows' BY <2>2, <2>3 DEF PaidInv, PaidRows
  <2> QED BY <2>2, <2>4, PaidRest
<1>4. CASE Paid!SetPolicy \/ Paid!NewDay
  <2>1. /\ UNCHANGED <<trade, acked, order, txn, handler, adjusted, crashes>> /\ policy' \in Rates
    BY <1>1, <1>4 DEF Paid!SetPolicy, Paid!NewDay, Paid!Alipay, Paid!Bounds
  <2>2. days' \in 0..MaxDays /\ quota' \in QuotaRows
    <3>1. CASE Paid!SetPolicy BY <1>1, <3>1 DEF Paid!SetPolicy, Paid!Bounds
    <3>2. CASE Paid!NewDay
      <4>1. MaxDays \in Nat BY JobsAssumption
      <4>2. days' \in 0..MaxDays BY <1>1, <3>2, <4>1 DEF Paid!NewDay
      <4>3. quota' = [quota EXCEPT !.today = FALSE] BY <3>2 DEF Paid!NewDay
      <4> QED BY <1>1, <4>2, <4>3 DEF QuotaRows
    <3> QED BY <1>4, <3>1, <3>2
  <2>3. PaidRows' BY <2>1, <2>2 DEF PaidInv, PaidRows
  <2> QED BY <2>1, <2>3, PaidRest
<1>5. ASSUME NEW h \in Handlers,
             \/ \E o \in Orders : Paid!Notify(h, o) \/ Paid!Refresh(h, o)
             \/ Paid!Adjust(h) \/ Paid!HandlerStep(h)
      PROVE  PaidInv'
  BY <1>5, PaidAsks, PaidSettles, PaidAdjusts DEF Paid!HandlerStep
<1>6. ASSUME NEW h \in Handlers, Paid!Die(h) PROVE PaidInv'
  <2>1. /\ UNCHANGED <<policy, trade, acked, order, txn, quota, adjusted, days>>
        /\ crashes < MaxCrashes /\ crashes' = crashes + 1 /\ Paid!Ends(h)
    BY <1>6 DEF Paid!Die, Paid!Alipay
  <2>2. MaxCrashes \in Nat BY JobsAssumption
  <2>3. crashes' \in 0..MaxCrashes BY <1>1, <2>1, <2>2
  <2>4. PaidRows' BY <2>1, <2>3 DEF PaidInv, PaidRows
  <2>5. PICK x \in HandlerRows : handler' = [handler EXCEPT ![h] = x] /\ x.at = "idle"
    BY <2>1, PaidEnds
  <2>6. adjusted' \in AdjustedRows BY <2>1 DEF PaidInv
  <2> QED BY <2>1, <2>4, <2>5, <2>6, PaidMove
<1> QED BY <1>2, <1>3, <1>4, <1>5, <1>6 DEF Paid!Next

\* What the invariant says of the types.
LEMMA PaidPromise == PaidInv => Paid!TypeOK
<1> SUFFICES ASSUME PaidInv PROVE Paid!TypeOK OBVIOUS
<1>1. handler \in [Handlers -> Paid!Handler] BY DEF PaidInv, HandlerRows
<1>2. Cardinality(Adjusting) \in Nat
  <2>1. Adjusting \subseteq Handlers /\ IsFiniteSet(Handlers) BY JobsAssumption DEF Adjusting
  <2> QED BY <2>1, FS_Subset, FS_CardinalityType
<1>3. adjusted.booked \in Nat /\ adjusted.started \in Nat /\ MaxAdjusts \in Nat
  BY JobsAssumption DEF PaidInv, AdjustedRows
<1>4. adjusted.booked \in 0..MaxAdjusts /\ adjusted.started \in 0..MaxAdjusts
  BY <1>2, <1>3 DEF PaidInv
<1>5. adjusted \in [started : 0..MaxAdjusts, booked : 0..MaxAdjusts, unbooked : Int, sum : Int]
  BY <1>4 DEF PaidInv, AdjustedRows
<1> QED BY <1>1, <1>5 DEF PaidInv, PaidRows, QuotaRows, Paid!TypeOK

-----------------------------------------------------------------------------
(* The components together. *)

\* The invariant of the subject.
JobsInv ==
  /\ \A n \in DOMAIN Generations : subject = n => GenInv(n)
  /\ \A n \in DOMAIN Watches : subject = n => WatchInv(n) /\ commands \in Nat
  /\ \A n \in DOMAIN Libraries : subject = n => LibraryInv(n)
  /\ \A n \in DOMAIN Registries : subject = n => RegistryInv(n)
  /\ InboxInv /\ AlertInv /\ PaidInv

\* The subject starts with the constants of its own row of the table.
LEMMA JobsInit == Init => JobsInv
<1> SUFFICES ASSUME Init PROVE JobsInv OBVIOUS
<1>1. ASSUME NEW n \in DOMAIN Generations, subject = n PROVE GenInv(n)
  <2>1. Generation(n)!Init BY <1>1 DEF Init, Starts
  <2> QED BY <2>1, GenInit
<1>2. ASSUME NEW n \in DOMAIN Watches, subject = n PROVE WatchInv(n) /\ commands \in Nat
  <2>1. Watch(n)!Init BY <1>2 DEF Init, Starts
  <2>2. commands = 0 BY <2>1 DEF Watch!Init
  <2> QED BY <2>1, <2>2, WatchInit
<1>3. ASSUME NEW n \in DOMAIN Libraries, subject = n PROVE LibraryInv(n)
  <2>1. Library(n)!Init BY <1>3 DEF Init, Starts
  <2> QED BY <2>1, LibraryInit
<1>4. ASSUME NEW n \in DOMAIN Registries, subject = n PROVE RegistryInv(n)
  <2>1. Registry(n)!Init BY <1>4 DEF Init, Starts
  <2> QED BY <2>1, RegistryInit
<1>5. InboxInv /\ AlertInv /\ PaidInv BY NotifiedInit, PaidInit DEF Init
<1> QED BY <1>1, <1>2, <1>3, <1>4, <1>5 DEF JobsInv

\* A component whose variables rest keeps its invariant, whatever the others do.
LEMMA GenRests ==
  ASSUME NEW n \in DOMAIN Generations, GenInv(n), UNCHANGED generation PROVE GenInv(n)'
<1> USE DEF generation
<1>1. GenTypes(n)' BY DEF GenInv, GenTypes, Generation!TypeOK
<1>2. Generation(n)!ResultsExist' BY DEF GenInv, Generation!ResultsExist
<1>3. GenKnown(n)' /\ GenOnce(n)' BY DEF GenInv, GenKnown, GenOnce
<1>4. GenHeard(n)' BY DEF GenInv, GenHeard, GenEnded, Generation!Created
<1> QED BY <1>1, <1>2, <1>3, <1>4 DEF GenInv

\* Likewise the monitors.
LEMMA WatchRests ==
  ASSUME NEW n \in DOMAIN Watches, WatchInv(n), commands \in Nat, UNCHANGED monitors
  PROVE  WatchInv(n)' /\ commands' \in Nat /\ Watch(n)!StoppedStep
<1> USE DEF monitors
<1>1. Watch(n)!TypeOK' BY DEF WatchInv, Watch!TypeOK
<1>2. Watch(n)!OneClaim' BY DEF WatchInv, Watch!OneClaim
<1>3. WatchInv(n)' BY <1>1, <1>2 DEF WatchInv
<1>4. Watch(n)!StoppedStep BY DEF Watch!StoppedStep, Watch!Active
<1> QED BY <1>3, <1>4

\* Likewise the library.
LEMMA LibraryRests ==
  ASSUME NEW n \in DOMAIN Libraries, LibraryInv(n), UNCHANGED documents
  PROVE  LibraryInv(n)' /\ Library(n)!GoneStep
<1> USE DEF documents
<1>1. LibraryRows(n)' BY DEF LibraryInv, LibraryRows
<1>2. Library(n)!PlacesExist'
  BY DEF LibraryInv, Library!PlacesExist, Library!Exists, Library!Place
<1>3. LibraryChunks(n)'
  BY DEF LibraryInv, LibraryChunks, HasChunks, Deleting, Library!Exists
<1>4. LibraryWork(n)' BY DEF LibraryInv, LibraryWork, Library!ProcessingIsWorked
<1>5. Library(n)!GoneStep BY DEF Library!GoneStep
<1> QED BY <1>1, <1>2, <1>3, <1>4, <1>5 DEF LibraryInv

\* Likewise the registry.
LEMMA RegistryRests ==
  ASSUME NEW n \in DOMAIN Registries, RegistryInv(n), UNCHANGED skills PROVE RegistryInv(n)'
BY DEF RegistryInv, skills, Registry!MarketNeedsApproval

\* Likewise notifications and alerts.
LEMMA NotifiedRests ==
  /\ InboxInv /\ UNCHANGED messages => InboxInv'
  /\ AlertInv /\ UNCHANGED alerts => AlertInv'
BY DEF InboxInv, AlertInv, messages, alerts, Notified!ReportedIsRead

\* Likewise the recharges.
LEMMA PaidRests == PaidInv /\ UNCHANGED money => PaidInv'
<1> SUFFICES ASSUME PaidInv, UNCHANGED money PROVE PaidInv' OBVIOUS
<1>1. PaidRows' BY DEF PaidInv, PaidRows, money
<1> QED BY <1>1, PaidRest DEF money

\* The subject moves by a step of its own, or its variables rest.
LEMMA OneMoves ==
  ASSUME [Next]_jobVars
  PROVE  /\ subject' = subject
         /\ \A n \in DOMAIN Generations : subject = n => Generation(n)!Next \/ UNCHANGED generation
         /\ \A n \in DOMAIN Watches : subject = n => Watch(n)!Next \/ UNCHANGED monitors
         /\ \A n \in DOMAIN Libraries : subject = n => Library(n)!Next \/ UNCHANGED documents
         /\ \A n \in DOMAIN Registries : subject = n => Registry(n)!Next \/ UNCHANGED skills
         /\ Notified!InboxNext \/ UNCHANGED messages
         /\ Notified!ChannelNext \/ UNCHANGED alerts
         /\ Paid!Next \/ UNCHANGED money
<1> USE DEF Next, jobVars, GenerationMoves, MonitorsMove, MessagesMove, AlertsMove, DocumentsMove,
            SkillsMove, MoneyMoves
<1>1. subject' = subject OBVIOUS
<1>2. \A n \in DOMAIN Generations : subject = n => Generation(n)!Next \/ UNCHANGED generation
  OBVIOUS
<1>3. \A n \in DOMAIN Watches : subject = n => Watch(n)!Next \/ UNCHANGED monitors OBVIOUS
<1>4. \A n \in DOMAIN Libraries : subject = n => Library(n)!Next \/ UNCHANGED documents OBVIOUS
<1>5. \A n \in DOMAIN Registries : subject = n => Registry(n)!Next \/ UNCHANGED skills OBVIOUS
<1>6. Notified!InboxNext \/ UNCHANGED messages OBVIOUS
<1>7. Notified!ChannelNext \/ UNCHANGED alerts OBVIOUS
<1>8. Paid!Next \/ UNCHANGED money OBVIOUS
<1> QED BY <1>1, <1>2, <1>3, <1>4, <1>5, <1>6, <1>7, <1>8

\* Each component keeps its invariant when it moves, and rests when another does.
LEMMA JobsStep == JobsInv /\ [Next]_jobVars => JobsInv'
<1> SUFFICES ASSUME JobsInv, [Next]_jobVars PROVE JobsInv' OBVIOUS
<1>1. subject' = subject BY OneMoves
<1>2. ASSUME NEW n \in DOMAIN Generations, subject = n PROVE GenInv(n)'
  BY <1>2, OneMoves, GenStep, GenRests DEF JobsInv
<1>3. ASSUME NEW n \in DOMAIN Watches, subject = n PROVE WatchInv(n)' /\ commands' \in Nat
  BY <1>3, OneMoves, WatchStep, WatchCommands, WatchRests DEF JobsInv
<1>4. ASSUME NEW n \in DOMAIN Libraries, subject = n PROVE LibraryInv(n)'
  BY <1>4, OneMoves, LibraryStep, LibraryRests DEF JobsInv
<1>5. ASSUME NEW n \in DOMAIN Registries, subject = n PROVE RegistryInv(n)'
  BY <1>5, OneMoves, RegistryStep, RegistryRests DEF JobsInv
<1>6. InboxInv' /\ AlertInv' BY OneMoves, InboxStep, AlertStep, NotifiedRests DEF JobsInv
<1>7. PaidInv' BY OneMoves, PaidStep, PaidRests DEF JobsInv
<1> QED BY <1>1, <1>2, <1>3, <1>4, <1>5, <1>6, <1>7 DEF JobsInv

\* In every state of every behaviour the invariant of the subject holds.
THEOREM JobsHold == Spec => []JobsInv
BY JobsInit, JobsStep, PTL DEF Spec

\* Every row, message, queue entry and worker of the background jobs keeps its type, for
\* any number of tasks, monitors, documents, skills, alerts and recharges.
THEOREM JobsKeepTheirTypes == Spec => []TypesHold
<1>1. JobsInv => TypesHold
  <2> SUFFICES ASSUME JobsInv PROVE TypesHold OBVIOUS
  <2>1. \A n \in DOMAIN Generations : subject = n => Generation(n)!TypeOK
    BY GenPromise DEF JobsInv
  <2>2. \A n \in DOMAIN Watches : subject = n => Watch(n)!TypeOK BY DEF JobsInv, WatchInv
  <2>3. \A n \in DOMAIN Libraries : subject = n => Library(n)!TypeOK
    BY LibraryPromise DEF JobsInv
  <2>4. \A n \in DOMAIN Registries : subject = n => Registry(n)!TypeOK
    BY RegistryPromise DEF JobsInv
  <2>5. Notified!TypeOK /\ Paid!TypeOK BY NotifiedPromise, PaidPromise DEF JobsInv
  <2> QED BY <2>1, <2>2, <2>3, <2>4, <2>5 DEF TypesHold
<1> QED BY <1>1, JobsHold, PTL

\* What a row says was done was done: results, cancellations, leases, receipts, alerts,
\* places and chunks of documents and approvals are as recorded, however many workers,
\* desktops, readers and administrators there are and whatever is delivered twice.
THEOREM WhatIsRecordedWasDone == Spec => []DoneAsRecorded
<1>1. JobsInv => DoneAsRecorded
  <2> SUFFICES ASSUME JobsInv PROVE DoneAsRecorded OBVIOUS
  <2>1. \A n \in DOMAIN Generations :
          subject = n => Generation(n)!ResultsExist /\ Generation(n)!CancelHonoured
    BY GenPromise DEF JobsInv
  <2>2. \A n \in DOMAIN Watches : subject = n => Watch(n)!OneClaim BY DEF JobsInv, WatchInv
  <2>3. \A n \in DOMAIN Libraries : subject = n =>
          Library(n)!PlacesExist /\ Library(n)!IndexedHasChunks /\ Library(n)!ProcessingIsWorked
    BY LibraryPromise DEF JobsInv
  <2>4. \A n \in DOMAIN Registries : subject = n => Registry(n)!MarketNeedsApproval
    BY RegistryPromise DEF JobsInv
  <2>5. Notified!ReportedIsRead /\ Notified!TriedEverything BY NotifiedPromise DEF JobsInv
  <2> QED BY <2>1, <2>2, <2>3, <2>4, <2>5 DEF DoneAsRecorded
<1> QED BY <1>1, JobsHold, PTL

\* No step of a worker that began earlier brings back a monitor that was paused, suspended
\* or deleted, or a document that was deleted.
THEOREM WhatWasEndedStaysEnded == Spec => EndedStays
<1>1. JobsInv /\ [Next]_jobVars =>
        [ /\ \A n \in DOMAIN Watches : subject = n => Watch(n)!StoppedStep
          /\ \A n \in DOMAIN Libraries : subject = n => Library(n)!GoneStep ]_jobVars
  <2> SUFFICES ASSUME JobsInv, [Next]_jobVars
               PROVE  /\ \A n \in DOMAIN Watches : subject = n => Watch(n)!StoppedStep
                      /\ \A n \in DOMAIN Libraries : subject = n => Library(n)!GoneStep
    OBVIOUS
  <2>1. \A n \in DOMAIN Watches : subject = n => Watch(n)!StoppedStep
    BY OneMoves, WatchStopped, WatchRests DEF JobsInv
  <2>2. \A n \in DOMAIN Libraries : subject = n => Library(n)!GoneStep
    BY OneMoves, LibraryStep, LibraryRests DEF JobsInv
  <2> QED BY <2>1, <2>2
<1> QED BY <1>1, JobsHold, PTL DEF Spec, EndedStays

=============================================================================
