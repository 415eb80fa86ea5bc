---------------------------- MODULE RoutingArms ----------------------------
(***************************************************************************)
(* What routing remembers of the upstream models and skills it chooses     *)
(* from: the row of each bandit arm, counted up by the feedback of calls,  *)
(* users and monitors, its copy in the versioned cache, and the affinity   *)
(* of a chat session to one upstream.                                      *)
(*                                                                         *)
(* A cached entry carries the configuration version it was written under   *)
(* and is served only under that version; a writer commits the row, raises *)
(* the version and then caches the row it has. Rows are read, counted up   *)
(* in the process and written back, column by column.                      *)
(***************************************************************************)
EXTENDS Naturals

CONSTANTS Arms,           \* candidates with a bandit state
          Writers,        \* calls, users' feedback and monitors that report
          Readers,        \* routers that load the states of the candidates
          Recorders,      \* calls of one chat session that report affinity
          Items,          \* upstreams the session may be routed to
          MaxFeedback,    \* bound on the reports
          CoolThreshold,  \* failure_cooldown_threshold
          ExploreLimit,   \* explore_threshold of the affinity
          FailureLimit,   \* failure_threshold of the affinity
          MaxFlushes      \* bound on losses of the cache

VARIABLES arm,            \* the bandit_arm_state table
          version,        \* config version in Redis, 0 when the key is missing
          entry,          \* cached states
          writer,
          reader,
          affinity,       \* hash of the session in Redis
          recorder,
          reports,
          flushes,
          crossed         \* arms with two writers at work at once

armVars == <<arm, version, entry, writer, reader, affinity, recorder, reports,
             flushes, crossed>>

Count == 0..MaxFeedback
ArmRows == [there: BOOLEAN, trials: Count, wins: Count, fails: Count, cool: BOOLEAN]
NoArm == [there |-> FALSE, trials |-> 0, wins |-> 0, fails |-> 0, cool |-> FALSE]
NewArm == [NoArm EXCEPT !.there = TRUE]
NoEntry == [there |-> FALSE]
Idle == [pc |-> "idle"]

NoLock == [state |-> "init", item |-> "none", explores |-> 0, wins |-> 0, fails |-> 0,
           expired |-> FALSE]

Init ==
    /\ arm = [a \in Arms |-> NoArm]
    /\ version = 0
    /\ entry = [a \in Arms |-> NoEntry]
    /\ writer = [w \in Writers |-> Idle]
    /\ reader = [r \in Readers |-> Idle]
    /\ affinity = NoLock
    /\ recorder = [c \in Recorders |-> Idle]
    /\ reports = 0 /\ flushes = 0
    /\ crossed = {}

(***************************************************************************)
(* Feedback: record_feedback                                               *)
(***************************************************************************)
At(a) == {w \in Writers : writer[w].pc # "idle" /\ writer[w].arm = a}

(* A call ended, a user rated the trace of a skill, or a monitor reports   *)
(* on its strategy: the row of the arm is looked for.                      *)
ReadArm(w, a, success) ==
    /\ writer[w].pc = "idle" /\ reports < MaxFeedback
    /\ reports' = reports + 1
    /\ writer' = [writer EXCEPT ![w] =
         [pc |-> IF arm[a].there THEN "count" ELSE "create", arm |-> a,
          ok |-> success, row |-> arm[a], last |-> FALSE]]
    /\ crossed' = IF At(a) = {} THEN crossed ELSE crossed \cup {a}
    /\ UNCHANGED <<arm, version, entry, reader, affinity, recorder, flushes>>

(* ensure_state: the row is committed before anything is counted.          *)
CreateArm(w) ==
    LET a == writer[w].arm
    IN  /\ writer[w].pc = "create" /\ ~arm[a].there
        /\ arm' = [arm EXCEPT ![a] = NewArm]
        /\ writer' = [writer EXCEPT ![w].pc = "bump", ![w].row = NewArm]
        /\ UNCHANGED <<version, entry, reader, affinity, recorder, reports, flushes,
                       crossed>>

(* Somebody else created it: the unique constraint raises, and the report  *)
(* is dropped with a warning.                                              *)
CreateCollides(w) ==
    /\ writer[w].pc = "create" /\ arm[writer[w].arm].there
    /\ writer' = [writer EXCEPT ![w] = Idle]
    /\ UNCHANGED <<arm, version, entry, reader, affinity, recorder, reports, flushes,
                   crossed>>

Down(n) == IF n > 0 THEN n - 1 ELSE 0

(* The columns that changed against the row as it was read, written over   *)
(* the row as it is now. A success takes one failure back and ends the     *)
(* cooling; the failure that reaches the threshold begins it.              *)
Counted(now, seen, ok) ==
    IF ok
    THEN [now EXCEPT !.trials = seen.trials + 1, !.wins = seen.wins + 1,
                     !.fails = IF seen.fails = 0 THEN @ ELSE Down(seen.fails),
                     !.cool = IF seen.cool THEN FALSE ELSE @]
    ELSE [now EXCEPT !.trials = seen.trials + 1, !.fails = seen.fails + 1,
                     !.cool = IF seen.fails + 1 >= CoolThreshold THEN TRUE ELSE @]

CountFeedback(w) ==
    LET a   == writer[w].arm
        new == Counted(arm[a], writer[w].row, writer[w].ok)
    IN  /\ writer[w].pc = "count"
        /\ arm' = [arm EXCEPT ![a] = new]
        /\ writer' = [writer EXCEPT ![w].pc = "bump", ![w].row = new, ![w].last = TRUE]
        /\ UNCHANGED <<version, entry, reader, affinity, recorder, reports, flushes,
                       crossed>>

(* Mutant: the version is raised for a new row only.                       *)
BumpForNew(w) ==
    /\ writer[w].pc = "bump"
    /\ version' = IF writer[w].last THEN version ELSE version + 1
    /\ writer' = [writer EXCEPT ![w] = [pc |-> "store", arm |-> @.arm, ok |-> @.ok,
                                        row |-> @.row, last |-> @.last, v |-> version']]
    /\ UNCHANGED <<arm, entry, reader, affinity, recorder, reports, flushes, crossed>>

BumpVersion(w) ==
    /\ writer[w].pc = "bump"
    /\ version' = version + 1
    /\ writer' = [writer EXCEPT ![w] = [pc |-> "store", arm |-> @.arm, ok |-> @.ok,
                                        row |-> @.row, last |-> @.last, v |-> version']]
    /\ UNCHANGED <<arm, entry, reader, affinity, recorder, reports, flushes, crossed>>

SetWithVersion(a, v, row) == entry' = [entry EXCEPT ![a] = [there |-> TRUE, v |-> v, row |-> row]]

StoreCounted(w) ==
    /\ writer[w].pc = "store"
    /\ SetWithVersion(writer[w].arm, writer[w].v, writer[w].row)
    /\ writer' = [writer EXCEPT ![w] =
         IF @.last THEN Idle
         ELSE [pc |-> "count", arm |-> @.arm, ok |-> @.ok, row |-> @.row, last |-> FALSE]]
    /\ UNCHANGED <<arm, version, reader, affinity, recorder, reports, flushes, crossed>>

(***************************************************************************)
(* Loading the states: get_states_map                                      *)
(***************************************************************************)
GetVersion(r, a) ==
    /\ reader[r].pc = "idle"
    /\ reader' = [reader EXCEPT ![r] = [pc |-> "cache", arm |-> a, v |-> version]]
    /\ UNCHANGED <<arm, version, entry, writer, affinity, recorder, reports, flushes,
                   crossed>>

(* Without a version the entry is returned with its wrapping, and a state  *)
(* read from the wrapping has no history.                                  *)
ReadCache(r) ==
    LET e == entry[reader[r].arm]
        v == reader[r].v
        got(row) == [pc |-> "done", arm |-> reader[r].arm, v |-> v, row |-> row]
    IN  /\ reader[r].pc = "cache"
        /\ reader' = [reader EXCEPT ![r] =
             IF e.there /\ v = 0 THEN got(NewArm)
             ELSE IF e.there /\ e.v = v THEN got(e.row)
             ELSE [pc |-> "load", arm |-> @.arm, v |-> v]]
        /\ UNCHANGED <<arm, version, entry, writer, affinity, recorder, reports, flushes,
                       crossed>>

LoadArm(r) ==
    /\ reader[r].pc = "load"
    /\ reader' = [reader EXCEPT ![r] =
         [pc |-> IF arm[@.arm].there THEN "store" ELSE "done", arm |-> @.arm,
          v |-> @.v, row |-> arm[@.arm]]]
    /\ UNCHANGED <<arm, version, entry, writer, affinity, recorder, reports, flushes,
                   crossed>>

StoreLoaded(r) ==
    /\ reader[r].pc = "store"
    /\ SetWithVersion(reader[r].arm, reader[r].v, reader[r].row)
    /\ reader' = [reader EXCEPT ![r].pc = "done"]
    /\ UNCHANGED <<arm, version, writer, affinity, recorder, reports, flushes, crossed>>

(* The candidates are ranked or one is drawn; no state is kept.            *)
Choose(r) ==
    /\ reader[r].pc = "done"
    /\ reader' = [reader EXCEPT ![r] = Idle]
    /\ UNCHANGED <<arm, version, entry, writer, affinity, recorder, reports, flushes,
                   crossed>>

EntryExpires(a) ==
    /\ entry[a].there
    /\ entry' = [entry EXCEPT ![a] = NoEntry]
    /\ UNCHANGED <<arm, version, writer, reader, affinity, recorder, reports, flushes,
                   crossed>>

(* Redis comes back empty.                                                 *)
CacheLost ==
    /\ flushes < MaxFlushes /\ flushes' = flushes + 1
    /\ version' = 0
    /\ entry' = [a \in Arms |-> NoEntry]
    /\ affinity' = NoLock
    /\ UNCHANGED <<arm, writer, reader, recorder, reports, crossed>>

(***************************************************************************)
(* Affinity of a session: RoutingAffinityStateMachine                      *)
(***************************************************************************)
Exploring == [NoLock EXCEPT !.state = "exploring"]

(* should_use_affinity: an expired lock goes back to exploring.            *)
UseAffinity(c, item, ok) ==
    /\ recorder[c].pc = "idle" /\ reports < MaxFeedback
    /\ reports' = reports + 1
    /\ recorder' = [recorder EXCEPT ![c] =
         [pc |-> "record", ok |-> ok,
          item |-> IF affinity.state = "locked" /\ ~affinity.expired
                   THEN affinity.item ELSE item]]
    /\ affinity' = IF affinity.state = "locked" /\ affinity.expired
                   THEN Exploring ELSE affinity
    /\ UNCHANGED <<arm, version, entry, writer, reader, flushes, crossed>>

GetContext(c) ==
    /\ recorder[c].pc = "record"
    /\ recorder' = [recorder EXCEPT ![c] =
         [pc |-> "save", ok |-> @.ok, item |-> @.item,
          seen |-> IF affinity.state = "init" THEN Exploring ELSE affinity]]
    /\ affinity' = IF affinity.state = "init" THEN Exploring ELSE affinity
    /\ UNCHANGED <<arm, version, entry, writer, reader, reports, flushes, crossed>>

Won(x, ok) == IF ok /\ x.wins < MaxFeedback THEN x.wins + 1 ELSE x.wins

(* The request that reaches the limit of the exploration locks what it     *)
(* used, however it went.                                                  *)
Explored(x, item, ok) ==
    IF x.explores + 1 >= ExploreLimit
    THEN [x EXCEPT !.state = "locked", !.item = item, !.explores = @ + 1,
                   !.wins = Won(x, ok), !.expired = FALSE]
    ELSE [x EXCEPT !.explores = @ + 1, !.wins = Won(x, ok)]

Tried(x, ok) ==
    IF ok THEN [x EXCEPT !.wins = Won(x, ok), !.fails = 0]
    ELSE IF x.fails + 1 >= FailureLimit THEN Exploring
    ELSE [x EXCEPT !.fails = @ + 1]

(* The hash is written from the context that was read.                     *)
SaveContext(c) ==
    LET x == recorder[c].seen
    IN  /\ recorder[c].pc = "save"
        /\ affinity' = IF x.state = "exploring" THEN Explored(x, recorder[c].item, recorder[c].ok)
                       ELSE Tried(x, recorder[c].ok)
        /\ recorder' = [recorder EXCEPT ![c] = Idle]
        /\ UNCHANGED <<arm, version, entry, writer, reader, reports, flushes, crossed>>

LockExpires ==
    /\ affinity.state = "locked" /\ ~affinity.expired
    /\ affinity' = [affinity EXCEPT !.expired = TRUE]
    /\ UNCHANGED <<arm, version, entry, writer, reader, recorder, reports, flushes, crossed>>

(***************************************************************************)
(* Specification                                                           *)
(***************************************************************************)
WriterStep(w) == \/ CreateArm(w) \/ CreateCollides(w) \/ CountFeedback(w)
                 \/ BumpVersion(w) \/ StoreCounted(w)
ReaderStep(r) == ReadCache(r) \/ LoadArm(r) \/ StoreLoaded(r) \/ Choose(r)
RecorderStep(c) == GetContext(c) \/ SaveContext(c)

Next ==
    \/ \E w \in Writers : WriterStep(w) \/ \E a \in Arms, ok \in BOOLEAN : ReadArm(w, a, ok)
    \/ \E r \in Readers : ReaderStep(r) \/ \E a \in Arms : GetVersion(r, a)
    \/ \E a \in Arms : EntryExpires(a)
    \/ CacheLost
    \/ \E c \in Recorders :
         RecorderStep(c) \/ \E i \in Items, ok \in BOOLEAN : UseAffinity(c, i, ok)
    \/ LockExpires

Spec == Init /\ [][Next]_armVars

(***************************************************************************)
(* Properties                                                              *)
(***************************************************************************)
(* Rows, entries and the session's hash hold what their columns admit.     *)
TypeOK ==
    /\ arm \in [Arms -> ArmRows]
    /\ version \in Nat
    /\ \A a \in Arms : entry[a].there => entry[a].row \in ArmRows
    /\ affinity.state \in {"init", "exploring", "locked"}
    /\ reports \in 0..MaxFeedback /\ flushes \in 0..MaxFlushes

(* Under the current version the cache holds the row as it is, as soon as  *)
(* the writer that changed the row has raised the version; only writers of *)
(* one arm that overlap leave an older one (record_feedback, "bump before  *)
(* writing so that old values do not come back"; flushes aside).           *)
NoOldEntry ==
    \A a \in Arms :
      entry[a].there /\ entry[a].v = version /\ version # 0 /\ flushes = 0
      /\ a \notin crossed /\ (\A w \in At(a) : writer[w].pc # "bump")
        => entry[a].row = arm[a]

(* While the reports of an arm come one after the other, no outcome is     *)
(* lost or counted twice: there are no more successes and failures than    *)
(* trials, and an arm cools only with failures behind it.                  *)
CountsAgree ==
    \A a \in Arms \ crossed :
      /\ arm[a].wins <= arm[a].trials
      /\ arm[a].wins + arm[a].fails <= arm[a].trials
      /\ arm[a].cool => arm[a].fails >= CoolThreshold

(* A lock is given up before the failures in a row reach the limit, and    *)
(* exploring ends before its limit, whatever stale context is written back *)
(* (record_request).                                                       *)
LimitsAreKept ==
    /\ affinity.state = "locked" => affinity.fails < FailureLimit /\ affinity.item # "none"
    /\ affinity.state = "exploring" => affinity.explores < ExploreLimit

(* The comment's promise without the exception: an old value never comes   *)
(* back to the cache. Not so: of two reports side by side, the earlier     *)
(* stores its row under the version of the later.                          *)
OldNeverRevived ==
    \A a \in Arms :
      entry[a].there /\ entry[a].v = version /\ version # 0 /\ At(a) = {}
        => entry[a].row = arm[a]

(* A session is locked to an upstream that served it ("during exploration  *)
(* the best upstream is chosen"). Not so: it is locked after the last      *)
(* exploration, whether or not that succeeded.                             *)
LockedSucceeded == affinity.state = "locked" => affinity.wins > 0
=============================================================================
