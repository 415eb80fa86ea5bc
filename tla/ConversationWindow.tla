------------------------- MODULE ConversationWindow -------------------------
(***************************************************************************)
(* One chat session.  Redis keeps a window of its last messages, a hash of *)
(* counters and the current summary; the database keeps every message      *)
(* under its turn_index, and every summary under its version.  At work on  *)
(* it are                                                                  *)
(*   turn    a request that appends its messages (ConversationAppendStep,  *)
(*           or _append_stream_conversation after a stream); when it       *)
(*           regenerates an answer it also deletes the old one;            *)
(*   delete  DELETE /conversations/{id}/messages/{turn_index};             *)
(*   clear   POST /conversations/{id}/clear;                               *)
(*   idle    the idle check that asks for a summary;                       *)
(* and the Celery tasks that summarize.  Every await between two accesses  *)
(* to Redis or the database ends a step.                                   *)
(*                                                                         *)
(* A message counts for one token.  A field missing in the hash reads as   *)
(* 0, so a missing hash is Blank.  The row of the session exists (the      *)
(* client creates the session), and its message_count is read and written  *)
(* in one step.  Left out: failures of the database, the keys' TTL while   *)
(* the session is in use, the pending flag of the idle check, naming the   *)
(* topic, and the memory extraction that also listens to appends.          *)
(***************************************************************************)
EXTENDS Integers, Sequences, FiniteSets, FiniteSetsExt, SequencesExt, TLC

CONSTANTS
  Work,        \* Work[o]: what operation o does
  Crowds,      \* the sets of operations that happen together
  Texts,       \* what a message can say
  Opening,     \* the messages of the session at the start, turn 1 first
  MaxTurns,    \* CONVERSATION_ACTIVE_WINDOW_TURNS
  MaxOverflow, \* ... times CONVERSATION_WINDOW_OVERFLOW_RATIO
  FlushAt,     \* CONVERSATION_FLUSH_THRESHOLD_TOKENS
  MaxLoad,     \* a bound on the operations that happen and the faults together
  NoOne        \* nobody holds a lock

Ops == DOMAIN Work
Kind(o) == Work[o].kind
Messages(o) == Work[o].messages   \* what a turn appends
Target(o) == Work[o].target       \* the turn_index to delete, 0 for none

ASSUME WindowAssumption ==
  /\ IsFiniteSet(Ops)
  /\ NoOne \notin Ops
  /\ Crowds \subseteq SUBSET Ops /\ \A S \in Crowds : Cardinality(S) <= MaxLoad
  /\ \A o \in Ops : /\ Kind(o) \in {"turn", "delete", "clear", "idle"}
                    /\ Target(o) \in Nat
                    /\ Messages(o) \in Seq(Texts)
                    /\ Kind(o) = "turn" => Messages(o) # <<>>
  /\ Opening \in Seq(Texts)
  /\ {MaxLoad, MaxTurns, MaxOverflow, FlushAt} \subseteq Nat
  /\ 0 < MaxTurns /\ MaxTurns <= MaxOverflow

VARIABLES
  window,   \* the list conversation:messages, of entries [turn, text, deleted]
  meta,     \* the hash conversation:meta
  summary,  \* conversation:summary; version 0 when there is none
  rows,     \* conversation_message: rows[t] is the message with turn_index t
  hidden,   \* the turns that are soft-deleted in the database
  count,    \* conversation_session.message_count
  books,    \* conversation_summary: the versions that are stored
  lock,     \* holder of the session lock
  held,     \* holder of the database's lock on the session's row
  stage,    \* stage[o]: where operation o is
  turns,    \* turns[o]: the turn indexes that o's messages were given
  seen,     \* seen[o]: the number o has read last
  found,    \* found[o]: the entry that o is deleting, and its place
  flush,    \* the turns for which a script replied should_flush
  task,     \* task[o]: the summarize task that o dispatched
  load,     \* how many operations happen, and how many faults there were so far
  calm      \* no clear so far, and no fault that the turns' indexes depend on

redisVars == <<window, meta, summary>>
dbVars == <<rows, hidden, count, books, held>>
opVars == <<turns, seen, found, flush>>
vars == <<redisVars, dbVars, lock, stage, opVars, task, load, calm>>

Blank == [turn |-> 0, tokens |-> 0, version |-> 0, busy |-> FALSE]
NoSummary == [version |-> 0, to |-> 0]
Entry(t, m) == [turn |-> t, text |-> m, deleted |-> FALSE]
Nothing == [place |-> 0, entry |-> Entry(0, 0)]
NoTask == [stage |-> "free", window |-> <<>>, turn |-> 0, version |-> 0]

Turns(w) == {w[i].turn : i \in DOMAIN w}
Highest == Max(DOMAIN rows \cup {0})

\* Mutant of Trimmed: keeps the overflow.
TrimmedLate(w) == IF Len(w) > MaxOverflow + 1 THEN SubSeq(w, Len(w) - MaxTurns + 1, Len(w)) ELSE w

\* The end of APPEND_LUA: LTRIM once the overflow is exceeded.
Trimmed(w) == IF Len(w) > MaxOverflow THEN SubSeq(w, Len(w) - MaxTurns + 1, Len(w)) ELSE w

-----------------------------------------------------------------------------
\* Some of the operations happen; the keys in Redis are there, or have expired.
\* The tables conversation_session, conversation_message and conversation_summary:
\* what was said before, none of it deleted, and no summary.
Stored ==
  /\ rows = [t \in DOMAIN Opening |-> Opening[t]]
  /\ hidden = {}
  /\ count = Len(Opening)
  /\ books = {}

Init ==
  /\ Stored
  /\ \/ window = <<>> /\ meta = Blank
     \/ /\ window = Trimmed([t \in DOMAIN Opening |-> Entry(t, Opening[t])])
        /\ meta = [Blank EXCEPT !.turn = Len(Opening), !.tokens = Len(Opening)]
  /\ summary = NoSummary
  /\ lock = NoOne /\ held = NoOne
  /\ \E S \in Crowds : /\ stage = [o \in Ops |-> IF o \in S THEN "idle" ELSE "done"]
                      /\ load = Cardinality(S)
  /\ turns = [o \in Ops |-> <<>>]
  /\ seen = [o \in Ops |-> 0]
  /\ found = [o \in Ops |-> Nothing]
  /\ flush = {}
  /\ task = [o \in Ops |-> NoTask]
  /\ calm = TRUE

\* A call fails, a process crashes, or the session lock expires too early.
Fault == load < MaxLoad /\ load' = load + 1

\* o moves from stage s to stage n.
Moves(o, s, n) == stage[o] = s /\ stage' = [stage EXCEPT ![o] = n]

(* The session lock, and sync_redis_last_turn *)

\* Mutant of Acquire: the lock is not exclusive.
AcquireAnyway(o) ==
  /\ Kind(o) = "turn"
  /\ lock' = o
  /\ Moves(o, "idle", "read")
  /\ UNCHANGED <<redisVars, dbVars, opVars, task, load, calm>>

\* DistributedLock.acquire: SET NX EX 10
Acquire(o) ==
  /\ Kind(o) = "turn"
  /\ lock = NoOne
  /\ lock' = o
  /\ Moves(o, "idle", "read")
  /\ UNCHANGED <<redisVars, dbVars, opVars, task, load, calm>>

\* Three tries in 0.2 s found the lock taken, or failed: the turn is not written
\* anywhere.
GiveUp(o) ==
  /\ Kind(o) = "turn"
  /\ (lock # NoOne /\ UNCHANGED load) \/ Fault
  /\ Moves(o, "idle", "dropped")
  /\ UNCHANGED <<redisVars, dbVars, lock, opVars, task, calm>>

ReadTurn(o) ==
  /\ Moves(o, "read", "compare")
  /\ seen' = [seen EXCEPT ![o] = meta.turn]
  /\ UNCHANGED <<redisVars, dbVars, lock, turns, found, flush, task, load, calm>>

\* Mutant of Compare: trusts the counter in Redis.
CompareTrusting(o) ==
  /\ Moves(o, "compare", "append")
  /\ UNCHANGED <<redisVars, dbVars, lock, opVars, task, load, calm>>

\* SELECT max(turn_index): is Redis behind?
Compare(o) ==
  /\ Moves(o, "compare", IF Highest > seen[o] THEN "raise" ELSE "append")
  /\ seen' = [seen EXCEPT ![o] = Highest]
  /\ UNCHANGED <<redisVars, dbVars, lock, turns, found, flush, task, load, calm>>

Raise(o) ==
  /\ Moves(o, "raise", "append")
  /\ meta' = [meta EXCEPT !.turn = seen[o]]
  /\ UNCHANGED <<window, summary, dbVars, lock, opVars, task, load, calm>>

\* An error of the synchronisation is logged, and the append goes on.
SyncFails(o) ==
  /\ Fault
  /\ stage[o] \in {"read", "compare", "raise"}
  /\ stage' = [stage EXCEPT ![o] = "append"]
  /\ calm' = FALSE
  /\ UNCHANGED <<redisVars, dbVars, lock, opVars, task>>

-----------------------------------------------------------------------------
(* append_messages *)

\* APPEND_LUA for the next message of o.
AppendMessage(o) ==
  LET n == Len(turns[o]) + 1
      t == meta.turn + 1
      full == meta.tokens + 1 >= FlushAt \/ o \in flush
  IN /\ Moves(o, "append", IF n < Len(Messages(o)) THEN "append"
                           ELSE IF full THEN "full" ELSE "unlock")
     /\ meta' = [meta EXCEPT !.turn = t, !.tokens = @ + 1]
     /\ window' = Trimmed(Append(window, Entry(t, Messages(o)[n])))
     /\ turns' = [turns EXCEPT ![o] = Append(@, t)]
     /\ flush' = IF full THEN flush \cup {o} ELSE flush
     /\ UNCHANGED <<summary, dbVars, lock, seen, found, task, load, calm>>

\* A summary is asked for unless one is being made.
CheckBusy(o) ==
  /\ Moves(o, "full", IF meta.busy THEN "unlock" ELSE "mark")
  /\ UNCHANGED <<redisVars, dbVars, lock, opVars, task, load, calm>>

MarkBusy(o) ==
  /\ Moves(o, "mark", "dispatch")
  /\ meta' = [meta EXCEPT !.busy = TRUE]
  /\ UNCHANGED <<window, summary, dbVars, lock, opVars, task, load, calm>>

\* conversation_summarize.delay
Dispatch(o) ==
  /\ Moves(o, "dispatch", "remark")
  /\ task' = [task EXCEPT ![o].stage = "queued"]
  /\ UNCHANGED <<redisVars, dbVars, lock, opVars, load, calm>>

\* The job's id is stored, and the flag once more.
MarkAgain(o) ==
  /\ Moves(o, "remark", IF Kind(o) = "turn" THEN "unlock" ELSE "done")
  /\ meta' = [meta EXCEPT !.busy = TRUE]
  /\ UNCHANGED <<window, summary, dbVars, lock, opVars, task, load, calm>>

\* Any call of append_messages raises: what is in Redis stays, and the turn
\* indexes will come from the database.
AppendFails(o) ==
  /\ Fault
  /\ Kind(o) = "turn"
  /\ stage[o] \in {"append", "full", "mark", "dispatch", "remark"}
  /\ stage' = [stage EXCEPT ![o] = "rescue"]
  /\ calm' = FALSE
  /\ UNCHANGED <<redisVars, dbVars, lock, opVars, task>>

\* The lock is released when it is still o's; a failing release leaves it to its TTL.
Release(o) ==
  /\ \/ Moves(o, "unlock", "touch")
     \/ Moves(o, "rescue", "reserve")
  /\ \/ lock' = (IF lock = o THEN NoOne ELSE lock) /\ UNCHANGED load
     \/ Fault /\ UNCHANGED lock
  /\ UNCHANGED <<redisVars, dbVars, opVars, task, calm>>

-----------------------------------------------------------------------------
(* The rows of the turn *)

\* upsert_session
Touch(o) ==
  /\ held = NoOne
  /\ Moves(o, "touch", "insert")
  /\ count' = Max({count, Last(turns[o])})
  /\ UNCHANGED <<redisVars, rows, hidden, books, held, lock, opVars, task, load, calm>>

\* reserve_turn_indexes, under SELECT ... FOR UPDATE of the session's row
Reserve(o) ==
  LET base == Max({count, Highest})
  IN /\ held = NoOne
     /\ Moves(o, "reserve", "insert")
     /\ held' = o
     /\ turns' = [turns EXCEPT ![o] = [i \in DOMAIN Messages(o) |-> base + i]]
     /\ UNCHANGED <<redisVars, rows, hidden, count, books, lock, seen, found, flush, task, load, calm>>

\* The rows of o; of two with one turn index the first is inserted.
RowsOf(o) == [t \in ToSet(turns[o]) |-> Messages(o)[Min({i \in DOMAIN turns[o] : turns[o][i] = t})]]

\* INSERT ... ON CONFLICT (session_id, turn_index) DO NOTHING
Inserted(table, new) ==
  [t \in DOMAIN table \cup DOMAIN new |-> IF t \in DOMAIN table THEN table[t] ELSE new[t]]

\* Where a turn goes after its rows, and where a deletion goes after Redis.
AfterInsert(o) == IF Target(o) = 0 THEN "done" ELSE "find"
AfterDelete(o) == IF Kind(o) = "turn" THEN "hide" ELSE "done"

\* Mutant of Insert: ON CONFLICT DO UPDATE.
InsertOver(o) ==
  /\ Moves(o, "insert", AfterInsert(o))
  /\ rows' = Inserted(RowsOf(o), rows)
  /\ IF held = o THEN held' = NoOne /\ count' = Max({count, Last(turns[o])})
                 ELSE UNCHANGED <<held, count>>
  /\ UNCHANGED <<redisVars, hidden, books, lock, opVars, task, load, calm>>

\* bulk_insert_messages, and the commit of a reservation
Insert(o) ==
  /\ Moves(o, "insert", AfterInsert(o))
  /\ rows' = Inserted(rows, RowsOf(o))
  /\ IF held = o THEN held' = NoOne /\ count' = Max({count, Last(turns[o])})
                 ELSE UNCHANGED <<held, count>>
  /\ UNCHANGED <<redisVars, hidden, books, lock, opVars, task, load, calm>>

-----------------------------------------------------------------------------
(* delete_message and clear_session *)

\* LRANGE: the first entry with the turn that is not deleted yet
Find(o) ==
  LET hits == {i \in DOMAIN window : window[i].turn = Target(o) /\ ~window[i].deleted}
  IN /\ Kind(o) \in {"turn", "delete"}
     /\ Moves(o, IF Kind(o) = "turn" THEN "find" ELSE "idle",
              IF hits = {} THEN AfterDelete(o) ELSE "set")
     /\ found' = IF hits = {} THEN found
                 ELSE [found EXCEPT ![o] = [place |-> Min(hits), entry |-> window[Min(hits)]]]
     /\ UNCHANGED <<redisVars, dbVars, lock, turns, seen, flush, task, load, calm>>

\* LSET at the place read before; an error when the list is shorter by now
SetDeleted(o) ==
  LET at == found[o].place
  IN /\ Moves(o, "set", IF at \in DOMAIN window THEN "discount" ELSE AfterDelete(o))
     /\ window' = IF at \in DOMAIN window
                  THEN [window EXCEPT ![at] = [found[o].entry EXCEPT !.deleted = TRUE]]
                  ELSE window
     /\ UNCHANGED <<meta, summary, dbVars, lock, opVars, task, load, calm>>

\* HINCRBY total_tokens, whose failure is ignored
Discount(o) ==
  /\ Moves(o, "discount", AfterDelete(o))
  /\ \/ meta' = [meta EXCEPT !.tokens = @ - 1] /\ UNCHANGED load
     \/ Fault /\ UNCHANGED meta
  /\ UNCHANGED <<window, summary, dbVars, lock, opVars, task, calm>>

DeleteFails(o) ==
  /\ Fault
  /\ Moves(o, "set", AfterDelete(o))
  /\ UNCHANGED <<redisVars, dbVars, lock, opVars, task, calm>>

\* soft_delete_by_turn_index, for the answer that was regenerated only
Hide(o) ==
  /\ Moves(o, "hide", "done")
  /\ hidden' = hidden \cup ({Target(o)} \cap DOMAIN rows)
  /\ UNCHANGED <<redisVars, rows, count, books, held, lock, opVars, task, load, calm>>

\* DEL of the three keys, without the session lock
Clear(o) ==
  /\ Kind(o) = "clear"
  /\ Moves(o, "idle", "done")
  /\ window' = <<>> /\ meta' = Blank /\ summary' = NoSummary
  /\ calm' = FALSE
  /\ UNCHANGED <<dbVars, lock, opVars, task, load>>

-----------------------------------------------------------------------------
(* The idle check: no session lock, and the flag is set after the dispatch *)

\* The session was active lately, or nothing is known of it: nothing to do.
IdleSkips(o) ==
  /\ Kind(o) = "idle"
  /\ Moves(o, "idle", "done")
  /\ UNCHANGED <<redisVars, dbVars, lock, opVars, task, load, calm>>

IdleRead(o) ==
  /\ Kind(o) = "idle"
  /\ Moves(o, "idle", IF meta.turn = 0 \/ meta.busy THEN "done" ELSE "covered")
  /\ seen' = [seen EXCEPT ![o] = meta.turn]
  /\ UNCHANGED <<redisVars, dbVars, lock, turns, found, flush, task, load, calm>>

\* A summary that covers what was read, or is younger than the interval, will do.
IdleSummary(o) ==
  /\ \/ summary.version # 0 /\ Moves(o, "covered", "done")
     \/ (summary.version # 0 => summary.to < seen[o]) /\ Moves(o, "covered", "dispatch")
  /\ UNCHANGED <<redisVars, dbVars, lock, opVars, task, load, calm>>

IdleFails(o) ==
  /\ Fault
  /\ Kind(o) = "idle"
  /\ stage[o] \in {"covered", "dispatch", "remark"}
  /\ stage' = [stage EXCEPT ![o] = "done"]
  /\ UNCHANGED <<redisVars, dbVars, lock, opVars, task, calm>>

-----------------------------------------------------------------------------
(* conversation_summarize, the task that o dispatched *)

TaskMoves(o, s, n) == task[o].stage = s /\ task' = [task EXCEPT ![o].stage = n]

\* clear_summarizing, and the task ends.
TaskEnds(o) ==
  /\ task' = [task EXCEPT ![o] = NoTask]
  /\ meta' = [meta EXCEPT !.busy = FALSE]
  /\ UNCHANGED <<window, summary, dbVars, lock, stage, opVars, calm>>

\* The entries that are not deleted, each under its place in the list.
Live(w) == [i \in {j \in DOMAIN w : ~w[j].deleted} |-> w[i]]

\* load_window; a window without messages ends the task.
Load(o) ==
  /\ task[o].stage = "queued"
  /\ DOMAIN Live(window) # {}
  /\ task' = [task EXCEPT ![o] = [stage |-> "loaded", window |-> Live(window),
                                  turn |-> meta.turn, version |-> meta.version + 1]]
  /\ UNCHANGED <<redisVars, dbVars, lock, stage, opVars, load, calm>>

LoadNothing(o) ==
  task[o].stage = "queued" /\ DOMAIN Live(window) = {} /\ TaskEnds(o) /\ UNCHANGED load

\* The summarizer or Redis raises.
SummarizeFails(o) == Fault /\ task[o].stage \in {"loaded", "cached", "stored"} /\ TaskEnds(o)

\* update_summary_cache
Cache(o) ==
  /\ TaskMoves(o, "loaded", "cached")
  /\ summary' = [version |-> task[o].version, to |-> Max(Turns(task[o].window))]
  /\ UNCHANGED <<window, meta, dbVars, lock, stage, opVars, load, calm>>

\* The rows that the copy w of the window makes.
RowsIn(w) == [t \in Turns(w) |-> w[Min({i \in DOMAIN w : w[i].turn = t})].text]

\* _persist_summary: one transaction, rolled back when the version is stored already
Persist(o) ==
  /\ held = NoOne
  /\ TaskMoves(o, "cached", "stored")
  /\ IF task[o].version \in books THEN UNCHANGED <<rows, count, books>>
     ELSE /\ books' = books \cup {task[o].version}
          /\ rows' = Inserted(rows, RowsIn(task[o].window))
          /\ count' = Max({count, task[o].turn})
  /\ UNCHANGED <<redisVars, hidden, held, lock, stage, opVars, load, calm>>

\* The counters are those of the window that was loaded.
Close(o) ==
  /\ task[o].stage = "stored"
  /\ task' = [task EXCEPT ![o] = NoTask]
  /\ meta' = [meta EXCEPT !.tokens = Cardinality(DOMAIN task[o].window), !.version = task[o].version,
                          !.busy = FALSE]
  /\ UNCHANGED <<window, summary, dbVars, lock, stage, opVars, load, calm>>

-----------------------------------------------------------------------------
(* Crashes and the lock's TTL *)

\* The process of a turn dies: its transaction is rolled back, its lock stays.
Crash(o) ==
  /\ Fault
  /\ Kind(o) = "turn" /\ stage[o] \notin {"idle", "done", "dropped", "crashed"}
  /\ stage' = [stage EXCEPT ![o] = "crashed"]
  /\ held' = IF held = o THEN NoOne ELSE held
  /\ UNCHANGED <<redisVars, rows, hidden, count, books, lock, opVars, task, calm>>

\* The worker dies; tasks are acknowledged early, so nobody runs it again.
WorkerCrash(o) ==
  /\ Fault
  /\ task[o].stage # "free"
  /\ task' = [task EXCEPT ![o] = NoTask]
  /\ UNCHANGED <<redisVars, dbVars, lock, stage, opVars, calm>>

\* Mutant of LockExpires: SET NX without EX.
LockStays == lock # NoOne /\ UNCHANGED vars

\* EX 10: under a turn that still works, or long after its end.
Locked == {"read", "compare", "raise", "append", "full", "mark", "dispatch", "remark",
           "unlock", "rescue"}
LockExpires ==
  /\ lock # NoOne
  /\ lock' = NoOne
  /\ \/ stage[lock] \notin Locked /\ UNCHANGED <<load, calm>>
     \/ stage[lock] \in Locked /\ Fault /\ calm' = FALSE
  /\ UNCHANGED <<redisVars, dbVars, stage, opVars, task>>

-----------------------------------------------------------------------------
Turn(o) ==
  \/ Acquire(o) \/ GiveUp(o) \/ ReadTurn(o) \/ Compare(o) \/ Raise(o) \/ SyncFails(o)
  \/ AppendMessage(o) \/ CheckBusy(o) \/ MarkBusy(o) \/ AppendFails(o) \/ Release(o)
  \/ Touch(o) \/ Reserve(o) \/ Insert(o) \/ Hide(o)
Delete(o) == Find(o) \/ SetDeleted(o) \/ Discount(o) \/ DeleteFails(o)
Idle(o) == IdleSkips(o) \/ IdleRead(o) \/ IdleSummary(o) \/ IdleFails(o)
Asks(o) == Dispatch(o) \/ MarkAgain(o)
Summarize(o) ==
  Load(o) \/ LoadNothing(o) \/ SummarizeFails(o) \/ Cache(o) \/ Persist(o) \/ Close(o)

\* What o and its task do by themselves.
Works(o) == Turn(o) \/ Delete(o) \/ Clear(o) \/ Idle(o) \/ Asks(o)

Next == (\E o \in Ops : Works(o) \/ Summarize(o) \/ Crash(o) \/ WorkerCrash(o)) \/ LockExpires

\* While a coroutine or a queued task can go on or a TTL runs, something happens.
Spec == Init /\ [][Next]_vars /\ WF_vars(Next)

-----------------------------------------------------------------------------
Stages == {"idle", "read", "compare", "raise", "append", "full", "mark", "dispatch", "remark",
           "unlock", "rescue", "touch", "reserve", "insert", "find", "set", "discount", "hide",
           "covered", "done", "dropped", "crashed"}

Metas == [turn : Nat, tokens : Int, version : Nat, busy : BOOLEAN]
Entries == [turn : Nat, text : Texts, deleted : BOOLEAN]
\* The tasks whose copy of the window has entries at the places D.
Tasks(D) == [stage : {"free", "queued", "loaded", "cached", "stored"}, window : [D -> Entries],
             turn : Nat, version : Nat]

\* The types; APPEND_LUA also keeps the window within its overflow, and only the
\* operations at work hold a lock.
TypeOK ==
  /\ window \in Seq(Entries) /\ Len(window) <= MaxOverflow
  /\ meta \in Metas
  /\ summary \in [version : Nat, to : Nat]
  /\ DOMAIN rows \subseteq Nat /\ rows \in [DOMAIN rows -> Texts]
  /\ hidden \subseteq DOMAIN rows /\ count \in Nat /\ books \subseteq Nat
  /\ {lock, held} \subseteq Ops \cup {NoOne}
  /\ stage \in [Ops -> Stages]
  /\ turns \in [Ops -> Seq(Nat)] /\ seen \in [Ops -> Nat] /\ flush \subseteq Ops
  /\ DOMAIN found = Ops
  /\ \A o \in Ops : stage[o] = "set" => found[o] \in [place : Nat, entry : Entries]
  /\ DOMAIN task = Ops
  /\ \A o \in Ops : \E D \in SUBSET (1..MaxOverflow) : task[o] \in Tasks(D)
  /\ load \in 0..MaxLoad /\ calm \in BOOLEAN

\* Once a turn is through, each of its messages is in the database under the turn
\* index it was given: sync_redis_last_turn hands out no index the database has, so
\* that ON CONFLICT DO NOTHING drops nothing. The summarize task, which writes the
\* same rows from its copy of the window, does not get in the way.
\* It takes a session nobody clears and calls that do not fail: a clear or a failed
\* append between the append and the insert of another turn makes indexes collide.
Persisted ==
  calm => \A o \in Ops : stage[o] \in {"find", "set", "discount", "hide", "done"} =>
            \A i \in DOMAIN turns[o] : rows[turns[o][i]] = Messages(o)[i]

\* In a session without such disturbances, what the window shows under a turn is
\* what the history has under it, and no turn index is given twice.
TurnsAgree ==
  calm => /\ \A i \in DOMAIN window :
               window[i].turn \in DOMAIN rows => window[i].text = rows[window[i].turn]
          /\ \A o, p \in Ops : o # p => ToSet(turns[o]) \cap ToSet(turns[p]) = {}

\* No append, clear, summary, failure or crash changes a message that is in the
\* database or removes it ("不影响已落库的历史", clear_session).
HistoryKept ==
  [][\A t \in DOMAIN rows : t \in DOMAIN rows' /\ rows'[t] = rows[t]]_vars

\* Whatever fails or crashes, all operations come to an end, no task is left, and
\* nobody keeps the session lock or the row lock.
SessionSettles ==
  <>[](/\ lock = NoOne /\ held = NoOne
       /\ \A o \in Ops : stage[o] \in {"done", "dropped", "crashed"} /\ task[o].stage = "free")

(***************************************************************************)
(* A session for TLC: a question and its answer. A second question, whose  *)
(* answer makes the window overflow and asks for a summary; the first      *)
(* answer once more; a clear, the idle check, and a deletion.              *)
(***************************************************************************)
Session == <<"q1", "a1">>
Saying == {"q1", "a1", "q2", "a2", "b1"}

Op(kind, messages, target) == [kind |-> kind, messages |-> messages, target |-> target]

TurnsAndClear ==
  [t1 |-> Op("turn", <<"q2", "a2">>, 0), t2 |-> Op("turn", <<"b1">>, 2),
   c |-> Op("clear", <<>>, 0), i |-> Op("idle", <<>>, 0), d |-> Op("delete", <<>>, 1)]

\* Three of them at a time, or two and a fault; never both turns and the idle check.
Three ==
  {S \in SUBSET DOMAIN TurnsAndClear : Cardinality(S) \in 2..3 /\ ~({"t1", "t2", "i"} \subseteq S)}
=============================================================================
