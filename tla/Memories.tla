------------------------------ MODULE Memories ------------------------------
(***************************************************************************)
(* What the assistant remembers of a user.                                 *)
(*                                                                         *)
(* Every message of a conversation touches a debouncer in Redis, which     *)
(* keeps at most one delayed Celery task on its way; the task puts itself  *)
(* off while the conversation goes on, and otherwise reads the window,     *)
(* asks a model for facts, and saves each one behind a guard: a fact that  *)
(* is known is dropped, one that is similar is merged, another is added.   *)
(* The user edits the same points through routes that keep a snapshot of   *)
(* what they replace, in the database; the points are in a vector store,   *)
(* outside its transactions.                                               *)
(***************************************************************************)
EXTENDS Naturals, FiniteSets

CONSTANTS Chats,        \* conversations of one user
          Jobs,         \* Celery tasks, on their way or at work
          Points,       \* ids of points in the vector store
          Texts,        \* facts and edits
          Editors,      \* requests of the user to the memory routes
          MaxMessages,  \* bound on the messages of a conversation
          MaxSnapshots, \* bound on the edits
          MaxSlips      \* bound on failures

VARIABLES said,         \* messages appended to each conversation
          recalled,     \* messages an extraction has read and finished with
          lastActive, pending,
          toucher,      \* conversations whose last append is still touching
          job, memory, snapshot, editor, slips,
          neglected,    \* conversations whose extraction has failed
          altered,      \* the point was changed during an edit of it
          learned       \* texts saved since the last known loss

memoryVars == <<said, recalled, lastActive, pending, toucher, job, memory, snapshot,
                editor, slips, neglected, altered, learned>>

Idle == [pc |-> "idle"]
NoPoint == {}           \* a point is the set of texts merged into it

(* A row of memory_snapshot: the content of a point before a change.       *)
SnapshotRows == [at : Points, old : SUBSET Texts]

Init ==
    /\ said = [s \in Chats |-> 0] /\ recalled = [s \in Chats |-> 0]
    /\ lastActive = [s \in Chats |-> "none"]
    /\ pending = [s \in Chats |-> FALSE]
    /\ toucher = {}
    /\ job = [j \in Jobs |-> Idle]
    /\ memory = [p \in Points |-> NoPoint]
    /\ snapshot = {}
    /\ editor = [e \in Editors |-> Idle]
    /\ slips = 0 /\ neglected = {} /\ altered = {} /\ learned = {}

stores == <<memory, snapshot, editor, altered, learned>>
Slip == slips < MaxSlips /\ slips' = slips + 1

(***************************************************************************)
(* The debouncer                                                           *)
(***************************************************************************)
(* An append touches the session, one append of a session at a time (it    *)
(* holds the conversation's lock).                                         *)
Append(s) ==
    /\ s \notin toucher /\ said[s] < MaxMessages
    /\ said' = [said EXCEPT ![s] = @ + 1]
    /\ toucher' = toucher \cup {s}
    /\ lastActive' = [lastActive EXCEPT ![s] = "recent"]
    /\ UNCHANGED <<recalled, pending, job, slips, neglected, stores>>

(* touch_session: a task that is on its way will see the new time itself.  *)
Touch(s) ==
    /\ s \in toucher
    /\ toucher' = toucher \ {s}
    /\ IF pending[s] THEN UNCHANGED <<pending, job>>
       ELSE \E j \in Jobs :
              /\ job[j].pc = "idle"
              /\ job' = [job EXCEPT ![j] = [pc |-> "queued", of |-> s]]
              /\ pending' = [pending EXCEPT ![s] = TRUE]
    /\ UNCHANGED <<said, recalled, lastActive, slips, neglected, stores>>

(* Redis or the broker does not answer: that is only logged.               *)
TouchFails(s) ==
    /\ s \in toucher /\ Slip
    /\ toucher' = toucher \ {s}
    /\ neglected' = neglected \cup {s}
    /\ UNCHANGED <<said, recalled, lastActive, pending, job, stores>>

PassThreeMinutes(s) ==
    /\ lastActive[s] = "recent"
    /\ lastActive' = [lastActive EXCEPT ![s] = "idle"]
    /\ UNCHANGED <<said, recalled, pending, toucher, job, slips, neglected, stores>>

PendingExpires(s) ==
    /\ pending[s]
    /\ pending' = [pending EXCEPT ![s] = FALSE]
    /\ UNCHANGED <<said, recalled, lastActive, toucher, job, slips, neglected, stores>>

(***************************************************************************)
(* The extraction task                                                     *)
(***************************************************************************)
Work(j, step) == job' = [job EXCEPT ![j] = step]

Run(j) ==
    LET s == job[j].of
    IN  /\ job[j].pc = "queued"
        /\ IF lastActive[s] = "recent"
           THEN pending' = [pending EXCEPT ![s] = TRUE] /\ UNCHANGED job
           ELSE Work(j, [pc |-> "drop", of |-> s]) /\ UNCHANGED pending
        /\ UNCHANGED <<said, recalled, lastActive, toucher, slips, neglected, stores>>

(* The key goes first, then the window is read: who appends from here on   *)
(* sends a task of its own.                                                *)
DropPending(j) ==
    LET s == job[j].of
    IN  /\ job[j].pc = "drop"
        /\ pending' = [pending EXCEPT ![s] = FALSE]
        /\ Work(j, [pc |-> "load", of |-> s])
        /\ UNCHANGED <<said, recalled, lastActive, toucher, slips, neglected, stores>>

LoadWindow(j) ==
    LET s == job[j].of
    IN  /\ job[j].pc = "load"
        /\ Work(j, [pc |-> "ask", of |-> s, upto |-> said[s]])
        /\ UNCHANGED <<said, recalled, lastActive, pending, toucher, slips, neglected, stores>>

(* The model names a fact, or none.                                        *)
Extract(j) ==
    LET s == job[j].of
    IN  /\ job[j].pc = "ask"
        /\ recalled' = [recalled EXCEPT ![s] = IF @ < job[j].upto THEN job[j].upto ELSE @]
        /\ \/ Work(j, Idle)
           \/ \E f \in Texts : Work(j, [pc |-> "guard", of |-> s, fact |-> f])
        /\ UNCHANGED <<said, lastActive, pending, toucher, slips, neglected, stores>>

(* No model, an unreadable answer, an exception: nothing is tried again.   *)
ExtractionFails(j) ==
    /\ job[j].pc \in {"drop", "load", "ask"} /\ Slip
    /\ Work(j, Idle)
    /\ pending' = [pending EXCEPT ![job[j].of] = FALSE]
    /\ neglected' = neglected \cup {job[j].of}
    /\ UNCHANGED <<said, recalled, lastActive, toucher, stores>>

(***************************************************************************)
(* The guard of the writes                                                 *)
(***************************************************************************)
(* The nearest point: the fact is there already, is similar to what is     *)
(* there, or is new; a failed search counts as new.                        *)
GuardSearch(j) ==
    LET f == job[j].fact
    IN  /\ job[j].pc = "guard"
        /\ \/ \E p \in Points : f \in memory[p] /\ Work(j, Idle) /\ UNCHANGED slips
           \/ \E p \in Points :
                /\ memory[p] # NoPoint /\ f \notin memory[p]
                /\ Work(j, [pc |-> "save", of |-> job[j].of, at |-> p, fact |-> f,
                            text |-> memory[p] \cup {f}])
                /\ UNCHANGED slips
           \/ LET known == \E p \in Points : f \in memory[p]
              IN  /\ known => slips < MaxSlips
                  /\ slips' = IF known THEN slips + 1 ELSE slips
                  /\ Work(j, [pc |-> "add", of |-> job[j].of, text |-> {f}])
        /\ UNCHANGED <<said, recalled, lastActive, pending, toucher, neglected, stores>>

(* A write disturbs the edits of the same point that are under way.        *)
Disturbed(p) == {e \in Editors : editor[e].pc # "idle" /\ editor[e].at = p}

(* The whole point is written back, whatever has become of it.             *)
GuardSave(j) ==
    LET p == job[j].at
        read == job[j].text \ {job[j].fact}
    IN  /\ job[j].pc = "save"
        /\ memory' = [memory EXCEPT ![p] = job[j].text]
        /\ altered' = altered \cup Disturbed(p)
        /\ learned' = IF memory[p] = read THEN learned \cup job[j].text ELSE {}
        /\ Work(j, Idle)
        /\ UNCHANGED <<said, recalled, lastActive, pending, toucher, snapshot, editor, slips, neglected>>

(* A new point has an id of its own.                                       *)
NewPoint(p) ==
    /\ memory[p] = NoPoint /\ Disturbed(p) = {}
    /\ \A x \in snapshot : x.at # p
    /\ \A j \in Jobs : job[j].pc = "save" => job[j].at # p

GuardAdd(j) ==
    \E p \in Points :
        /\ job[j].pc = "add" /\ NewPoint(p)
        /\ memory' = [memory EXCEPT ![p] = job[j].text]
        /\ learned' = learned \cup job[j].text
        /\ Work(j, Idle)
        /\ UNCHANGED <<said, recalled, lastActive, pending, toucher, snapshot, editor, slips,
                       neglected, altered>>

(* A failed upsert is ignored (fail_open).                                 *)
SaveFails(j) ==
    /\ job[j].pc \in {"save", "add"} /\ Slip
    /\ Work(j, Idle)
    /\ UNCHANGED <<said, recalled, lastActive, pending, toucher, neglected, stores>>

(***************************************************************************)
(* The user's edits                                                        *)
(***************************************************************************)
chats == <<said, recalled, lastActive, pending, toucher, job, neglected>>

(* The current content is read; the snapshot is written in a transaction   *)
(* that is still open.                                                     *)
StartEdit(e, p, op, new) ==
    /\ editor[e].pc = "idle" /\ Cardinality(snapshot) < MaxSnapshots
    /\ memory[p] # NoPoint
    /\ editor' = [editor EXCEPT ![e] =
         [pc |-> "write", op |-> op, at |-> p, old |-> memory[p], new |-> new]]
    /\ altered' = altered \ {e}
    /\ UNCHANGED <<chats, memory, snapshot, slips, learned>>

UpdateMemory(e, p, t) == StartEdit(e, p, "update", {t})
DeleteMemory(e, p) == StartEdit(e, p, "delete", NoPoint)

(* A roll-back needs a snapshot of this very point with a content.         *)
RollbackMemory(e, p) ==
    \E x \in snapshot :
        /\ x.at = p /\ x.old # NoPoint
        /\ editor[e].pc = "idle" /\ Cardinality(snapshot) < MaxSnapshots
        /\ editor' = [editor EXCEPT ![e] =
             [pc |-> "write", op |-> "rollback", at |-> p, old |-> memory[p], new |-> x.old]]
        /\ altered' = altered \ {e}
        /\ UNCHANGED <<chats, memory, snapshot, slips, learned>>

WritePoint(e) ==
    LET p == editor[e].at
    IN  /\ editor[e].pc = "write"
        /\ memory' = [memory EXCEPT ![p] = editor[e].new]
        /\ altered' = altered \cup (Disturbed(p) \ {e})
        /\ learned' = IF e \in altered THEN {} ELSE learned
        /\ editor' = [editor EXCEPT ![e].pc = "commit"]
        /\ UNCHANGED <<chats, snapshot, slips>>

CommitEdit(e) ==
    /\ editor[e].pc = "commit"
    /\ snapshot' = snapshot \cup {[at |-> editor[e].at, old |-> editor[e].old]}
    /\ editor' = [editor EXCEPT ![e] = Idle]
    /\ UNCHANGED <<chats, memory, slips, altered, learned>>

(* Before the write nothing has happened; after it the point stays changed *)
(* without a snapshot.                                                     *)
EditFails(e) ==
    /\ editor[e].pc # "idle" /\ Slip
    /\ editor' = [editor EXCEPT ![e] = Idle]
    /\ learned' = IF editor[e].pc = "commit" THEN {} ELSE learned
    /\ UNCHANGED <<chats, memory, snapshot, altered>>

(* Clearing keeps no snapshots, by design.                                 *)
ClearMemories ==
    /\ memory' = [p \in Points |-> NoPoint]
    /\ snapshot # {} /\ \E p \in Points : memory[p] # NoPoint
    /\ altered' = altered \cup {e \in Editors : editor[e].pc # "idle"}
    /\ learned' = {}
    /\ UNCHANGED <<chats, snapshot, editor, slips>>

JobStep(j) ==
    \/ Run(j) \/ DropPending(j) \/ LoadWindow(j) \/ Extract(j)
    \/ GuardSearch(j) \/ GuardSave(j) \/ GuardAdd(j)

Next ==
    \/ \E s \in Chats : Append(s) \/ Touch(s) \/ TouchFails(s)
                        \/ PassThreeMinutes(s) \/ PendingExpires(s)
    \/ \E j \in Jobs : JobStep(j) \/ ExtractionFails(j) \/ SaveFails(j)
    \/ \E e \in Editors :
         \/ WritePoint(e) \/ CommitEdit(e) \/ EditFails(e)
         \/ \E p \in Points : \/ DeleteMemory(e, p) \/ RollbackMemory(e, p)
                              \/ \E t \in Texts : UpdateMemory(e, p, t)
    \/ ClearMemories

Spec ==
    /\ Init /\ [][Next]_memoryVars
    /\ \A s \in Chats : WF_memoryVars(Touch(s)) /\ WF_memoryVars(PassThreeMinutes(s))
    /\ \A j \in Jobs : WF_memoryVars(JobStep(j))

(***************************************************************************)
(* Properties                                                              *)
(***************************************************************************)
TypeOK ==
    /\ \A s \in Chats : said[s] \in 0..MaxMessages /\ recalled[s] \in 0..said[s]
    /\ lastActive \in [Chats -> {"none", "recent", "idle"}] /\ pending \in [Chats -> BOOLEAN]
    /\ \A j \in Jobs : job[j].pc \in {"idle", "queued", "drop", "load", "ask", "guard", "save", "add"}
    /\ memory \in [Points -> SUBSET Texts] /\ snapshot \subseteq SnapshotRows
    /\ \A e \in Editors : editor[e].pc \in {"idle", "write", "commit"}

(* A message that no extraction has read is waited for: its append is      *)
(* still touching the session, or a task is on its way that has not read   *)
(* the window - unless a failure was logged. The order in which the task   *)
(* drops the key and reads the window is what makes it so.                 *)
MessageAwaited ==
    \A s \in Chats :
        said[s] > recalled[s] /\ s \notin neglected =>
            \/ s \in toucher
            \/ \E j \in Jobs : job[j].pc \in {"queued", "drop", "load"} /\ job[j].of = s
            \/ \E j \in Jobs : job[j].pc = "ask" /\ job[j].of = s /\ job[j].upto = said[s]

(* What has been learned is in a point, in a snapshot that a roll-back can *)
(* restore, or in the hands of an edit that has not committed: edits,      *)
(* deletions and roll-backs lose nothing. Only a clear, a commit that      *)
(* failed after the point was written, and two writes of the same point at *)
(* once (after which the count starts again) do.                           *)
NothingForgotten ==
    \A f \in learned :
        \/ \E p \in Points : f \in memory[p]
        \/ \E x \in snapshot : f \in x.old
        \/ \E e \in Editors : editor[e].pc = "commit" /\ f \in editor[e].old

(* Messages do not wait for ever.                                          *)
MessagesRecalled ==
    \A s \in Chats : []<>(said[s] = recalled[s] \/ s \in neglected)

(* memory_route.py: "Records a snapshot for audit trail before updating."  *)
(* Not so: the point is written before the snapshot is committed.          *)
SnapshotBeforeChange ==
    \A e \in Editors :
        editor[e].pc = "commit" => \E x \in snapshot : x.at = editor[e].at /\ x.old = editor[e].old
=============================================================================
