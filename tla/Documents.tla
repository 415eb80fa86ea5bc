------------------------------ MODULE Documents ----------------------------
(***************************************************************************)
(* A user's document library: folders and documents are rows of the        *)
(* database, the chunks of an indexed document are points of a vector      *)
(* collection, and index_user_document_task brings the one into the other. *)
(* Requests upload, copy, move, retry and delete while tasks are under     *)
(* way; the vectors are outside the transactions of the rows.              *)
(***************************************************************************)
EXTENDS Integers, FiniteSets

CONSTANTS
  Docs,        \* documents
  Folders,     \* folders
  Indexers,    \* Celery workers
  Requests,    \* requests that delete
  Models,      \* embedding models the setting may name
  Sharded,     \* whether collections are chosen by model (sharded_by_model) or by user
  MaxQueued,   \* bound: index tasks queued for one document
  MaxSlips     \* bound: dead workers, unsent tasks, failed commits, failed vector deletions

VARIABLES
  doc,       \* doc[d]: row of user_document
  parent,    \* parent[f]: where the folder is
  points,    \* <<d, c>>: collection c has the chunks of d
  model,     \* the embedding model in the settings
  queued,    \* queued[d]: index tasks in the broker
  indexer,   \* indexer[w]
  deleter,   \* deleter[r]
  slips      \* slips so far

docVars == <<doc, parent, points, model, queued, indexer, deleter, slips>>

Root == "root"
Absent == "absent"
NoModel == "no model"
NoDoc == "no document"

NoRow == [status |-> "none", folder |-> Root, model |-> NoModel]
IndexerIdle == [at |-> "idle", doc |-> NoDoc, model |-> NoModel]
DeleterIdle == [at |-> "idle", todo |-> {}, rows |-> {}, seen |-> [d \in Docs |-> NoModel], folder |-> Absent]

Init ==
  /\ doc = [d \in Docs |-> NoRow]
  /\ parent = [f \in Folders |-> Absent]
  /\ points = {}
  /\ model \in Models
  /\ queued = [d \in Docs |-> 0]
  /\ indexer = [w \in Indexers |-> IndexerIdle]
  /\ deleter = [r \in Requests |-> DeleterIdle]
  /\ slips = 0

Exists(d) == doc[d].status \notin {"none", "gone"}
Place == {f \in Folders : parent[f] # Absent} \cup {Root}
Slip == slips < MaxSlips /\ slips' = slips + 1

\* get_kb_user_collection_name: no model, no sharded collection.
Collection(m) == IF ~Sharded THEN {"user"} ELSE {m} \ {NoModel}

\* search: what the collection of the model of now holds.
Found == {d \in Docs : \E c \in Collection(model) : <<d, c>> \in points}

\* list_chunks: of an indexed document, from the collection of its own model.
Chunks(d) == IF doc[d].status = "indexed" THEN Collection(doc[d].model) \cap {c \in Models \cup {"user"} : <<d, c>> \in points}
             ELSE {}

\* _enqueue_index_task, after the commit: the broker may not be there.
Enqueue(ds) ==
  \/ /\ \A d \in ds : queued[d] < MaxQueued
     /\ queued' = [d \in Docs |-> IF d \in ds THEN queued[d] + 1 ELSE queued[d]]
     /\ UNCHANGED slips
  \/ Slip /\ UNCHANGED queued

-----------------------------------------------------------------------------
\* The folder is found and has no namesake.
CreateFolder(f, p) ==
  /\ parent[f] = Absent
  /\ p \in Place
  /\ parent' = [parent EXCEPT ![f] = p]
  /\ UNCHANGED <<doc, points, model, queued, indexer, deleter, slips>>

\* The bytes are stored once per content; the row is new and pending.
UploadFile(d, f) ==
  /\ doc[d].status = "none"
  /\ f \in Place
  /\ doc' = [doc EXCEPT ![d] = [NoRow EXCEPT !.status = "pending", !.folder = f]]
  /\ Enqueue({d})
  /\ UNCHANGED <<parent, points, model, indexer, deleter>>

\* The copy shares the file of the source and is indexed on its own.
CopyFile(src, d, f) ==
  /\ Exists(src)
  /\ doc[d].status = "none"
  /\ f \in Place
  /\ doc' = [doc EXCEPT ![d] = [NoRow EXCEPT !.status = "pending", !.folder = f]]
  /\ Enqueue({d})
  /\ UNCHANGED <<parent, points, model, indexer, deleter>>

\* update_file and batch_move_files.
MoveFiles(ds, f) ==
  /\ f \in Place
  /\ ds # {} /\ \A d \in ds : Exists(d)
  /\ doc' = [d \in Docs |-> IF d \in ds THEN [doc[d] EXCEPT !.folder = f] ELSE doc[d]]
  /\ UNCHANGED <<parent, points, model, queued, indexer, deleter, slips>>

\* retry_file and batch_retry_files: not while it is processed.
RetryFiles(ds) ==
  /\ ds # {} /\ \A d \in ds : Exists(d) /\ doc[d].status # "processing"
  /\ doc' = [d \in Docs |-> IF d \in ds THEN [doc[d] EXCEPT !.status = "pending", !.model = NoModel] ELSE doc[d]]
  /\ Enqueue(ds)
  /\ UNCHANGED <<parent, points, model, indexer, deleter>>

\* The setting of the embedding model is changed.
SwitchModel(m) ==
  /\ model # m
  /\ model' = m
  /\ UNCHANGED <<doc, parent, points, queued, indexer, deleter, slips>>

-----------------------------------------------------------------------------
\* delete_file and batch_delete_files: the rows are read.
DeleteFiles(r, ds) ==
  /\ deleter[r].at = "idle"
  /\ ds # {} /\ \A d \in ds : Exists(d)
  /\ deleter' = [deleter EXCEPT ![r] = [DeleterIdle EXCEPT !.at = "vectors", !.todo = ds, !.rows = ds,
                                          !.seen = [d \in Docs |-> doc[d].model]]]
  /\ UNCHANGED <<doc, parent, points, model, queued, indexer, slips>>

Ancestors[n \in 0..Cardinality(Folders)] ==
  [f \in Folders |-> IF n = 0 \/ parent[f] \notin Folders THEN {parent[f]}
                     ELSE {parent[f]} \cup Ancestors[n - 1][parent[f]]]
Descendants(f) == {g \in Folders : f \in Ancestors[Cardinality(Folders)][g]}

\* delete_folder: an empty folder, or with everything below it.
DeleteFolder(r, f, recursive) ==
  LET ds == {d \in Docs : Exists(d) /\ doc[d].folder \in {f} \cup Descendants(f)} IN
  /\ deleter[r].at = "idle"
  /\ parent[f] # Absent
  /\ recursive \/ (ds = {} /\ Descendants(f) = {})
  /\ deleter' = [deleter EXCEPT ![r] = [at |-> IF ds = {} THEN "commit" ELSE "vectors", todo |-> ds, rows |-> ds,
                                          seen |-> [d \in Docs |-> doc[d].model], folder |-> f]]
  /\ UNCHANGED <<doc, parent, points, model, queued, indexer, slips>>

\* _delete_document_vectors, in the collection of the model that was read; a failure
\* is logged.
DeleteVectors(r, d) ==
  LET left == deleter[r].todo \ {d} IN
  /\ deleter[r].at = "vectors" /\ d \in deleter[r].todo
  /\ \/ points' = points \ ({d} \X Collection(deleter[r].seen[d])) /\ UNCHANGED slips
     \/ Slip /\ UNCHANGED points
  /\ deleter' = [deleter EXCEPT ![r].todo = left, ![r].at = IF left = {} THEN "commit" ELSE @]
  /\ UNCHANGED <<doc, parent, model, queued, indexer>>

\* The session deletes the folder: its children, which are not cascaded, lose their
\* parent; the database clears the folder of documents put there meanwhile.
FolderGone(f) == [g \in Folders |-> IF g = f THEN Absent ELSE IF parent[g] = f THEN Root ELSE parent[g]]

\* One transaction for the rows and the folder.
CommitDelete(r) ==
  LET f == deleter[r].folder
      kept(d) == IF f # Absent /\ doc[d].folder = f THEN [doc[d] EXCEPT !.folder = Root] ELSE doc[d] IN
  /\ deleter[r].at = "commit"
  /\ doc' = [d \in Docs |-> IF d \in deleter[r].rows THEN [kept(d) EXCEPT !.status = "gone", !.folder = Root] ELSE kept(d)]
  /\ parent' = IF f = Absent THEN parent ELSE FolderGone(f)
  /\ deleter' = [deleter EXCEPT ![r] = DeleterIdle]
  /\ UNCHANGED <<points, model, queued, indexer, slips>>

\* It is rolled back, the vectors are not: a child folder clashes with a root folder's
\* name, or the connection is lost.
RollBackDelete(r) ==
  /\ deleter[r].at = "commit"
  /\ Slip
  /\ deleter' = [deleter EXCEPT ![r] = DeleterIdle]
  /\ UNCHANGED <<doc, parent, points, model, queued, indexer>>

-----------------------------------------------------------------------------
\* The task finds its row and says so, or ends.
TakeTask(w, d) ==
  /\ indexer[w].at = "idle"
  /\ queued[d] > 0
  /\ queued' = [queued EXCEPT ![d] = @ - 1]
  /\ IF Exists(d) THEN /\ doc' = [doc EXCEPT ![d].status = "processing"]
                       /\ indexer' = [indexer EXCEPT ![w] = [at |-> "work", doc |-> d, model |-> NoModel]]
     ELSE UNCHANGED <<doc, indexer>>
  /\ UNCHANGED <<parent, points, model, deleter, slips>>

\* Nothing to read, no chunks, no vectors, an exception: failed, if the row is there.
MarkFailed(w) ==
  /\ indexer[w].at = "work"
  /\ doc' = IF Exists(indexer[w].doc) THEN [doc EXCEPT ![indexer[w].doc].status = "failed"] ELSE doc
  /\ indexer' = [indexer EXCEPT ![w] = IndexerIdle]
  /\ UNCHANGED <<parent, points, model, queued, deleter, slips>>

\* The chunks are embedded with the model of now and go into its collection.
Upsert(w) ==
  /\ indexer[w].at = "work"
  /\ points' = points \cup ({indexer[w].doc} \X Collection(model))
  /\ indexer' = [indexer EXCEPT ![w].at = "mark", ![w].model = model]
  /\ UNCHANGED <<doc, parent, model, queued, deleter, slips>>

\* Mutant of MarkIndexed: the row of a document that is gone comes back.
MarkAnew(w) ==
  /\ indexer[w].at = "mark"
  /\ doc' = [doc EXCEPT ![indexer[w].doc].status = "indexed", ![indexer[w].doc].model = indexer[w].model]
  /\ indexer' = [indexer EXCEPT ![w] = IndexerIdle]
  /\ UNCHANGED <<parent, points, model, queued, deleter, slips>>

\* The row, if it is there, is indexed with the model the chunks were embedded with.
MarkIndexed(w) ==
  /\ indexer[w].at = "mark"
  /\ doc' = IF Exists(indexer[w].doc)
            THEN [doc EXCEPT ![indexer[w].doc].status = "indexed", ![indexer[w].doc].model = indexer[w].model]
            ELSE doc
  /\ indexer' = [indexer EXCEPT ![w] = IndexerIdle]
  /\ UNCHANGED <<parent, points, model, queued, deleter, slips>>

\* task_acks_late, task_reject_on_worker_lost: a task whose worker dies is queued again.
WorkerDies(w) ==
  /\ indexer[w].at # "idle"
  /\ Slip
  /\ queued' = [queued EXCEPT ![indexer[w].doc] = @ + 1]
  /\ indexer' = [indexer EXCEPT ![w] = IndexerIdle]
  /\ UNCHANGED <<doc, parent, points, model, deleter>>

IndexerStep(w) == MarkFailed(w) \/ Upsert(w) \/ MarkIndexed(w) \/ \E d \in Docs : TakeTask(w, d)

Next ==
  \/ \E f \in Folders, p \in Folders \cup {Root} : CreateFolder(f, p)
  \/ \E d \in Docs, f \in Folders \cup {Root} : UploadFile(d, f) \/ \E s \in Docs : CopyFile(s, d, f)
  \/ \E ds \in SUBSET Docs : RetryFiles(ds) \/ \E f \in Folders \cup {Root} : MoveFiles(ds, f)
  \/ \E m \in Models : SwitchModel(m)
  \/ \E r \in Requests :
       \/ \E ds \in SUBSET Docs : DeleteFiles(r, ds)
       \/ \E f \in Folders, recursive \in BOOLEAN : DeleteFolder(r, f, recursive)
       \/ \E d \in Docs : DeleteVectors(r, d)
       \/ CommitDelete(r) \/ RollBackDelete(r)
  \/ \E w \in Indexers : IndexerStep(w) \/ WorkerDies(w)

\* Workers go on, and the broker's queue is in order: no task waits for ever.
Fairness ==
  /\ \A w \in Indexers : WF_docVars(IndexerStep(w))
  /\ \A d \in Docs : SF_docVars(\E w \in Indexers : TakeTask(w, d))

Spec == Init /\ [][Next]_docVars /\ Fairness

-----------------------------------------------------------------------------
\* Rows, tasks and requests stay in range.
TypeOK ==
  /\ \A d \in Docs : /\ doc[d].status \in {"none", "pending", "processing", "indexed", "failed", "gone"}
                     /\ doc[d].model \in Models \cup {NoModel}
                     /\ queued[d] \in 0..(MaxQueued + MaxSlips)
  /\ points \subseteq Docs \X (Models \cup {"user"})
  /\ \A f \in Folders : parent[f] \in Folders \cup {Root, Absent}

\* Documents and folders are in folders that exist, whatever was deleted while they
\* were put there (the foreign keys of the two tables).
PlacesExist ==
  /\ \A d \in Docs : Exists(d) => doc[d].folder \in Place
  /\ \A f \in Folders : parent[f] # Absent => parent[f] \in Place

\* The chunks of an indexed document are where its row says, whichever tasks ran side
\* by side and whatever the setting was meanwhile, unless a deletion has begun.
IndexedHasChunks ==
  slips = 0 =>
    \A d \in Docs : doc[d].status = "indexed" =>
      Chunks(d) # {} \/ \E r \in Requests : deleter[r].at # "idle" /\ d \in deleter[r].rows \ deleter[r].todo

\* A document that cannot be retried is being worked on: a dead worker does not leave
\* it processing for ever.
ProcessingIsWorked ==
  \A d \in Docs : doc[d].status = "processing" =>
    queued[d] > 0 \/ \E w \in Indexers : indexer[w].at # "idle" /\ indexer[w].doc = d

\* A row that was deleted does not come back with a late task.
GoneStep == \A d \in Docs : doc[d].status = "gone" => doc'[d].status = "gone"
GoneStaysGone == [][GoneStep]_docVars

\* Every document under way is done some day.
DocumentsSettle == \A d \in Docs : []<>(doc[d].status # "processing")

\* Nothing of a deleted document is found once no request and no task is at work.
\* Not so: an indexing task under way writes its points after the deletion.
DeletedNotFound ==
  \A d \in Found : doc[d].status = "gone" =>
    queued[d] > 0 \/ (\E w \in Indexers : indexer[w].doc = d) \/ \E r \in Requests : d \in deleter[r].rows

\* A recursive deletion takes the folders below with it ("whether to delete the
\* subdirectories and files recursively"). Not so: the children move to the root.
RecursiveDeletes ==
  [][\A r \in Requests : CommitDelete(r) /\ deleter[r].folder # Absent =>
       \A g \in Descendants(deleter[r].folder) : parent'[g] = Absent]_docVars
=============================================================================
