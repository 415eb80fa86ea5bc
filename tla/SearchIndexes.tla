---------------------------- MODULE SearchIndexes ----------------------------
(***************************************************************************)
(* What is found and what is kept: the provider presets and their          *)
(* documents in Meilisearch (admin routes, tasks/search_index.py, the hub),*)
(* the pages of a search (meilisearch_backend.py, cursor_store.py), and    *)
(* the crawled artifacts, their chunks and their Qdrant points             *)
(* (knowledge_route.py, crawler_knowledge_service.py, knowledge_tasks.py). *)
(***************************************************************************)
EXTENDS Naturals, Sequences, FiniteSets, SequencesExt

CONSTANTS
  Presets,     \* slugs of provider presets
  Workers,     \* Celery workers of the index tasks
  MaxEdits,    \* edits of presets
  MaxFaults,   \* failed requests, lost handlers
  Hits,        \* Searchers -> the hits of its query, in order
  PageSize,
  Artifacts,
  Models,      \* embedding models, each with its vector size
  MaxRuns      \* index tasks of an artifact

VARIABLES
  preset,      \* rows
  cached,      \* Redis: provider_preset(slug)
  doc,         \* documents of the presets' index
  queue,       \* index tasks not yet taken
  handler,     \* the admin's request under way
  worker,      \* the task a worker executes
  edits, faults,
  apart,       \* presets whose row changed under a task, or whose task failed
  cursor,      \* Redis: last hit of a page -> offset of the next
  pager,       \* per searcher: its cursor and the hits it has seen
  artifact,    \* rows: status and how it is embedded
  chunks,      \* rows: <<artifact, run>>
  points,      \* Qdrant: <<artifact, run>>
  collection,  \* the size of its vectors: the model that created it
  run,         \* index tasks of the artifacts
  rerun        \* artifacts that were indexed by two tasks at a time

presetVars == <<preset, cached, doc, queue, handler, worker, edits, faults, apart>>
pageVars == <<cursor, pager>>
artifactVars == <<artifact, chunks, points, collection, run, rerun>>
indexVars == <<presetVars, pageVars, artifactVars>>

RowStates == {"absent", "active", "inactive"}
Searchers == DOMAIN Hits
Runs == 1 .. MaxRuns
IdleWorker == [at |-> "idle", op |-> "none", slug |-> "none", row |-> "none", seen |-> {}]
IdleHandler == [at |-> "idle", slug |-> "none", op |-> "none"]

Init ==
  /\ preset = [p \in Presets |-> "absent"] /\ cached = [p \in Presets |-> "none"]
  /\ doc = {} /\ queue = {} /\ handler = IdleHandler
  /\ worker = [w \in Workers |-> IdleWorker]
  /\ edits = 0 /\ faults = 0 /\ apart = {}
  /\ cursor = <<>>
  /\ pager = [s \in Searchers |-> [at |-> "idle", last |-> 0, seen |-> <<>>, lost |-> FALSE]]
  /\ artifact \in [Artifacts -> [status : {"pending_review"}, model : Models, text : BOOLEAN]]
  /\ chunks = {} /\ points = {} /\ collection = "none"
  /\ run = [r \in Artifacts \X Runs |-> "none"] /\ rerun = {}

-----------------------------------------------------------------------------
(* The admin's presets *)

\* Tasks and lookups that read p before the commit.
Reading(p) ==
  {w \in Workers : worker[w].at \in {"store", "write", "wipe", "fill"}
                   /\ (worker[w].slug = p \/ worker[w].op = "rebuild")}

\* The row's commit; the cache and the task follow in steps of their own.
Committed(p, row, op) ==
  /\ handler.at = "idle" /\ edits < MaxEdits
  /\ preset' = [preset EXCEPT ![p] = row]
  /\ edits' = edits + 1
  /\ apart' = IF Reading(p) # {} THEN apart \cup {p} ELSE apart
  /\ handler' = [at |-> "clear", slug |-> p, op |-> op]
  /\ UNCHANGED <<cached, doc, queue, worker, faults, pageVars, artifactVars>>

\* create_preset refuses a slug that exists.
CreatePreset(p) ==
  /\ preset[p] = "absent"
  /\ \E row \in {"active", "inactive"} : Committed(p, row, "upsert")

\* patch_preset: here, the change of is_active.
PatchPreset(p) ==
  /\ preset[p] # "absent"
  /\ \E row \in {"active", "inactive"} : row # preset[p] /\ Committed(p, row, "upsert")

\* delete_preset; one in use is refused.
DeletePreset(p) == preset[p] # "absent" /\ Committed(p, "absent", "delete")

\* upsert_provider_preset_from_desktop creates or overwrites.
UpsertFromDesktop(p) == \E row \in {"active", "inactive"} : Committed(p, row, "upsert")

\* handle_save_provider_to_marketplace does the same for the agent.
SaveToMarketplace(p) == Committed(p, "active", "upsert")

\* handle_save_provider_field_mapping: the profiles change, the cache is kept.
SaveFieldMapping(p) ==
  /\ handler.at = "idle" /\ edits < MaxEdits /\ preset[p] # "absent"
  /\ edits' = edits + 1
  /\ handler' = [at |-> "send", slug |-> p, op |-> "upsert"]
  /\ UNCHANGED <<preset, cached, doc, queue, worker, faults, apart, pageVars, artifactVars>>

ClearPreset ==
  /\ handler.at = "clear"
  /\ cached' = [cached EXCEPT ![handler.slug] = "none"]
  /\ handler' = [handler EXCEPT !.at = "send"]
  /\ UNCHANGED <<preset, doc, queue, worker, edits, faults, apart, pageVars, artifactVars>>

SendTask ==
  /\ handler.at = "send"
  /\ queue' = queue \cup {<<edits, handler.op, handler.slug>>}
  /\ handler' = IdleHandler
  /\ UNCHANGED <<preset, cached, doc, worker, edits, faults, apart, pageVars, artifactVars>>

\* The process ends, or the broker refuses the task, after the commit.
HandlerLost ==
  /\ handler.at # "idle" /\ faults < MaxFaults
  /\ faults' = faults + 1 /\ apart' = apart \cup {handler.slug}
  /\ handler' = IdleHandler
  /\ UNCHANGED <<preset, cached, doc, queue, worker, edits, pageVars, artifactVars>>

-----------------------------------------------------------------------------
(* tasks/search_index.py *)

Working(w, at) == worker[w].at = at

\* Tasks are taken in any order; get_by_slug looks in the cache first.
TakeTask(w) ==
  /\ Working(w, "idle")
  /\ \E t \in queue :
       LET p == t[3]
           deletes == t[2] = "delete" IN
       /\ queue' = queue \ {t}
       /\ worker' = [worker EXCEPT ![w] =
            [IdleWorker EXCEPT !.at = IF deletes \/ cached[p] # "none" THEN "write" ELSE "load",
                               !.op = t[2], !.slug = p,
                               !.row = IF deletes THEN "absent" ELSE cached[p]]]
       /\ apart' = IF (deletes /\ preset[p] # "absent") \/ (~deletes /\ cached[p] \notin {"none", preset[p]})
                   THEN apart \cup {p} ELSE apart
  /\ UNCHANGED <<preset, cached, doc, handler, edits, faults, pageVars, artifactVars>>

\* The loader's query; what it finds is cached in a later step, a miss is not.
LoadPreset(w) ==
  /\ Working(w, "load")
  /\ worker' = [worker EXCEPT ![w].at = IF preset[worker[w].slug] = "absent" THEN "write" ELSE "store",
                              ![w].row = preset[worker[w].slug]]
  /\ UNCHANGED <<preset, cached, doc, queue, handler, edits, faults, apart, pageVars, artifactVars>>

StorePreset(w) ==
  /\ Working(w, "store")
  /\ cached' = [cached EXCEPT ![worker[w].slug] = worker[w].row]
  /\ worker' = [worker EXCEPT ![w].at = "write"]
  /\ UNCHANGED <<preset, doc, queue, handler, edits, faults, apart, pageVars, artifactVars>>

\* _run_upsert_provider_preset and _run_delete_provider_preset: the request.
WriteDocument(w) ==
  /\ Working(w, "write")
  /\ doc' = IF worker[w].row = "active" THEN doc \cup {worker[w].slug} ELSE doc \ {worker[w].slug}
  /\ worker' = [worker EXCEPT ![w] = IdleWorker]
  /\ UNCHANGED <<preset, cached, queue, handler, edits, faults, apart, pageVars, artifactVars>>

\* A failed request: the task answers "failed" and is not tried again.
RequestFails(w) ==
  /\ worker[w].at \in {"write", "fill"} /\ faults < MaxFaults
  /\ faults' = faults + 1
  /\ apart' = IF worker[w].op = "rebuild" THEN Presets ELSE apart \cup {worker[w].slug}
  /\ worker' = [worker EXCEPT ![w] = IdleWorker]
  /\ UNCHANGED <<preset, cached, doc, queue, handler, edits, pageVars, artifactVars>>

\* The cached row expires.
PresetExpires(p) ==
  /\ cached[p] # "none" /\ cached' = [cached EXCEPT ![p] = "none"]
  /\ UNCHANGED <<preset, doc, queue, handler, worker, edits, faults, apart, pageVars, artifactVars>>

\* _rebuild_provider_presets: rows, then the index is emptied, then filled.
StartRebuild(w) ==
  /\ Working(w, "idle") /\ \A v \in Workers : worker[v].op # "rebuild"
  /\ worker' = [worker EXCEPT ![w] = [IdleWorker EXCEPT !.at = "wipe", !.op = "rebuild",
                                      !.seen = {p \in Presets : preset[p] = "active"}]]
  /\ apart' = apart \cup {p \in Presets : Reading(p) # {}}
  /\ UNCHANGED <<preset, cached, doc, queue, handler, edits, faults, pageVars, artifactVars>>

\* _safe_delete_all: a failure is logged and the filling goes on.
Wipe(w) ==
  /\ Working(w, "wipe")
  /\ doc' = {}
  /\ worker' = [worker EXCEPT ![w].at = "fill"]
  /\ UNCHANGED <<preset, cached, queue, handler, edits, faults, apart, pageVars, artifactVars>>

Fill(w) ==
  /\ Working(w, "fill")
  /\ doc' = doc \cup worker[w].seen
  /\ worker' = [worker EXCEPT ![w] = IdleWorker]
  /\ UNCHANGED <<preset, cached, queue, handler, edits, faults, apart, pageVars, artifactVars>>

WorkerStep(w) ==
  TakeTask(w) \/ LoadPreset(w) \/ StorePreset(w) \/ WriteDocument(w) \/ Wipe(w) \/ Fill(w)

PresetNext ==
  \/ \E p \in Presets :
       \/ CreatePreset(p) \/ PatchPreset(p) \/ DeletePreset(p) \/ UpsertFromDesktop(p)
       \/ SaveToMarketplace(p) \/ SaveFieldMapping(p) \/ PresetExpires(p)
  \/ ClearPreset \/ SendTask \/ HandlerLost
  \/ \E w \in Workers : WorkerStep(w) \/ RequestFails(w) \/ StartRebuild(w)

-----------------------------------------------------------------------------
(* The pages of a search *)

\* _resolve_offset: an unknown cursor begins again.
Offset(s) ==
  IF pager[s].last \in DOMAIN cursor THEN cursor[pager[s].last] ELSE 0

\* search_public_assistants, search_market_assistants: one page and the cursor
\* of the next, whose key is the page's last hit (bounded by its hits once over).
Search(s) ==
  LET from == Offset(s)
      all == Hits[s]
      page == SubSeq(all, from + 1, IF from + PageSize < Len(all) THEN from + PageSize ELSE Len(all))
      more == Len(all) > from + PageSize
  IN
  /\ pager[s].at \in {"idle", "more"} /\ Len(pager[s].seen) <= Len(all)
  /\ pager' = [pager EXCEPT ![s] =
       [@ EXCEPT !.at = IF more THEN "more" ELSE "done", !.seen = pager[s].seen \o page,
                 !.last = IF more THEN Last(page) ELSE pager[s].last]]
  /\ cursor' = IF more
               THEN [k \in DOMAIN cursor \cup {Last(page)} |->
                       IF k = Last(page) THEN from + PageSize ELSE cursor[k]]
               ELSE cursor
  /\ UNCHANGED <<presetVars, artifactVars>>

\* The cursor's key expires.
CursorExpires(k) ==
  /\ k \in DOMAIN cursor
  /\ cursor' = [j \in DOMAIN cursor \ {k} |-> cursor[j]]
  /\ pager' = [s \in Searchers |-> [pager[s] EXCEPT !.lost = @ \/ (pager[s].at = "more" /\ pager[s].last = k)]]
  /\ UNCHANGED <<presetVars, artifactVars>>

-----------------------------------------------------------------------------
(* The artifacts *)

Running(a) == {r \in Runs : run[<<a, r>>] \in {"queued", "taken", "chunked", "indexed"}}

\* approve_artifact, whatever the status; its task follows the commit.
Approve(a) ==
  /\ artifact[a].status # "absent"
  /\ \E r \in Runs :
       /\ run[<<a, r>>] = "none" /\ \A q \in Runs : q < r => run[<<a, q>>] # "none"
       /\ run' = [run EXCEPT ![<<a, r>>] = "queued"]
  /\ artifact' = [artifact EXCEPT ![a].status = "processing"]
  /\ rerun' = IF Running(a) # {} THEN rerun \cup {a} ELSE rerun
  /\ UNCHANGED <<chunks, points, collection, presetVars, pageVars>>

\* reject_artifact deletes the row and, with it, its chunks.
Reject(a) ==
  /\ artifact[a].status # "absent"
  /\ \A r \in Runs : run[<<a, r>>] \notin {"chunked", "indexed"}
  /\ artifact' = [artifact EXCEPT ![a].status = "absent"]
  /\ chunks' = {c \in chunks : c[1] # a}
  /\ UNCHANGED <<points, collection, run, rerun, presetVars, pageVars>>

\* MarkdownChunker: whether the text has a section long enough to keep.
HasChunks(a) == artifact[a].text

\* The task reads its artifact: a missing one ends it, one with no text to
\* chunk is indexed at once, and without Qdrant it fails.
ReadArtifact(a, r) ==
  /\ run[<<a, r>>] = "queued"
  /\ \/ /\ artifact[a].status = "absent" /\ run' = [run EXCEPT ![<<a, r>>] = "done"]
        /\ UNCHANGED artifact
     \/ /\ artifact[a].status # "absent" /\ HasChunks(a)
        /\ run' = [run EXCEPT ![<<a, r>>] = "taken"] /\ UNCHANGED artifact
     \/ /\ artifact[a].status # "absent" /\ run' = [run EXCEPT ![<<a, r>>] = "done"]
        /\ \E status \in IF HasChunks(a) THEN {"failed"} ELSE {"failed", "indexed"} :
             artifact' = [artifact EXCEPT ![a].status = status]
  /\ UNCHANGED <<chunks, points, collection, rerun, presetVars, pageVars>>

\* get_collection_vector_size: the collection, if it exists, fixes the size.
SizeOf == IF collection = "none" THEN Models ELSE {collection}

\* ensure_collection_vector_size creates the collection or refuses the vector.
Fits(a) == artifact[a].model \in SizeOf

\* The old chunks are deleted and the new ones flushed, in one transaction that
\* holds the artifact's row; the collection must have the model's size.
MakeChunks(a, r) ==
  /\ run[<<a, r>>] = "taken" /\ artifact[a].status # "absent"
  /\ Fits(a)
  /\ collection' = artifact[a].model
  /\ run' = [run EXCEPT ![<<a, r>>] = "chunked"]
  /\ UNCHANGED <<artifact, chunks, points, rerun, presetVars, pageVars>>

\* upsert_points, before the commit.
UpsertPoints(a, r) ==
  /\ run[<<a, r>>] = "chunked"
  /\ points' = points \cup {<<a, r>>}
  /\ run' = [run EXCEPT ![<<a, r>>] = "indexed"]
  /\ UNCHANGED <<artifact, chunks, collection, rerun, presetVars, pageVars>>

\* Of overlapping transactions each deletes what was committed when it began.
Flushed(a, r) ==
  {c \in chunks : c[1] # a \/ (\E q \in Runs : q # r /\ c = <<a, q>> /\ a \in rerun)} \cup {<<a, r>>}

CommitIndexed(a, r) ==
  /\ run[<<a, r>>] = "indexed"
  /\ chunks' = Flushed(a, r)
  /\ artifact' = [artifact EXCEPT ![a].status = "indexed"]
  /\ run' = [run EXCEPT ![<<a, r>>] = "done"]
  /\ UNCHANGED <<points, collection, rerun, presetVars, pageVars>>

\* An error of the embedding or of Qdrant: the update of the status commits
\* the chunks flushed so far with it.
IndexFails(a, r) ==
  /\ run[<<a, r>>] \in {"taken", "chunked"}
  /\ \/ /\ artifact[a].status = "absent" /\ UNCHANGED <<artifact, chunks>>
     \/ /\ artifact[a].status # "absent"
        /\ artifact' = [artifact EXCEPT ![a].status = "failed"]
        /\ chunks' = IF run[<<a, r>>] = "chunked" THEN Flushed(a, r) ELSE chunks
  /\ run' = [run EXCEPT ![<<a, r>>] = "done"]
  /\ UNCHANGED <<points, collection, rerun, presetVars, pageVars>>

ArtifactNext ==
  \E a \in Artifacts :
    \/ Approve(a) \/ Reject(a)
    \/ \E r \in Runs : \/ ReadArtifact(a, r) \/ MakeChunks(a, r) \/ UpsertPoints(a, r)
                       \/ CommitIndexed(a, r) \/ IndexFails(a, r)

Next ==
  \/ PresetNext
  \/ \E s \in Searchers : Search(s)
  \/ \E k \in DOMAIN cursor : CursorExpires(k)
  \/ ArtifactNext

Spec == Init /\ [][Next]_indexVars

-----------------------------------------------------------------------------
(* Properties *)

\* The type of the state.
TypeOK ==
  /\ preset \in [Presets -> RowStates] /\ cached \in [Presets -> {"none", "active", "inactive"}]
  /\ doc \subseteq Presets /\ apart \subseteq Presets
  /\ worker \in [Workers -> [at : {"idle", "load", "store", "write", "wipe", "fill"},
                             op : {"none", "upsert", "delete", "rebuild"},
                             slug : Presets \cup {"none"}, row : RowStates \cup {"none"},
                             seen : SUBSET Presets]]
  /\ handler.at \in {"idle", "clear", "send"}
  /\ edits <= MaxEdits /\ faults <= MaxFaults
  /\ \A k \in DOMAIN cursor : cursor[k] \in Nat
  /\ artifact \in [Artifacts -> [status : {"absent", "pending_review", "processing", "indexed", "failed"},
                                 model : Models, text : BOOLEAN]]
  /\ chunks \subseteq Artifacts \X Runs /\ points \subseteq Artifacts \X Runs
  /\ collection \in Models \cup {"none"}
  /\ rerun \subseteq Artifacts

Quiet == handler.at = "idle" /\ queue = {} /\ \A w \in Workers : Working(w, "idle")

\* Once every task has run, the presets' index holds the active presets and no
\* other, unless a row changed under a task that had already read it or a
\* task failed: each handler sends its task after its commit, and each task
\* takes what is in the table at that time.
DocumentsFollowRows ==
  Quiet => \A p \in Presets \ apart : p \in doc <=> preset[p] = "active"

\* Chunk rows of an artifact come from one task, and what is "indexed" has the
\* points of its chunks, unless two tasks indexed it at a time or one failed.
ChunksHavePoints ==
  \A a \in Artifacts \ rerun :
    /\ Cardinality({c \in chunks : c[1] = a}) <= 1
    /\ artifact[a].status = "indexed" => {c \in chunks : c[1] = a} \subseteq points

\* knowledge_route: "Reject artifact -> Delete." Not so: the points stay.
RejectedNotFound ==
  \A pt \in points : artifact[pt[1]].status = "absent" => \E r \in Runs : run[pt[1], r] = "indexed"

\* The index settles without races too. Not so: a task that read before a
\* commit leaves its value in the cache, where the next task finds it.
SearchSettles == Quiet /\ faults = 0 => doc = {p \in Presets : preset[p] = "active"}

\* A searcher that follows its cursors sees each hit once. Not so: the key of
\* a cursor does not tell one query from another.
PagesComplete == \A s \in Searchers : pager[s].at = "done" /\ ~pager[s].lost => pager[s].seen = Hits[s]
=============================================================================
