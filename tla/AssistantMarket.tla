-------------------------- MODULE AssistantMarket --------------------------
(***************************************************************************)
(* Assistants that users write and share: the life of an assistant (draft, *)
(* published, archived), the review a market entry must pass (by a         *)
(* language model at once, or by an administrator), the installs of other  *)
(* users, and the two search indexes, written by Celery tasks that run in  *)
(* any order and read by a search that checks every hit in the database.   *)
(*                                                                         *)
(* A reviewer is the request (or the background task of "share to market") *)
(* that submits the assistant and waits for the language model; its        *)
(* session keeps the review row as it was when it submitted.               *)
(***************************************************************************)
EXTENDS Naturals, FiniteSets

CONSTANTS Shared,       \* the users' assistants
          Users,        \* users other than the owners
          Reviewers,    \* submissions being judged by the model
          MaxVersion    \* bound on the versions of an assistant

VARIABLES assistant,    \* the assistant table
          review,       \* status of the review task
          overtaken,    \* assistants decided by somebody else during a judgement
          doc,          \* assistants in the market index of the text search
          point,        \* assistants in the vector collection
          broker,       \* index tasks on their way
          install,      \* users that installed the assistant
          reviewer,
          search        \* each user's search: the hits, then the candidates

marketVars == <<assistant, review, overtaken, doc, point, broker,
                install, reviewer, search>>

Lives == {"none", "draft", "published", "archived", "deleted"}
Visibilities == {"private", "public"}
ReviewStates == {"none", "pending", "approved", "rejected"}
Ops == {"sync", "remove", "upsert", "delete"}

NoAssistant == [status |-> "none", visibility |-> "private", version |-> 0]
Idle == [pc |-> "idle"]

\* The rows of assistant_install of one assistant: at most one for each user.
InstallRows == SUBSET Users

Init ==
    /\ assistant = [a \in Shared |-> NoAssistant]
    /\ review = [a \in Shared |-> "none"]
    /\ overtaken = {}
    /\ doc = {} /\ point = {} /\ broker = {}
    /\ install = [a \in Shared |-> {}]
    /\ reviewer = [r \in Reviewers |-> Idle]
    /\ search = [u \in Users |-> Idle]

(***************************************************************************)
(* The life of an assistant                                                *)
(***************************************************************************)

(* ALLOWED_TRANSITIONS of assistant_state.py; staying is always allowed.   *)
ValidTransition(from, to) ==
    \/ from = to
    \/ <<from, to>> \in {<<"draft", "published">>, <<"draft", "archived">>,
                         <<"published", "archived">>}

Exists(a) == assistant[a].status \notin {"none", "deleted"}
Indexable(x) == x.visibility = "public" /\ x.status = "published"

Send(ops, a) == broker' = broker \cup {<<op, a>> : op \in ops}

(* The expert network (vectors) takes only what has passed its review.     *)
SyncOps(a) == IF review[a] = "approved" THEN {"upsert", "sync"} ELSE {"upsert"}

CreateAssistant(a, status, visibility) ==
    /\ assistant[a].status = "none"
    /\ assistant' = [assistant EXCEPT ![a] =
         [status |-> status, visibility |-> visibility, version |-> 1]]
    /\ IF Indexable(assistant'[a]) THEN Send(SyncOps(a), a) ELSE UNCHANGED broker
    /\ UNCHANGED <<review, overtaken, doc, point, install, reviewer, search>>

(* What an update does to the indexes: an assistant that leaves the public *)
(* is taken out, one that enters it or has a new version is put in.        *)
SyncIndex(a, new, fresh) ==
    IF Indexable(assistant[a]) /\ ~ Indexable(new) THEN Send({"remove", "delete"}, a)
    ELSE IF Indexable(new) /\ (fresh \/ ~ Indexable(assistant[a]))
         THEN Send(SyncOps(a), a)
         ELSE UNCHANGED broker

UpdateAssistant(a, status, visibility, fresh) ==
    LET new == [status |-> status, visibility |-> visibility,
                version |-> IF fresh THEN assistant[a].version + 1
                            ELSE assistant[a].version]
    IN  /\ Exists(a)
        /\ ValidTransition(assistant[a].status, status)
        /\ new # assistant[a] /\ new.version <= MaxVersion
        /\ assistant' = [assistant EXCEPT ![a] = new]
        /\ SyncIndex(a, new, fresh)
        /\ UNCHANGED <<review, overtaken, doc, point, install, reviewer, search>>

(* An assistant that others have installed is archived and made private;   *)
(* otherwise it goes, and its versions and installs go with it. The review *)
(* task is tied to the id and stays.                                       *)
DeleteAssistant(a) ==
    /\ Exists(a)
    /\ IF install[a] # {}
       THEN LET new == [assistant[a] EXCEPT !.status = "archived",
                                            !.visibility = "private"]
            IN  assistant' = [assistant EXCEPT ![a] = new] /\ SyncIndex(a, new, FALSE)
       ELSE /\ assistant' = [assistant EXCEPT ![a].status = "deleted"]
            /\ Send(IF Indexable(assistant[a]) THEN {"remove", "delete"} ELSE {"delete"}, a)
    /\ UNCHANGED <<review, overtaken, doc, point, install, reviewer, search>>

(***************************************************************************)
(* The review                                                              *)
(***************************************************************************)
(* A submission needs a public, published assistant. Whatever the verdict  *)
(* was, the review is pending again; then the model reads the assistant.   *)
SubmitForReview(r, a) ==
    /\ reviewer[r].pc = "idle"
    /\ Indexable(assistant[a])
    /\ review' = [review EXCEPT ![a] = "pending"]
    /\ reviewer' = [reviewer EXCEPT ![r] =
         [pc |-> "judging", of |-> a]]
    /\ overtaken' = IF \E q \in Reviewers : reviewer[q].pc = "judging" /\ reviewer[q].of = a
                    THEN overtaken \cup {a} ELSE overtaken
    /\ UNCHANGED <<assistant, doc, point, broker, install, search>>

OnReviewStatusChanged(a, status) ==
    Send(IF status = "approved" THEN {"sync", "upsert"} ELSE {"remove", "upsert"}, a)

(* The verdict is written over the row the session holds, pending as it    *)
(* was: what an administrator has decided meanwhile is not seen.           *)
AutoReview(r, verdict) ==
    LET a == reviewer[r].of
    IN  /\ reviewer[r].pc = "judging"
        /\ review' = [review EXCEPT ![a] = verdict]
        /\ OnReviewStatusChanged(a, verdict)
        /\ reviewer' = [reviewer EXCEPT ![r] = Idle]
        /\ UNCHANGED <<assistant, overtaken, doc, point, install, search>>

(* The model fails or answers nothing usable: the review stays pending.    *)
AutoReviewFails(r) ==
    /\ reviewer[r].pc = "judging"
    /\ reviewer' = [reviewer EXCEPT ![r] = Idle]
    /\ UNCHANGED <<assistant, review, overtaken, doc, point, broker, install, search>>

(* An administrator decides what is pending, whoever else is at it.        *)
DecideReview(a, verdict) ==
    /\ review[a] = "pending"
    /\ review' = [review EXCEPT ![a] = verdict]
    /\ OnReviewStatusChanged(a, verdict)
    /\ overtaken' = IF \E q \in Reviewers : reviewer[q].pc = "judging" /\ reviewer[q].of = a
                    THEN overtaken \cup {a} ELSE overtaken
    /\ UNCHANGED <<assistant, doc, point, install, reviewer, search>>

(***************************************************************************)
(* Installs                                                                *)
(***************************************************************************)
Open(a) == Indexable(assistant[a]) /\ review[a] = "approved"

InstallAssistant(u, a) ==
    /\ Open(a) /\ u \notin install[a]
    /\ install' = [install EXCEPT ![a] = @ \cup {u}]
    /\ UNCHANGED <<assistant, review, overtaken, doc, point, broker, reviewer, search>>

UninstallAssistant(u, a) ==
    /\ u \in install[a]
    /\ install' = [install EXCEPT ![a] = @ \ {u}]
    /\ UNCHANGED <<assistant, review, overtaken, doc, point, broker, reviewer, search>>

(***************************************************************************)
(* Index tasks and search                                                  *)
(***************************************************************************)
(* The vector task writes the assistant it finds, public or not; the text  *)
(* task looks at the row and the review and writes or deletes accordingly. *)
IndexTask(op, a) ==
    /\ <<op, a>> \in broker
    /\ broker' = broker \ {<<op, a>>}
    /\ point' = CASE op = "sync" /\ Exists(a) -> point \cup {a}
                  [] op = "remove" -> point \ {a}
                  [] OTHER -> point
    /\ doc' = CASE op = "upsert" -> IF Open(a) THEN doc \cup {a} ELSE doc \ {a}
                [] op = "delete" -> doc \ {a}
                [] OTHER -> doc
    /\ UNCHANGED <<assistant, review, overtaken, install, reviewer, search>>

(* A task fails: it is logged and not tried again.                         *)
IndexTaskFails(op, a) ==
    /\ <<op, a>> \in broker
    /\ broker' = broker \ {<<op, a>>}
    /\ UNCHANGED <<assistant, review, overtaken, doc, point, install, reviewer, search>>

SearchIndex(u, hits) ==
    /\ search[u].pc = "idle" /\ hits # {}
    /\ search' = [search EXCEPT ![u] = [pc |-> "hits", ids |-> hits]]
    /\ UNCHANGED <<assistant, review, overtaken, doc, point, broker, install, reviewer>>

(* Every hit is looked up; what is gone, private or not approved is left.  *)
Hydrate(ids) == {a \in ids : Open(a)}

ShowCandidates(u) ==
    /\ search[u].pc = "hits"
    /\ search' = [search EXCEPT ![u] =
         [pc |-> "shown", ids |-> Hydrate(search[u].ids),
          wanted |-> {a \in search[u].ids : Open(a)}]]
    /\ UNCHANGED <<assistant, review, overtaken, doc, point, broker, install, reviewer>>

CloseSearch(u) ==
    /\ search[u].pc = "shown"
    /\ search' = [search EXCEPT ![u] = Idle]
    /\ UNCHANGED <<assistant, review, overtaken, doc, point, broker, install, reviewer>>

Next ==
    \/ \E a \in Shared, s \in {"draft", "published"}, v \in Visibilities :
          CreateAssistant(a, s, v)
    \/ \E a \in Shared, s \in {"draft", "published", "archived"}, v \in Visibilities, fresh \in BOOLEAN :
          UpdateAssistant(a, s, v, fresh)
    \/ \E a \in Shared : DeleteAssistant(a)
    \/ \E r \in Reviewers, a \in Shared : SubmitForReview(r, a)
    \/ \E r \in Reviewers, verdict \in {"approved", "rejected"} : AutoReview(r, verdict)
    \/ \E r \in Reviewers : AutoReviewFails(r)
    \/ \E a \in Shared, verdict \in {"approved", "rejected"} : DecideReview(a, verdict)
    \/ \E u \in Users, a \in Shared : InstallAssistant(u, a) \/ UninstallAssistant(u, a)
    \/ \E op \in Ops, a \in Shared : IndexTask(op, a) \/ IndexTaskFails(op, a)
    \/ \E u \in Users : SearchIndex(u, point) \/ SearchIndex(u, doc)
    \/ \E u \in Users : ShowCandidates(u) \/ CloseSearch(u)

Spec == Init /\ [][Next]_marketVars

-----------------------------------------------------------------------------
\* Types: assistants and reviews stay in their life cycles, search entries and
\* messages refer to shared assistants only.
TypeOK ==
    /\ \A a \in Shared : /\ assistant[a].status \in Lives
                         /\ assistant[a].visibility \in Visibilities
                         /\ assistant[a].version \in 0..MaxVersion
    /\ review \in [Shared -> ReviewStates]
    /\ doc \subseteq Shared /\ point \subseteq Shared /\ overtaken \subseteq Shared
    /\ broker \subseteq Ops \X Shared
    /\ install \in [Shared -> InstallRows]
    /\ \A r \in Reviewers : reviewer[r].pc \in {"idle", "judging"}
    /\ \A u \in Users : search[u].pc \in {"idle", "hits", "shown"}

(* A search shows only assistants that were public and approved when it    *)
(* answered, although both indexes lag behind: a late task may put an      *)
(* archived, deleted or rejected assistant back into the vectors for good. *)
FoundIsOpen ==
    \A u \in Users : search[u].pc = "shown" => search[u].ids \subseteq search[u].wanted

(* An archived assistant is out of the market for good: nobody installs it *)
(* any more and no update, verdict or index task brings it back.           *)
ArchivedStaysOut ==
    [][\A a \in Shared : assistant[a].status = "archived" =>
          /\ assistant'[a].status \in {"archived", "deleted"}
          /\ install'[a] \subseteq install[a]]_marketVars

(* The transitions the review's state machine allows: a verdict follows    *)
(* only a submission. Not so: the automatic review writes its verdict over *)
(* an administrator's.                                                     *)
ReviewTransitions ==
    [][\A a \in Shared : review'[a] # review[a] =>
          \/ review'[a] = "pending"
          \/ review[a] = "pending"]_marketVars

(* The same while nobody else decided during a judgement.                  *)
VerdictFollowsSubmission ==
    [][\A a \in Shared \ overtaken : review'[a] # review[a] =>
          \/ review'[a] = "pending"
          \/ review[a] = "pending"]_marketVars
=============================================================================
