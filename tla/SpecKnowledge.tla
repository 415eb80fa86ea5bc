---------------------------- MODULE SpecKnowledge --------------------------
(***************************************************************************)
(* How a plan becomes system knowledge: feedback on it collects in a       *)
(* candidate row, a delayed task has the candidate judged by rules and by  *)
(* a model, a reviewer or enough sessions promote it.  Candidate, review   *)
(* task and the points in the two vector collections are written one after *)
(* the other, and the operations run side by side.                         *)
(***************************************************************************)
EXTENDS Integers, FiniteSets

CONSTANTS
  Actors,        \* requests and tasks that can be at work together
  SpecSessions,  \* sessions feedback comes from
  AutoSessions,  \* SPEC_KB_AUTO_PROMOTE_UNIQUE_SESSIONS
  MaxFeedback    \* bound: feedback events of each sign

VARIABLES
  candidate,   \* row of spec_knowledge_candidate
  review,      \* status of its review task
  candPoint,   \* whether infra_candidates has it
  sysPoint,    \* whether system_memory has it
  evaluations, \* scheduled evaluations, each with the positive feedback it was scheduled at
  promotions,  \* whether an automatic promotion is scheduled
  actor,       \* actor[a]: what a is doing
  passed,      \* whether some evaluation let it pass
  raced        \* whether two actors were ever at work together

specKbVars == <<candidate, review, candPoint, sysPoint, evaluations, promotions, actor, passed, raced>>

NewCandidate == [status |-> "none", pos |-> 0, neg |-> 0, soured |-> FALSE, sessions |-> {}]
ActorIdle == [at |-> "idle", verdict |-> "none", auto |-> FALSE]

Init ==
  /\ candidate = NewCandidate
  /\ review = "none"
  /\ candPoint = FALSE /\ sysPoint = FALSE
  /\ evaluations = {}
  /\ promotions = FALSE
  /\ actor = [a \in Actors |-> ActorIdle]
  /\ passed = FALSE
  /\ raced = FALSE

\* ALLOWED_TRANSITIONS of the review state machine; the same status again is fine.
Allowed(from, to) ==
  \/ from = to
  \/ <<from, to>> \in {<<"draft", "pending">>, <<"pending", "approved">>, <<"pending", "rejected">>,
                       <<"pending", "suspended">>, <<"rejected", "pending">>, <<"approved", "suspended">>,
                       <<"approved", "pending">>, <<"suspended", "pending">>}

Begins(a, at) ==
  /\ actor[a].at = "idle"
  /\ raced' = (raced \/ \E b \in Actors \ {a} : actor[b].at # "idle")
  /\ actor' = [actor EXCEPT ![a] = [ActorIdle EXCEPT !.at = at]]
Goes(a, at) == actor' = [actor EXCEPT ![a].at = at] /\ UNCHANGED raced
Ends(a) == actor' = [actor EXCEPT ![a] = ActorIdle] /\ UNCHANGED raced

-----------------------------------------------------------------------------
\* What one more event makes of the row: a positive one asks for an evaluation, more
\* negative than positive ones reject whatever it was.
WithFeedback(c, good, s) ==
  LET n == [c EXCEPT !.pos = IF good THEN @ + 1 ELSE @, !.neg = IF good THEN @ ELSE @ + 1, !.soured = ~good,
                     !.sessions = @ \cup {s}]
      asked == IF n.status = "none" THEN "pending_signal" ELSE n.status
      moved == IF good /\ asked \in {"pending_signal", "rejected"} THEN "pending_eval" ELSE asked IN
  [n EXCEPT !.status = IF n.neg > n.pos THEN "rejected" ELSE moved]

\* record_feedback_event up to its commit.
RecordFeedback(a, good, s) ==
  /\ IF good THEN candidate.pos < MaxFeedback ELSE candidate.neg < MaxFeedback
  /\ candidate' = WithFeedback(candidate, good, s)
  /\ Begins(a, "clean")
  /\ UNCHANGED <<review, candPoint, sysPoint, evaluations, promotions, passed>>

\* A rejected one leaves the candidates' collection; then the tasks are scheduled.
AfterFeedback(a) ==
  LET c == candidate IN
  /\ actor[a].at = "clean"
  /\ candPoint' = (candPoint /\ ~(c.status = "rejected" /\ c.neg > c.pos))
  /\ evaluations' = IF c.status = "pending_eval" THEN evaluations \cup {c.pos} ELSE evaluations
  /\ promotions' = (promotions \/ (c.status = "pending_review" /\ Cardinality(c.sessions) >= AutoSessions))
  /\ Ends(a)
  /\ UNCHANGED <<candidate, review, sysPoint, passed>>

\* Nothing to evaluate: decided already, soured, or praised again since.
EvaluateSkips(a, n) ==
  /\ actor[a].at = "idle"
  /\ n \in evaluations
  /\ evaluations' = evaluations \ {n}
  /\ \/ candidate.status \in {"approved", "disabled"} /\ UNCHANGED candidate
     \/ /\ candidate.status \notin {"approved", "disabled"} /\ candidate.soured
        /\ candidate' = [candidate EXCEPT !.status = "rejected"]
     \/ candidate.status \notin {"approved", "disabled"} /\ ~candidate.soured /\ candidate.pos > n /\ UNCHANGED candidate
  /\ UNCHANGED <<review, candPoint, sysPoint, promotions, actor, passed, raced>>

\* The static rules pass and the model is asked.
Evaluate(a, n) ==
  /\ n \in evaluations
  /\ candidate.status \notin {"approved", "disabled"} /\ ~candidate.soured /\ candidate.pos = n
  /\ evaluations' = evaluations \ {n}
  /\ Begins(a, "judge")
  /\ UNCHANGED <<candidate, review, candPoint, sysPoint, promotions, passed>>

\* The rules or the model are against it: the row is rejected, whatever it is by now.
JudgeAgainst(a) ==
  /\ actor[a].at = "judge"
  /\ candidate' = [candidate EXCEPT !.status = "rejected"]
  /\ Goes(a, "unlist")
  /\ UNCHANGED <<review, candPoint, sysPoint, evaluations, promotions, passed>>

\* The model is for it: the row goes to review, whatever it is by now.
JudgeFor(a) ==
  /\ actor[a].at = "judge"
  /\ candidate' = [candidate EXCEPT !.status = "pending_review"]
  /\ passed' = TRUE
  /\ Goes(a, "submit")
  /\ UNCHANGED <<review, candPoint, sysPoint, evaluations, promotions>>

\* ReviewService.submit: the task is made, or is pending again.
Submit(a) ==
  /\ actor[a].at = "submit"
  /\ review' = IF review = "none" \/ Allowed(review, "pending") THEN "pending" ELSE review
  /\ Goes(a, "list")
  /\ UNCHANGED <<candidate, candPoint, sysPoint, evaluations, promotions, passed>>

\* _sync_candidate_to_qdrant.
List(a) ==
  /\ actor[a].at = "list"
  /\ candPoint' = TRUE
  /\ Ends(a)
  /\ UNCHANGED <<candidate, review, sysPoint, evaluations, promotions, passed>>

Unlist(a) ==
  /\ actor[a].at = "unlist"
  /\ candPoint' = FALSE
  /\ Ends(a)
  /\ UNCHANGED <<candidate, review, sysPoint, evaluations, promotions, passed>>

\* promote_candidate, by an administrator or by the task: only what waits for review.
PromoteCandidate(a, auto) ==
  /\ auto => promotions
  /\ promotions' = (promotions /\ ~auto)
  /\ IF candidate.status = "pending_review"
     THEN candidate' = [candidate EXCEPT !.status = "approved"] /\ Begins(a, "publish")
     ELSE auto /\ actor[a].at = "idle" /\ UNCHANGED <<candidate, actor, raced>>
  /\ UNCHANGED <<review, candPoint, sysPoint, evaluations, passed>>

\* Both collections get it.
Publish(a) ==
  /\ actor[a].at = "publish"
  /\ candPoint' = TRUE /\ sysPoint' = TRUE
  /\ Goes(a, "approve")
  /\ UNCHANGED <<candidate, review, evaluations, promotions, passed>>

\* ReviewService.approve: a task in the wrong state is an error by now.
Approve(a) ==
  /\ actor[a].at = "approve"
  /\ review' = IF review # "none" /\ Allowed(review, "approved") THEN "approved" ELSE review
  /\ Ends(a)
  /\ UNCHANGED <<candidate, candPoint, sysPoint, evaluations, promotions, passed>>

\* reject_candidate, in any status.
RejectCandidate(a) ==
  /\ candidate.status # "none"
  /\ candidate' = [candidate EXCEPT !.status = "rejected"]
  /\ Begins(a, "withdraw")
  /\ UNCHANGED <<review, candPoint, sysPoint, evaluations, promotions, passed>>

Withdraw(a) ==
  /\ actor[a].at = "withdraw"
  /\ candPoint' = FALSE
  /\ Goes(a, "refuse")
  /\ UNCHANGED <<candidate, review, sysPoint, evaluations, promotions, passed>>

Refuse(a) ==
  /\ actor[a].at = "refuse"
  /\ review' = IF review # "none" /\ Allowed(review, "rejected") THEN "rejected" ELSE review
  /\ Ends(a)
  /\ UNCHANGED <<candidate, candPoint, sysPoint, evaluations, promotions, passed>>

Next ==
  \E a \in Actors :
    \/ \E good \in BOOLEAN, s \in SpecSessions : RecordFeedback(a, good, s)
    \/ \E n \in 0..MaxFeedback : EvaluateSkips(a, n) \/ Evaluate(a, n)
    \/ \E auto \in BOOLEAN : PromoteCandidate(a, auto)
    \/ RejectCandidate(a) \/ AfterFeedback(a) \/ JudgeAgainst(a) \/ JudgeFor(a) \/ Submit(a) \/ List(a) \/ Unlist(a)
    \/ Publish(a) \/ Approve(a) \/ Withdraw(a) \/ Refuse(a)

Spec == Init /\ [][Next]_specKbVars

-----------------------------------------------------------------------------
\* The row, its review and its counters stay in range.
TypeOK ==
  /\ candidate.status \in {"none", "pending_signal", "pending_eval", "pending_review", "approved", "rejected"}
  /\ candidate.pos \in 0..MaxFeedback /\ candidate.neg \in 0..MaxFeedback
  /\ review \in {"none", "draft", "pending", "approved", "rejected", "suspended"}

\* Nothing becomes system knowledge that no evaluation let pass, whichever feedback,
\* decisions and evaluations overlap.
SystemPassedCritic == sysPoint => passed

\* When operations have not overlapped, the four places agree once they are done:
\* what waits for review has a pending task, what is approved is published and so is
\* its task, what is rejected is out of the candidates' collection, and what is
\* disliked more than liked is rejected.
PlacesAgree ==
  ~raced /\ (\A a \in Actors : actor[a].at = "idle") =>
    /\ candidate.status = "pending_review" => review = "pending" /\ candPoint
    /\ candidate.status = "approved" => review = "approved" /\ sysPoint
    /\ candidate.neg > candidate.pos => candidate.status = "rejected" /\ ~candPoint

\* System knowledge is approved knowledge. Not so: the rejection of an approved
\* candidate leaves its point in the system's collection.
SystemIsApproved == (\A a \in Actors : actor[a].at = "idle") /\ sysPoint => candidate.status = "approved"
=============================================================================
