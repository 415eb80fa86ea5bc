---------------------------- MODULE AgentsProofs ----------------------------
(***************************************************************************)
(* What holds of calls, streams, the catalogue, memories, tool servers and *)
(* status streams, for any number of them and of what they are made of:    *)
(* the gateway's beliefs are sound (BeliefsAreSound) and what the user set *)
(* stays set (SettingsAreTheUsers). Each component has an inductive        *)
(* invariant, for each row of its table of constants.                      *)
(***************************************************************************)
EXTENDS MCAgents, FiniteSetTheorems, SequenceTheorems, TLAPS

-----------------------------------------------------------------------------
(* Status streams: the events of a chat, in order. *)

\* What a client was shown, and what is queued after it, are numbers of events that were
\* emitted, each later than the one before.
InOrder(r) ==
  /\ \A i, j \in 1..Len(r.shown) : i < j => r.shown[i] < r.shown[j]
  /\ \A i, j \in 1..Len(r.queue) : i < j => r.queue[i] < r.queue[j]
  /\ \A i \in 1..Len(r.shown) : \A j \in 1..Len(r.queue) : r.shown[i] < r.queue[j]
  /\ \A i \in 1..Len(r.shown) : r.shown[i] <= r.emitted
  /\ \A j \in 1..Len(r.queue) : r.queue[j] <= r.emitted

\* A chat's record: where a generator is goes with the state of its task and with what
\* its client got.
StatusRows(n) ==
  {r \in Status(n)!Chat :
     /\ r.at = "idle" => r = Status(n)!NoChat
     /\ r.at = "over" => r.task # "running"
     /\ r.got = "answer" =>
          r.at = "over" /\ r.queue = <<>> /\ r.error = "none" /\ r.task = "ok"
     /\ Len(r.queue) <= Viewers[n].queue
     /\ InOrder(r)}

StatusInv(n) ==
  /\ chat \in [Viewers[n].chats -> StatusRows(n)]
  /\ flag \subseteq Status(n)!Ids
  /\ cancels \in 0..Viewers[n].cancels
  /\ generation \in [Viewers[n].watched -> Status(n)!Unfinished \cup Status(n)!Finished]
  /\ watcher \in [Viewers[n].watched -> Status(n)!Watcher]

LEMMA StatusNone ==
  ASSUME NEW n \in DOMAIN Viewers
  PROVE  Status(n)!NoChat \in StatusRows(n)
<1>1. Viewers[n].events \in Nat /\ Viewers[n].queue \in Nat BY AgentsAssumption
<1>2. 0 \in 0..Viewers[n].events BY <1>1
<1>3. <<>> \in Seq(1..Viewers[n].events) OBVIOUS
<1>4. Status(n)!NoChat \in Status(n)!Chat
  BY <1>2, <1>3 DEF Status!NoChat, Status!Chat
<1>5. InOrder(Status(n)!NoChat) BY <1>1 DEF InOrder, Status!NoChat
<1>6. Len(Status(n)!NoChat.queue) <= Viewers[n].queue BY <1>1 DEF Status!NoChat
<1> QED BY <1>4, <1>5, <1>6 DEF StatusRows, Status!NoChat

LEMMA StatusInit ==
  ASSUME NEW n \in DOMAIN Viewers, Status(n)!Init
  PROVE  StatusInv(n)
<1>1. 0 \in 0..Viewers[n].cancels BY AgentsAssumption
<1>2. chat \in [Viewers[n].chats -> StatusRows(n)] BY StatusNone DEF Status!Init
<1>3. generation \in [Viewers[n].watched -> Status(n)!Unfinished \cup Status(n)!Finished]
  BY DEF Status!Init, Status!Unfinished
<1>4. watcher \in [Viewers[n].watched -> Status(n)!Watcher] BY DEF Status!Init, Status!Watcher
<1> QED BY <1>1, <1>2, <1>3, <1>4 DEF StatusInv, Status!Init

\* An event is emitted: it is queued if there is room.
LEMMA StatusEmits ==
  ASSUME NEW n \in DOMAIN Viewers, NEW r \in Status(n)!Chat, InOrder(r),
         Len(r.queue) <= Viewers[n].queue, r.emitted < Viewers[n].events
  PROVE  LET e == Status(n)!Emitted(r)
         IN  /\ e \in Status(n)!Chat /\ InOrder(e) /\ Len(e.queue) <= Viewers[n].queue
             /\ e.at = r.at /\ e.task = r.task /\ e.got = r.got /\ e.error = r.error
<1> DEFINE k == r.emitted + 1
           q == IF Len(r.queue) < Viewers[n].queue THEN Append(r.queue, k) ELSE r.queue
           e == [r EXCEPT !.emitted = k, !.queue = q]
           E == Viewers[n].events
<1>1. E \in Nat /\ Viewers[n].queue \in Nat BY AgentsAssumption
<1>2. Status(n)!Emitted(r) = e BY DEF Status!Emitted
<1>3. r.emitted \in 0..E /\ r.queue \in Seq(1..E) /\ r.shown \in Seq(1..E) BY DEF Status!Chat
<1>4. k \in 1..E BY <1>1, <1>3
<1>a. /\ Append(r.queue, k) \in Seq(1..E) /\ Len(Append(r.queue, k)) = Len(r.queue) + 1
      /\ \A i \in 1..Len(r.queue) : Append(r.queue, k)[i] = r.queue[i]
      /\ Append(r.queue, k)[Len(r.queue) + 1] = k
  BY <1>3, <1>4, AppendProperties
<1>b. Len(r.queue) \in Nat BY <1>3
<1>5. q \in Seq(1..E) BY <1>3, <1>a
<1>6. Len(q) <= Viewers[n].queue BY <1>1, <1>a, <1>b
<1>7. \A j \in 1..Len(q) : (j \in 1..Len(r.queue) /\ q[j] = r.queue[j]) \/ (j = Len(q) /\ q[j] = k)
  BY <1>a, <1>b
<1>8. /\ e.emitted = k /\ e.queue = q /\ e.shown = r.shown /\ e.at = r.at /\ e.task = r.task
      /\ e.got = r.got /\ e.error = r.error
  BY DEF Status!Chat
<1>9. e \in Status(n)!Chat
  <2>1. k \in 0..E BY <1>4, <1>1
  <2> HIDE DEF k, q
  <2> QED BY <2>1, <1>5 DEF Status!Chat
<1>10. InOrder(e)
  <2>1. \A i \in 1..Len(r.shown) : r.shown[i] \in Nat BY <1>3, <1>1
  <2>2. \A i \in 1..Len(r.queue) : r.queue[i] \in Nat BY <1>3, <1>1
  <2>3. \A j \in 1..Len(q) : q[j] <= k BY <1>7, <1>3, <2>2 DEF InOrder
  <2>4. \A i \in 1..Len(r.shown) : r.shown[i] <= k BY <1>3, <2>1 DEF InOrder
  <2>5. \A i \in 1..Len(r.shown) : \A j \in 1..Len(q) : r.shown[i] < q[j]
    BY <1>7, <1>3, <2>1 DEF InOrder
  <2>6. Len(q) \in Nat /\ Len(r.queue) \in Nat /\ k \in Nat BY <1>5, <1>3
  <2>7. \A i, j \in 1..Len(q) : i < j => q[i] < q[j]
    <3> SUFFICES ASSUME NEW i \in 1..Len(q), NEW j \in 1..Len(q), i < j PROVE q[i] < q[j]
      OBVIOUS
    <3>1. i # Len(q) BY <2>6
    <3>2. i \in 1..Len(r.queue) /\ q[i] = r.queue[i] BY <1>7, <3>1
    <3> HIDE DEF q, k
    <3>3. CASE j \in 1..Len(r.queue) /\ q[j] = r.queue[j] BY <3>2, <3>3 DEF InOrder
    <3>4. CASE q[j] = k
      <4>1. r.queue[i] <= r.emitted BY <3>2 DEF InOrder
      <4> QED BY <4>1, <3>2, <3>4, <2>2, <1>3 DEF k
    <3> QED BY <1>7, <3>3, <3>4
  <2> HIDE DEF q, k, e
  <2> QED BY <1>8, <2>3, <2>4, <2>5, <2>7 DEF InOrder
<1> HIDE DEF e
<1> QED BY <1>2, <1>6, <1>8, <1>9, <1>10

\* An event is forwarded from the queue to the client.
LEMMA StatusForwards ==
  ASSUME NEW n \in DOMAIN Viewers, NEW r \in Status(n)!Chat, InOrder(r), r.queue # <<>>,
         Len(r.queue) <= Viewers[n].queue
  PROVE  LET e == [r EXCEPT !.queue = Tail(@), !.shown = Append(@, Head(r.queue))]
         IN  e \in Status(n)!Chat /\ InOrder(e) /\ Len(e.queue) <= Viewers[n].queue
<1> DEFINE q == Tail(r.queue)
           s == Append(r.shown, Head(r.queue))
           e == [r EXCEPT !.queue = q, !.shown = s]
           E == Viewers[n].events
<1>1. E \in Nat /\ Viewers[n].queue \in Nat BY AgentsAssumption
<1>2. r.emitted \in 0..E /\ r.queue \in Seq(1..E) /\ r.shown \in Seq(1..E) BY DEF Status!Chat
<1>3. /\ q \in Seq(1..E) /\ s \in Seq(1..E) /\ Len(q) = Len(r.queue) - 1
      /\ Len(s) = Len(r.shown) + 1 /\ s[Len(r.shown) + 1] = r.queue[1]
      /\ \A j \in 1..Len(q) : q[j] = r.queue[j + 1]
      /\ \A i \in 1..Len(r.shown) : s[i] = r.shown[i]
  <2>1. Head(r.queue) \in 1..E /\ Head(r.queue) = r.queue[1]
    <3>1. Head(r.queue) \in 1..E BY <1>2, HeadTailProperties
    <3>2. Head(r.queue) = r.queue[1] BY <1>2, SMT
    <3> QED BY <3>1, <3>2
  <2>2. /\ q \in Seq(1..E) /\ Len(q) = Len(r.queue) - 1
        /\ \A j \in 1..Len(q) : q[j] = r.queue[j + 1]
    BY <1>2, HeadTailProperties
  <2> QED BY <1>2, <2>1, <2>2, AppendProperties
<1>a. Len(r.queue) \in Nat /\ Len(r.shown) \in Nat BY <1>2
<1>4. \A j \in 1..Len(q) : j + 1 \in 1..Len(r.queue) /\ q[j] = r.queue[j + 1]
  BY <1>a, <1>3
<1>5. \A i \in 1..Len(s) : \/ i \in 1..Len(r.shown) /\ s[i] = r.shown[i]
                           \/ i = Len(s) /\ s[i] = r.queue[1]
  <2> SUFFICES ASSUME NEW i \in 1..Len(s), i \notin 1..Len(r.shown)
               PROVE  i = Len(s) /\ s[i] = r.queue[1]
    BY <1>3
  <2>1. i = Len(r.shown) + 1 BY <1>a, <1>3
  <2> QED BY <1>3, <2>1
<1>6. Len(r.queue) \in Nat /\ 1 \in 1..Len(r.queue) /\ Len(q) \in Nat /\ Len(s) \in Nat
      /\ Len(r.shown) \in Nat
  BY <1>2
<1>7. \A i \in 1..Len(r.shown) : r.shown[i] \in Nat BY <1>2, <1>1
<1>8. \A i \in 1..Len(r.queue) : r.queue[i] \in Nat BY <1>2, <1>1
<1>9. e.emitted = r.emitted /\ e.queue = q /\ e.shown = s BY DEF Status!Chat
<1> HIDE DEF q, s
<1>10. \A i, j \in 1..Len(s) : i < j => s[i] < s[j]
  <2> SUFFICES ASSUME NEW i \in 1..Len(s), NEW j \in 1..Len(s), i < j PROVE s[i] < s[j]
    OBVIOUS
  <2>1. i \in 1..Len(r.shown) /\ s[i] = r.shown[i] BY <1>5, <1>3, <1>6
  <2> QED BY <1>5, <1>6, <2>1 DEF InOrder
<1>11. \A i, j \in 1..Len(q) : i < j => q[i] < q[j]
  <2> SUFFICES ASSUME NEW i \in 1..Len(q), NEW j \in 1..Len(q), i < j PROVE q[i] < q[j]
    OBVIOUS
  <2>1. i + 1 < j + 1 BY <1>6
  <2> QED BY <1>4, <2>1 DEF InOrder
<1>12. \A i \in 1..Len(s) : \A j \in 1..Len(q) : s[i] < q[j]
  <2> SUFFICES ASSUME NEW i \in 1..Len(s), NEW j \in 1..Len(q) PROVE s[i] < q[j]
    OBVIOUS
  <2>1. j + 1 \in 1..Len(r.queue) /\ q[j] = r.queue[j + 1] /\ 1 < j + 1 BY <1>4, <1>6
  <2>2. r.queue[1] < r.queue[j + 1] BY <1>6, <2>1 DEF InOrder
  <2> QED BY <1>5, <2>1, <2>2 DEF InOrder
<1>13. \A i \in 1..Len(s) : s[i] <= r.emitted BY <1>5, <1>6 DEF InOrder
<1>14. \A j \in 1..Len(q) : q[j] <= r.emitted BY <1>4 DEF InOrder
<1>15. e \in Status(n)!Chat BY <1>3 DEF Status!Chat
<1>16. Len(q) <= Viewers[n].queue BY <1>1, <1>3, <1>6
<1> HIDE DEF e
<1>17. InOrder(e) BY <1>9, <1>10, <1>11, <1>12, <1>13, <1>14 DEF InOrder
<1> QED BY <1>9, <1>15, <1>16, <1>17 DEF q, s, e

\* A record after a step that leaves its events alone.
StatusAts == {"idle", "loop", "consume", "closing", "joining", "over"}
StatusTasks == {"none", "running", "ok", "failed", "raised", "cancelled"}
StatusErrors == {"none", "step", "CLIENT_CANCELLED", "CLIENT_DISCONNECTED"}
StatusGots == {"nothing", "answer", "error", "done"}
Turned(r, at, task, error, got) ==
  [r EXCEPT !.at = at, !.task = task, !.error = error, !.got = got]

LEMMA StatusTurned ==
  ASSUME NEW n \in DOMAIN Viewers, NEW o \in Status(n)!Chat, InOrder(o),
         Len(o.queue) <= Viewers[n].queue,
         NEW at \in StatusAts \ {"idle"}, NEW task \in StatusTasks, NEW error \in StatusErrors,
         NEW got \in StatusGots, at = "over" => task # "running",
         got = "answer" => at = "over" /\ o.queue = <<>> /\ error = "none" /\ task = "ok"
  PROVE  Turned(o, at, task, error, got) \in StatusRows(n)
<1> DEFINE r == Turned(o, at, task, error, got)
<1>1. /\ r.at = at /\ r.task = task /\ r.error = error /\ r.got = got /\ r.queue = o.queue
      /\ r.shown = o.shown /\ r.emitted = o.emitted
  BY DEF Status!Chat, Turned
<1>2. r \in Status(n)!Chat
  BY DEF Status!Chat, Turned, StatusAts, StatusTasks, StatusErrors, StatusGots
<1> HIDE DEF r
<1>3. InOrder(r) BY <1>1 DEF InOrder
<1> QED BY <1>1, <1>2, <1>3 DEF StatusRows, r

\* One chat's record becomes r, which the invariant allows.
LEMMA StatusPut ==
  ASSUME NEW n \in DOMAIN Viewers, StatusInv(n), NEW c \in Viewers[n].chats,
         NEW r \in StatusRows(n), chat' = [chat EXCEPT ![c] = r],
         flag' \subseteq flag, UNCHANGED <<cancels, generation, watcher>>
  PROVE  StatusInv(n)'
BY DEF StatusInv, Status!Ids

\* A step of a chat.
LEMMA StatusChat ==
  ASSUME NEW n \in DOMAIN Viewers, StatusInv(n), NEW c \in Viewers[n].chats,
         \/ Status(n)!Open(c) \/ Status(n)!EmitStatus(c) \/ Status(n)!WorkflowEnds(c)
         \/ Status(n)!SeeCancel(c) \/ Status(n)!ConsumeCancel(c) \/ Status(n)!Forward(c)
         \/ Status(n)!Conclude(c) \/ Status(n)!Disconnect(c) \/ Status(n)!CleanUp(c)
         \/ Status(n)!JoinTask(c)
  PROVE  StatusInv(n)'
<1> DEFINE o == chat[c]
           E == Viewers[n].events
<1>1. E \in Nat \ {0} /\ Viewers[n].queue \in Nat BY AgentsAssumption
<1>2. o \in StatusRows(n) /\ chat \in [Viewers[n].chats -> StatusRows(n)] BY DEF StatusInv
<1>3. /\ o \in Status(n)!Chat /\ InOrder(o) /\ Len(o.queue) <= Viewers[n].queue
      /\ o.at = "idle" => o = Status(n)!NoChat
      /\ o.at = "over" => o.task # "running"
      /\ o.got = "answer" => o.at = "over" /\ o.queue = <<>> /\ o.error = "none" /\ o.task = "ok"
  BY <1>2 DEF StatusRows
<1> SUFFICES \E r \in StatusRows(n) : chat' = [chat EXCEPT ![c] = r] /\ flag' \subseteq flag
                                      /\ UNCHANGED <<cancels, generation, watcher>>
  BY StatusPut
<1>4. CASE Status(n)!Open(c)
  <2> DEFINE b == [o EXCEPT !.at = "loop", !.task = "running"]
             e == Status(n)!Emitted(b)
  <2>1. o.at = "idle" /\ o.emitted = 0 /\ o.got = "nothing"
    BY <1>3, <1>4 DEF Status!Open, Status!At, Status!NoChat
  <2>2. b \in Status(n)!Chat /\ b.at = "loop" /\ b.got = "nothing" BY <1>3, <2>1 DEF Status!Chat
  <2>3. InOrder(b) /\ Len(b.queue) <= Viewers[n].queue
    BY <1>3 DEF InOrder, Status!Chat
  <2>4. b.emitted < E BY <2>1, <1>1, <1>3 DEF Status!Chat
  <2> HIDE DEF b
  <2>5. /\ e \in Status(n)!Chat /\ InOrder(e) /\ Len(e.queue) <= Viewers[n].queue
        /\ e.at = "loop" /\ e.got = "nothing"
    BY <2>2, <2>3, <2>4, StatusEmits
  <2>6. chat' = [chat EXCEPT ![c] = e] BY <1>4, <1>2 DEF Status!Open, b
  <2> HIDE DEF e
  <2>7. e \in StatusRows(n) BY <2>5 DEF StatusRows
  <2> QED BY <2>6, <2>7, <1>4 DEF Status!Open, Status!Rest
<1>5. CASE Status(n)!EmitStatus(c)
  <2> DEFINE e == Status(n)!Emitted(o)
  <2>1. o.task = "running" /\ o.emitted < E BY <1>5 DEF Status!EmitStatus
  <2>2. /\ e \in Status(n)!Chat /\ InOrder(e) /\ Len(e.queue) <= Viewers[n].queue
        /\ e.at = o.at /\ e.got = o.got /\ e.task = o.task
    BY <1>3, <2>1, StatusEmits
  <2>3. o.at # "idle" /\ o.at # "over" /\ o.got # "answer"
    BY <1>3, <2>1 DEF Status!NoChat
  <2>4. chat' = [chat EXCEPT ![c] = e] BY <1>5, <1>2 DEF Status!EmitStatus
  <2> HIDE DEF e, o
  <2>5. e \in StatusRows(n) BY <2>2, <2>3 DEF StatusRows
  <2> QED BY <2>4, <2>5, <1>5 DEF Status!EmitStatus, Status!Rest
<1>6. CASE Status(n)!Forward(c)
  <2> DEFINE e == [o EXCEPT !.queue = Tail(@), !.shown = Append(@, Head(o.queue))]
  <2>1. o.at = "loop" /\ o.queue # <<>> BY <1>6 DEF Status!Forward, Status!At
  <2>2. e \in Status(n)!Chat /\ InOrder(e) /\ Len(e.queue) <= Viewers[n].queue
    BY <1>3, <2>1, StatusForwards
  <2>3. e.at = "loop" /\ e.got = o.got BY <1>3, <2>1 DEF Status!Chat
  <2>4. o.got # "answer" BY <1>3, <2>1
  <2>5. chat' = [chat EXCEPT ![c] = e] BY <1>6, <1>2 DEF Status!Forward
  <2> HIDE DEF e, o
  <2>6. e \in StatusRows(n) BY <2>2, <2>3, <2>4 DEF StatusRows
  <2> QED BY <2>5, <2>6, <1>6 DEF Status!Forward, Status!Rest
<1>7. ASSUME NEW at \in StatusAts \ {"idle"}, NEW task \in StatusTasks, NEW error \in StatusErrors,
             NEW got \in StatusGots, chat' = [chat EXCEPT ![c] = Turned(o, at, task, error, got)],
             at = "over" => task # "running",
             got = "answer" => at = "over" /\ o.queue = <<>> /\ error = "none" /\ task = "ok",
             flag' \subseteq flag, UNCHANGED <<cancels, generation, watcher>>
      PROVE  \E r \in StatusRows(n) : chat' = [chat EXCEPT ![c] = r] /\ flag' \subseteq flag
                                      /\ UNCHANGED <<cancels, generation, watcher>>
  <2> HIDE DEF o
  <2>1. Turned(o, at, task, error, got) \in StatusRows(n) BY <1>3, <1>7, StatusTurned
  <2> QED BY <2>1, <1>7
<1>8. o.at \in StatusAts /\ o.task \in StatusTasks /\ o.error \in StatusErrors /\ o.got \in StatusGots
  BY <1>3 DEF Status!Chat, StatusAts, StatusTasks, StatusErrors, StatusGots
<1>9. CASE Status(n)!WorkflowEnds(c)
  <2>1. PICK e \in {"ok", "failed", "raised"} :
          chat' = [chat EXCEPT ![c].task = e,
                     ![c].error = IF e = "failed" THEN "step" ELSE @]
    BY <1>9 DEF Status!WorkflowEnds
  <2> DEFINE er == IF e = "failed" THEN "step" ELSE o.error
  <2>2. o.task = "running" /\ o.at # "idle" /\ o.got # "answer"
    BY <1>9, <1>3 DEF Status!WorkflowEnds, Status!NoChat
  <2>3. chat' = [chat EXCEPT ![c] = Turned(o, o.at, e, er, o.got)]
    BY <1>2, <1>3, <2>1 DEF Turned, Status!Chat
  <2>4. er \in StatusErrors /\ e \in StatusTasks /\ e # "running"
    BY <1>8, <2>1 DEF StatusErrors, StatusTasks
  <2> HIDE DEF er, o
  <2> QED BY <1>7, <1>8, <1>9, <2>2, <2>3, <2>4 DEF Status!WorkflowEnds, Status!Rest
<1>10. CASE Status(n)!SeeCancel(c)
  <2>1. o.at = "loop" /\ o.got # "answer" BY <1>10, <1>3 DEF Status!SeeCancel, Status!At
  <2>2. chat' = [chat EXCEPT ![c] = Turned(o, "consume", o.task, o.error, o.got)]
    BY <1>2, <1>3, <1>10 DEF Turned, Status!Chat, Status!SeeCancel
  <2>3. "consume" \in StatusAts \ {"idle"} BY DEF StatusAts
  <2>8. flag' \subseteq flag /\ UNCHANGED <<cancels, generation, watcher>>
    BY <1>10 DEF Status!SeeCancel, Status!Rest
  <2>9. o.task \in StatusTasks /\ o.error \in StatusErrors /\ o.got \in StatusGots BY <1>8
  <2> HIDE DEF o
  <2> QED BY <1>7, <2>1, <2>2, <2>3, <2>8, <2>9
<1>11. CASE Status(n)!ConsumeCancel(c)
  <2>1. chat' = [chat EXCEPT ![c] = Turned(o, "closing", o.task, "CLIENT_CANCELLED", "done")]
    BY <1>2, <1>3, <1>11 DEF Turned, Status!Chat, Status!ConsumeCancel
  <2>2. /\ "closing" \in StatusAts \ {"idle"} /\ "CLIENT_CANCELLED" \in StatusErrors
        /\ "done" \in StatusGots
    BY DEF StatusAts, StatusErrors, StatusGots
  <2>8. flag' \subseteq flag /\ UNCHANGED <<cancels, generation, watcher>>
    BY <1>11 DEF Status!ConsumeCancel, Status!Rest
  <2>9. o.task \in StatusTasks /\ o.error \in StatusErrors /\ o.got \in StatusGots BY <1>8
  <2> HIDE DEF o
  <2> QED BY <1>7, <2>1, <2>2, <2>8, <2>9
<1>12. CASE Status(n)!Conclude(c)
  <2> DEFINE at == IF o.task = "raised" THEN "closing" ELSE "over"
             got == CASE o.task = "raised" -> o.got
                      [] o.task = "ok" /\ o.error = "none" -> "answer"
                      [] OTHER -> "error"
  <2>1. o.at = "loop" /\ o.queue = <<>> /\ o.task # "running" /\ o.got # "answer"
    BY <1>12, <1>3 DEF Status!Conclude, Status!At, Status!TaskDone
  <2>2. chat' = [chat EXCEPT ![c] = Turned(o, at, o.task, o.error, got)]
    BY <1>2, <1>3, <1>12 DEF Turned, Status!Chat, Status!Conclude
  <2>3. at \in StatusAts \ {"idle"} /\ got \in StatusGots
    BY <1>8 DEF StatusAts, StatusGots
  <2>4. got = "answer" => at = "over" /\ o.error = "none" /\ o.task = "ok" BY <2>1
  <2>8. flag' \subseteq flag /\ UNCHANGED <<cancels, generation, watcher>>
    BY <1>12 DEF Status!Conclude, Status!Rest
  <2>9. o.task \in StatusTasks /\ o.error \in StatusErrors /\ o.got \in StatusGots BY <1>8
  <2> HIDE DEF o, at, got
  <2> QED BY <1>7, <2>1, <2>2, <2>3, <2>4, <2>8, <2>9
<1>13. CASE Status(n)!Disconnect(c)
  <2>1. o.at \in {"loop", "consume"} /\ o.got # "answer" BY <1>13, <1>3 DEF Status!Disconnect
  <2>2. chat' = [chat EXCEPT ![c] = Turned(o, "closing", o.task, o.error, o.got)]
    BY <1>2, <1>3, <1>13 DEF Turned, Status!Chat, Status!Disconnect
  <2>3. "closing" \in StatusAts \ {"idle"} BY DEF StatusAts
  <2>8. flag' \subseteq flag /\ UNCHANGED <<cancels, generation, watcher>>
    BY <1>13 DEF Status!Disconnect, Status!Rest
  <2>9. o.task \in StatusTasks /\ o.error \in StatusErrors /\ o.got \in StatusGots BY <1>8
  <2> HIDE DEF o
  <2> QED BY <1>7, <2>1, <2>2, <2>3, <2>8, <2>9
<1>14. CASE Status(n)!CleanUp(c)
  <2> DEFINE done == o.task \notin {"none", "running"}
             at == IF done THEN "over" ELSE "joining"
             er == IF ~done /\ o.error = "none" THEN "CLIENT_DISCONNECTED" ELSE o.error
  <2>1. o.at = "closing" /\ o.got # "answer" BY <1>14, <1>3 DEF Status!CleanUp, Status!At
  <2>2. chat' = [chat EXCEPT ![c] = Turned(o, at, o.task, er, o.got)]
    BY <1>2, <1>3, <1>14 DEF Turned, Status!Chat, Status!CleanUp, Status!TaskDone
  <2>3. at \in StatusAts \ {"idle"} /\ er \in StatusErrors /\ (at = "over" => o.task # "running")
    BY <1>8 DEF StatusAts, StatusErrors
  <2>8. flag' \subseteq flag /\ UNCHANGED <<cancels, generation, watcher>>
    BY <1>14 DEF Status!CleanUp, Status!Rest
  <2>9. o.task \in StatusTasks /\ o.error \in StatusErrors /\ o.got \in StatusGots BY <1>8
  <2> HIDE DEF o, at, er
  <2> QED BY <1>7, <2>1, <2>2, <2>3, <2>8, <2>9
<1>15. CASE Status(n)!JoinTask(c)
  <2>1. PICK e \in {"cancelled", "ok", "failed", "raised"} :
          chat' = [chat EXCEPT ![c].task = e, ![c].at = "over",
                     ![c].error = IF e = "failed" THEN "step" ELSE @]
    BY <1>15 DEF Status!JoinTask
  <2> DEFINE er == IF e = "failed" THEN "step" ELSE o.error
  <2>2. o.at = "joining" /\ o.got # "answer" BY <1>15, <1>3 DEF Status!JoinTask, Status!At
  <2>3. chat' = [chat EXCEPT ![c] = Turned(o, "over", e, er, o.got)]
    BY <1>2, <1>3, <2>1 DEF Turned, Status!Chat
  <2>4. /\ er \in StatusErrors /\ e \in StatusTasks /\ e # "running"
        /\ "over" \in StatusAts \ {"idle"}
    BY <1>8, <2>1 DEF StatusErrors, StatusTasks, StatusAts
  <2> HIDE DEF er, o
  <2> QED BY <1>7, <1>8, <1>15, <2>2, <2>3, <2>4 DEF Status!JoinTask, Status!Rest
<1> QED BY <1>4, <1>5, <1>6, <1>9, <1>10, <1>11, <1>12, <1>13, <1>14, <1>15

\* Every step.
LEMMA StatusStep ==
  ASSUME NEW n \in DOMAIN Viewers, StatusInv(n), Status(n)!Next
  PROVE  StatusInv(n)'
<1>1. Viewers[n].cancels \in Nat BY AgentsAssumption
<1>2. ASSUME NEW i \in Status(n)!Ids, Status(n)!MarkCancel(i) PROVE StatusInv(n)'
  <2>1. cancels' \in 0..Viewers[n].cancels BY <1>1, <1>2 DEF StatusInv, Status!MarkCancel
  <2>2. flag' \subseteq Status(n)!Ids BY <1>2 DEF StatusInv, Status!MarkCancel
  <2>3. UNCHANGED <<chat, generation, watcher>> BY <1>2 DEF Status!MarkCancel, Status!Rest
  <2> QED BY <2>1, <2>2, <2>3 DEF StatusInv, Status!Ids
<1>3. ASSUME NEW i \in Status(n)!Ids, Status(n)!FlagExpires(i) PROVE StatusInv(n)'
  <2>1. flag' \subseteq Status(n)!Ids BY <1>3 DEF StatusInv, Status!FlagExpires
  <2>2. UNCHANGED <<chat, cancels, generation, watcher>>
    BY <1>3 DEF Status!FlagExpires, Status!Rest
  <2> QED BY <2>1, <2>2 DEF StatusInv, Status!Ids
<1>4. ASSUME NEW g \in Viewers[n].watched, Status(n)!RowMoves(g) PROVE StatusInv(n)'
  <2>1. PICK t \in {"running", "canceled"} \cup Status(n)!Finished :
          generation' = [generation EXCEPT ![g] = t]
    BY <1>4 DEF StatusInv, Status!RowMoves, Status!Finished, Status!Unfinished
  <2>2. generation' \in [Viewers[n].watched -> Status(n)!Unfinished \cup Status(n)!Finished]
    BY <2>1 DEF StatusInv, Status!Finished, Status!Unfinished
  <2>3. UNCHANGED <<chat, flag, cancels, watcher>> BY <1>4 DEF Status!RowMoves
  <2> QED BY <2>2, <2>3 DEF StatusInv, Status!Ids
<1>5. ASSUME NEW g \in Viewers[n].watched,
             Status(n)!Watch(g) \/ Status(n)!Poll(g) \/ Status(n)!WatchTimesOut(g)
      PROVE  StatusInv(n)'
  <2>1. watcher[g] \in Status(n)!Watcher
        /\ generation[g] \in Status(n)!Unfinished \cup Status(n)!Finished
    BY DEF StatusInv
  <2>2. watcher' \in [Viewers[n].watched -> Status(n)!Watcher]
    <3>1. CASE Status(n)!Watch(g)
      <4>1. [watcher[g] EXCEPT !.at = "polling"] \in Status(n)!Watcher BY <2>1 DEF Status!Watcher
      <4> QED BY <3>1, <4>1 DEF StatusInv, Status!Watch
    <3>2. CASE Status(n)!Poll(g)
      <4> DEFINE l == Status(n)!Loaded(g)
      <4>1. l \in Status(n)!Unfinished \cup Status(n)!Finished
        BY <2>1 DEF Status!Loaded, Status!Watcher
      <4> HIDE DEF l
      <4>2. [at |-> IF l \in Status(n)!Finished THEN "over" ELSE "polling", loaded |-> l,
             current |-> l = generation[g]] \in Status(n)!Watcher
        BY <4>1 DEF Status!Watcher
      <4> QED BY <3>2, <4>2 DEF StatusInv, Status!Poll, l
    <3>3. CASE Status(n)!WatchTimesOut(g)
      <4>1. [watcher[g] EXCEPT !.at = "over"] \in Status(n)!Watcher BY <2>1 DEF Status!Watcher
      <4> QED BY <3>3, <4>1 DEF StatusInv, Status!WatchTimesOut
    <3> QED BY <1>5, <3>1, <3>2, <3>3
  <2>3. UNCHANGED <<chat, flag, cancels, generation>>
    BY <1>5 DEF Status!Watch, Status!Poll, Status!WatchTimesOut
  <2> QED BY <2>2, <2>3 DEF StatusInv, Status!Ids
<1> QED BY <1>2, <1>3, <1>4, <1>5, StatusChat DEF Status!Next

\* What the invariant says.
LEMMA StatusPromise ==
  ASSUME NEW n \in DOMAIN Viewers, StatusInv(n)
  PROVE  Status(n)!TypeOK /\ Status(n)!NoneRunsOn
<1>1. \A c \in Viewers[n].chats : chat[c] \in StatusRows(n) BY DEF StatusInv
<1>2. chat \in [Viewers[n].chats -> Status(n)!Chat] BY DEF StatusInv, StatusRows
<1>3. Status(n)!TypeOK BY <1>1, <1>2 DEF StatusInv, StatusRows, Status!TypeOK
<1>4. ASSUME NEW c \in Viewers[n].chats
      PROVE  \A i, j \in DOMAIN chat[c].shown : i < j => chat[c].shown[i] < chat[c].shown[j]
  <2>1. InOrder(chat[c]) BY <1>1 DEF StatusRows
  <2>2. chat[c].shown \in Seq(1..Viewers[n].events) BY <1>2 DEF Status!Chat
  <2>3. DOMAIN chat[c].shown = 1..Len(chat[c].shown) BY <2>2
  <2> QED BY <2>1, <2>3 DEF InOrder
<1>5. Status(n)!NoneRunsOn BY <1>1, <1>4 DEF StatusRows, Status!NoneRunsOn, Status!At
<1> QED BY <1>3, <1>5

-----------------------------------------------------------------------------
(* Upstream calls: what a breaker's hash, or a snapshot of it, says of failures. *)

\* A breaker says no more than what was marked.
Evident(n, b, m) ==
  /\ b \in Upstream(n)!Breaker
  /\ b.failures <= m
  /\ b.state # "closed" => m = Upstreams[n].threshold

\* A call's record: its snapshot is evident, and a call that is to mark has a mark left.
CallRow(n, r, m) ==
  /\ r \in Upstream(n)!Call
  /\ Evident(n, r.snap, m)
  /\ r.at = "mark" => r.marks >= 1

UpstreamInv(n) ==
  /\ marked \in 0..Upstreams[n].threshold
  /\ Evident(n, breaker, marked)
  /\ DOMAIN call = Upstreams[n].calls
  /\ call = [r \in Upstreams[n].calls |-> call[r]]
  /\ \A r \in Upstreams[n].calls : CallRow(n, call[r], marked)

LEMMA UpstreamBounds ==
  ASSUME NEW n \in DOMAIN Upstreams
  PROVE  /\ Upstreams[n].threshold \in Nat \ {0} /\ Upstreams[n].successes \in Nat \ {0}
         /\ Upstreams[n].retries \in Nat /\ Upstreams[n].width \in Nat
         /\ 0 \in 0..Upstreams[n].threshold /\ 0 \in 0..Upstreams[n].successes
         /\ 0 \in 0..Upstreams[n].width
         /\ \A m \in 0..Upstreams[n].threshold : Evident(n, Upstream(n)!Closed, m)
         /\ \A m \in 0..Upstreams[n].threshold : CallRow(n, Upstream(n)!NoCall, m)
<1>1. /\ Upstreams[n].threshold \in Nat \ {0} /\ Upstreams[n].successes \in Nat \ {0}
      /\ Upstreams[n].retries \in Nat /\ Upstreams[n].width \in Nat
  BY AgentsAssumption
<1>2. /\ 0 \in 0..Upstreams[n].threshold /\ 0 \in 0..Upstreams[n].successes
      /\ 0 \in 0..Upstreams[n].width /\ 0 \in 0..(Upstreams[n].retries + 1)
  BY <1>1
<1>3. \A m \in 0..Upstreams[n].threshold : Evident(n, Upstream(n)!Closed, m)
  BY <1>1, <1>2 DEF Evident, Upstream!Closed, Upstream!Breaker
<1>4. Upstream(n)!NoCall \in Upstream(n)!Call
  <2>1. Upstream(n)!Closed \in Upstream(n)!Breaker
    BY <1>2 DEF Upstream!Closed, Upstream!Breaker
  <2> QED BY <1>2, <2>1 DEF Upstream!NoCall, Upstream!Call
<1>5. \A m \in 0..Upstreams[n].threshold : CallRow(n, Upstream(n)!NoCall, m)
  BY <1>3, <1>4 DEF CallRow, Upstream!NoCall
<1> QED BY <1>1, <1>2, <1>3, <1>5

LEMMA UpstreamInit ==
  ASSUME NEW n \in DOMAIN Upstreams, Upstream(n)!Init
  PROVE  UpstreamInv(n)
BY UpstreamBounds DEF UpstreamInv, Upstream!Init

\* One call's record becomes r, and marks are only added.
LEMMA UpstreamPut ==
  ASSUME NEW n \in DOMAIN Upstreams, UpstreamInv(n), NEW c \in Upstreams[n].calls,
         NEW r, call' = [call EXCEPT ![c] = r], CallRow(n, r, marked'),
         marked' \in 0..Upstreams[n].threshold, marked' >= marked,
         Evident(n, breaker', marked')
  PROVE  UpstreamInv(n)'
<1>1. /\ Upstreams[n].threshold \in Nat /\ marked \in 0..Upstreams[n].threshold
  BY UpstreamBounds DEF UpstreamInv
<1>2. \A b : Evident(n, b, marked) => Evident(n, b, marked')
  <2> SUFFICES ASSUME NEW b, Evident(n, b, marked) PROVE Evident(n, b, marked') OBVIOUS
  <2>1. b.failures \in 0..Upstreams[n].threshold BY DEF Evident, Upstream!Breaker
  <2>2. b.failures <= marked' BY <1>1, <2>1 DEF Evident
  <2>3. marked = Upstreams[n].threshold => marked' = Upstreams[n].threshold BY <1>1
  <2> QED BY <2>2, <2>3 DEF Evident
<1>3. \A d \in Upstreams[n].calls : CallRow(n, call'[d], marked')
  BY <1>2 DEF UpstreamInv, CallRow
<1>4. DOMAIN call' = Upstreams[n].calls /\ call' = [d \in Upstreams[n].calls |-> call'[d]]
  BY DEF UpstreamInv
<1> QED BY <1>3, <1>4 DEF UpstreamInv

\* Likewise when neither breaker nor marks change.
LEMMA UpstreamMove ==
  ASSUME NEW n \in DOMAIN Upstreams, UpstreamInv(n), NEW c \in Upstreams[n].calls,
         NEW r, call' = [call EXCEPT ![c] = r], CallRow(n, r, marked),
         UNCHANGED <<breaker, marked>>
  PROVE  UpstreamInv(n)'
<1>1. marked \in Int BY UpstreamBounds DEF UpstreamInv
<1>2. marked' = marked /\ breaker' = breaker OBVIOUS
<1>3. Evident(n, breaker', marked') BY <1>2 DEF UpstreamInv
<1>4. marked' >= marked BY <1>1, <1>2
<1>5. CallRow(n, r, marked') BY <1>2
<1>6. marked' \in 0..Upstreams[n].threshold BY <1>2 DEF UpstreamInv
<1> QED BY <1>3, <1>4, <1>5, <1>6, UpstreamPut

\* Routing, and the checks before the call is sent.
LEMMA UpstreamRoutes ==
  ASSUME NEW n \in DOMAIN Upstreams, UpstreamInv(n), NEW c \in Upstreams[n].calls,
         \/ Upstream(n)!RouteByName(c) \/ Upstream(n)!RouteByModel(c)
         \/ Upstream(n)!BlockUnsafe(c) \/ Upstream(n)!IsCircuitOpen(c)
         \/ Upstream(n)!Finish(c) \/ Upstream(n)!Abandon(c)
  PROVE  UpstreamInv(n)'
<1>1. /\ CallRow(n, call[c], marked) /\ Evident(n, breaker, marked)
      /\ marked \in 0..Upstreams[n].threshold
      /\ call[c] \in Upstream(n)!Call
  BY DEF UpstreamInv, CallRow
<1>2. CASE \E k \in 1..Upstreams[n].width :
             Upstream(n)!Routed(c, k) /\ UNCHANGED <<breaker, marked>>
  <2>1. PICK k \in 1..Upstreams[n].width : Upstream(n)!Routed(c, k) BY <1>2
  <2> DEFINE r == [Upstream(n)!NoCall EXCEPT !.at = "check", !.count = k, !.attempt = 1]
  <2>2. CallRow(n, Upstream(n)!NoCall, marked) BY <1>1, UpstreamBounds
  <2>3. k \in 0..Upstreams[n].width /\ 1 \in 0..(Upstreams[n].retries + 1)
    BY UpstreamBounds
  <2>4. r \in Upstream(n)!Call BY <2>2, <2>3 DEF CallRow, Upstream!Call
  <2>5. CallRow(n, r, marked) BY <2>2, <2>4 DEF CallRow, Upstream!NoCall
  <2>6. call' = [call EXCEPT ![c] = r] BY <2>1 DEF Upstream!Routed
  <2> HIDE DEF r
  <2> QED BY <1>2, <2>5, <2>6, UpstreamMove
<1>3. ASSUME Upstream(n)!End(c), UNCHANGED <<breaker, marked>> PROVE UpstreamInv(n)'
  BY <1>1, <1>3, UpstreamBounds, UpstreamMove DEF Upstream!End
<1>4. \A k \in Upstream(n)!Pinned \cup Upstream(n)!Candidates :
        k \in 1..Upstreams[n].width /\ \A j \in Upstream(n)!ApplyGray(k) : j \in 1..Upstreams[n].width
  BY UpstreamBounds DEF Upstream!Pinned, Upstream!Candidates, Upstream!ApplyGray
<1>5. CASE Upstream(n)!RouteByName(c)
  BY <1>2, <1>4, <1>5 DEF Upstream!RouteByName, Upstream!Choose
<1>6. CASE Upstream(n)!RouteByModel(c)
  <2>1. PICK k \in Upstream(n)!Pinned : Upstream(n)!Choose(c, k) \/ Upstream(n)!Routed(c, 1)
    BY <1>6 DEF Upstream!RouteByModel
  <2>2. 1 \in 1..Upstreams[n].width BY <1>4, UpstreamBounds
  <2> QED BY <1>2, <1>4, <1>6, <2>1, <2>2 DEF Upstream!RouteByModel, Upstream!Choose
<1>7. CASE Upstream(n)!BlockUnsafe(c) BY <1>3, <1>7 DEF Upstream!BlockUnsafe
<1>8. CASE Upstream(n)!Finish(c) BY <1>3, <1>8 DEF Upstream!Finish
<1>9. CASE Upstream(n)!Abandon(c) BY <1>3, <1>9 DEF Upstream!Abandon
<1>10. CASE Upstream(n)!IsCircuitOpen(c)
  <2>1. CASE Upstream(n)!Go(c, "send")
    <3> DEFINE r == [call[c] EXCEPT !.at = "send"]
    <3>1. r \in Upstream(n)!Call /\ r.at = "send" /\ r.snap = call[c].snap
      BY <1>1 DEF Upstream!Call
    <3>2. call' = [call EXCEPT ![c] = r] BY <2>1 DEF Upstream!Go
    <3> HIDE DEF r
    <3>3. CallRow(n, r, marked) BY <1>1, <3>1 DEF CallRow
    <3> QED BY <1>10, <3>2, <3>3, UpstreamMove DEF Upstream!IsCircuitOpen
  <2>2. CASE Upstream(n)!End(c) BY <1>3, <1>10, <2>2 DEF Upstream!IsCircuitOpen
  <2>3. CASE breaker.state = "open" /\ ~breaker.fresh
    <3> DEFINE b == [breaker EXCEPT !.state = "half_open", !.successes = 0]
               r == [call[c] EXCEPT !.at = "half", !.snap = b]
    <3>1. breaker \in Upstream(n)!Breaker BY <1>1 DEF Evident
    <3>2. b \in Upstream(n)!Breaker /\ b.failures = breaker.failures
      BY <3>1, UpstreamBounds DEF Upstream!Breaker
    <3>3. Evident(n, b, marked) BY <1>1, <2>3, <3>2 DEF Evident
    <3>4. call' = [call EXCEPT ![c] = r]
      BY <1>10, <2>3 DEF Upstream!IsCircuitOpen, UpstreamInv
    <3> HIDE DEF b
    <3>5. r \in Upstream(n)!Call /\ r.at = "half" /\ r.snap = b
      BY <1>1, <3>2 DEF Upstream!Call
    <3> HIDE DEF r
    <3>6. CallRow(n, r, marked) BY <3>3, <3>5 DEF CallRow
    <3> QED BY <1>10, <3>4, <3>6, UpstreamMove DEF Upstream!IsCircuitOpen
  <2> QED BY <1>10, <2>1, <2>2, <2>3 DEF Upstream!IsCircuitOpen
<1> QED BY <1>5, <1>6, <1>7, <1>8, <1>9, <1>10

\* What a mark makes of an evident hash is evident with the mark.
LEMMA UpstreamMarks ==
  ASSUME NEW n \in DOMAIN Upstreams, NEW m \in 0..Upstreams[n].threshold, NEW b,
         Evident(n, b, m)
  PROVE  /\ Upstream(n)!Least(m + 1, Upstreams[n].threshold) \in m..Upstreams[n].threshold
         /\ Evident(n, Upstream(n)!Failed(b), Upstream(n)!Least(m + 1, Upstreams[n].threshold))
         /\ Evident(n, Upstream(n)!Succeeded(b), m)
<1> DEFINE T == Upstreams[n].threshold
           S == Upstreams[n].successes
           k == Upstream(n)!Least(b.failures + 1, T)
           l == Upstream(n)!Least(m + 1, T)
<1>1. T \in Nat \ {0} /\ S \in Nat \ {0} BY UpstreamBounds
<1>2. b \in Upstream(n)!Breaker /\ b.failures \in 0..T /\ b.successes \in 0..S
  BY DEF Evident, Upstream!Breaker
<1>3. l \in m..T /\ k \in 0..T /\ k <= l /\ (m = T => l = T) /\ (k = T => l = T)
      /\ k \in Int /\ l \in Int
  <2>1. b.failures <= m BY DEF Evident
  <2> QED BY <1>1, <1>2, <2>1 DEF Upstream!Least
<1>4. b.state # "closed" => m = T BY DEF Evident
<1>5. Evident(n, Upstream(n)!Failed(b), l)
  <2>1. CASE b.state = "half_open" \/ k = T
    <3> DEFINE f == [b EXCEPT !.failures = k, !.state = "open", !.fresh = TRUE]
    <3>1. Upstream(n)!Failed(b) = f BY <2>1 DEF Upstream!Failed
    <3> HIDE DEF k, l
    <3>2. f \in Upstream(n)!Breaker /\ f.failures = k BY <1>2, <1>3 DEF Upstream!Breaker
    <3>3. l = T BY <1>3, <1>4, <2>1
    <3> HIDE DEF f
    <3> QED BY <1>3, <3>1, <3>2, <3>3 DEF Evident
  <2>2. CASE ~(b.state = "half_open" \/ k = T)
    <3> DEFINE f == [b EXCEPT !.failures = k]
    <3>1. Upstream(n)!Failed(b) = f BY <2>2 DEF Upstream!Failed
    <3> HIDE DEF k, l
    <3>2. f \in Upstream(n)!Breaker /\ f.failures = k /\ f.state = b.state
      BY <1>2, <1>3 DEF Upstream!Breaker
    <3> HIDE DEF f
    <3> QED BY <1>3, <1>4, <3>1, <3>2 DEF Evident
  <2> QED BY <2>1, <2>2
<1>6. Evident(n, Upstream(n)!Succeeded(b), m)
  <2>1. CASE b.state # "half_open"
    <3> DEFINE f == [b EXCEPT !.failures = 0]
    <3>1. Upstream(n)!Succeeded(b) = f BY <2>1 DEF Upstream!Succeeded
    <3>2. f \in Upstream(n)!Breaker /\ f.failures = 0 /\ f.state = b.state
      BY <1>2, UpstreamBounds DEF Upstream!Breaker
    <3> HIDE DEF f
    <3> QED BY <1>1, <1>4, <3>1, <3>2 DEF Evident
  <2>2. CASE b.state = "half_open" /\ b.successes + 1 >= S
    BY <2>2, UpstreamBounds DEF Upstream!Succeeded
  <2>3. CASE b.state = "half_open" /\ ~(b.successes + 1 >= S)
    <3> DEFINE f == [b EXCEPT !.successes = b.successes + 1]
    <3>1. Upstream(n)!Succeeded(b) = f BY <2>3 DEF Upstream!Succeeded
    <3>2. b.successes + 1 \in 0..S BY <1>1, <1>2, <2>3
    <3>3. f \in Upstream(n)!Breaker /\ f.failures = b.failures
      BY <1>2, <3>2 DEF Upstream!Breaker
    <3> HIDE DEF f
    <3> QED BY <1>4, <2>3, <3>1, <3>3 DEF Evident
  <2> QED BY <2>1, <2>2, <2>3
<1> QED BY <1>3, <1>5, <1>6

\* A call's record with another place, outcome, index, attempt and number of marks.
Passed(o, at, out, index, attempt, marks) ==
  [o EXCEPT !.at = at, !.outcome = out, !.index = index, !.attempt = attempt, !.marks = marks]

LEMMA UpstreamTurn ==
  ASSUME NEW n \in DOMAIN Upstreams, NEW m, NEW o, CallRow(n, o, m),
         NEW at \in {"check", "send", "mark", "decide"},
         NEW out \in Upstream(n)!Outcomes \cup {"none"},
         NEW index \in 0..1, NEW attempt \in 0..(Upstreams[n].retries + 1),
         NEW marks \in 0..2, at = "mark" => marks >= 1
  PROVE  CallRow(n, Passed(o, at, out, index, attempt, marks), m)
<1> DEFINE r == Passed(o, at, out, index, attempt, marks)
<1>1. o \in Upstream(n)!Call BY DEF CallRow
<1>2. r \in Upstream(n)!Call /\ r.at = at /\ r.snap = o.snap /\ r.marks = marks
  BY <1>1 DEF Upstream!Call, Passed
<1> HIDE DEF r
<1>3. CallRow(n, r, m) BY <1>2 DEF CallRow
<1> QED BY <1>3 DEF r

\* The call is sent and ends one way or another; it is tried again, or fails over.
LEMMA UpstreamCalls ==
  ASSUME NEW n \in DOMAIN Upstreams, UpstreamInv(n), NEW c \in Upstreams[n].calls,
         \/ Upstream(n)!SecretMissing(c) \/ Upstream(n)!OpenStream(c) \/ Upstream(n)!Answer(c)
         \/ Upstream(n)!Fails(c) \/ Upstream(n)!Retry(c) \/ Upstream(n)!FailOver(c)
  PROVE  UpstreamInv(n)'
<1> DEFINE o == call[c]
<1>1. CallRow(n, o, marked) /\ o \in Upstream(n)!Call BY DEF UpstreamInv, CallRow
<1>2. /\ o.index \in 0..1 /\ o.attempt \in 0..(Upstreams[n].retries + 1) /\ o.marks \in 0..2
  BY <1>1 DEF Upstream!Call
<1>3. Upstreams[n].retries \in Nat BY UpstreamBounds
<1>4. {"none", "auth", "ok", "retryable", "fatal", "oversize"} = Upstream(n)!Outcomes \cup {"none"}
  BY DEF Upstream!Outcomes
<1>5. c \in DOMAIN call BY DEF UpstreamInv
<1>6. ASSUME NEW at \in {"check", "send", "mark", "decide"},
             NEW out \in {"none", "auth", "ok", "retryable", "fatal", "oversize"},
             NEW index \in 0..1, NEW attempt \in 0..(Upstreams[n].retries + 1),
             NEW marks \in 0..2, at = "mark" => marks >= 1,
             call' = [call EXCEPT ![c] =
            Passed(o, at, out, index, attempt, marks)],
             UNCHANGED <<breaker, marked>>
      PROVE  UpstreamInv(n)'
  <2> HIDE DEF o
  <2>1. CallRow(n, Passed(o, at, out, index, attempt, marks), marked)
    BY <1>1, <1>4, <1>6, UpstreamTurn
  <2> QED BY <1>6, <2>1, UpstreamMove
<1>a. ASSUME NEW out \in {"ok", "retryable", "fatal", "oversize"}, NEW marks \in {1, 2},
             call' = [call EXCEPT ![c] = Passed(o, "mark", out, o.index, o.attempt, marks)],
             UNCHANGED <<breaker, marked>>
      PROVE  UpstreamInv(n)'
  <2>1. marks \in 0..2 /\ marks >= 1 BY <1>a
  <2> HIDE DEF o
  <2> QED BY <1>2, <1>6, <1>a, <2>1
<1>7. CASE Upstream(n)!SecretMissing(c)
  <2>1. call' = [call EXCEPT ![c] =
            Passed(o, "decide", "auth", o.index, o.attempt, o.marks)]
    BY <1>1, <1>5, <1>7 DEF Upstream!SecretMissing, Upstream!Call, Passed
  <2>8. UNCHANGED <<breaker, marked>> BY <1>7 DEF Upstream!SecretMissing
  <2> HIDE DEF o
  <2> QED BY <1>2, <1>6, <2>1, <2>8
<1>8. CASE Upstream(n)!OpenStream(c)
  <2>1. call' = [call EXCEPT ![c] =
            Passed(o, "mark", "ok", o.index, o.attempt, 2)]
    BY <1>1, <1>5, <1>8 DEF Upstream!OpenStream, Upstream!Call, Passed
  <2>8. UNCHANGED <<breaker, marked>> BY <1>8 DEF Upstream!OpenStream
  <2> HIDE DEF o
  <2> QED BY <1>a, <2>1, <2>8
<1>9. CASE Upstream(n)!Answer(c)
  <2>1. call' = [call EXCEPT ![c] =
            Passed(o, "mark", "ok", o.index, o.attempt, 1)]
    BY <1>1, <1>5, <1>9 DEF Upstream!Answer, Upstream!Call, Passed
  <2>8. UNCHANGED <<breaker, marked>> BY <1>9 DEF Upstream!Answer
  <2> HIDE DEF o
  <2> QED BY <1>a, <2>1, <2>8
<1>10. CASE Upstream(n)!Fails(c)
  <2>1. PICK e \in {"retryable", "fatal", "oversize"} :
          call' = [call EXCEPT ![c].at = "mark", ![c].outcome = e, ![c].marks = 1]
    BY <1>10 DEF Upstream!Fails
  <2>2. call' = [call EXCEPT ![c] =
            Passed(o, "mark", e, o.index, o.attempt, 1)]
    BY <1>1, <1>5, <2>1 DEF Upstream!Call, Passed
  <2>8. UNCHANGED <<breaker, marked>> BY <1>10 DEF Upstream!Fails
  <2> HIDE DEF o
  <2> QED BY <1>a, <2>2, <2>8
<1>11. CASE Upstream(n)!Retry(c)
  <2>1. o.attempt + 1 \in 0..(Upstreams[n].retries + 1)
    BY <1>2, <1>3, <1>11 DEF Upstream!Retry, Upstream!Retries
  <2>2. call' = [call EXCEPT ![c] =
            Passed(o, "check", "none", o.index, o.attempt + 1, o.marks)]
    BY <1>1, <1>5, <1>11 DEF Upstream!Retry, Upstream!Call, Passed
  <2>8. UNCHANGED <<breaker, marked>> BY <1>11 DEF Upstream!Retry
  <2> HIDE DEF o
  <2> QED BY <1>2, <1>6, <2>1, <2>2, <2>8
<1>12. CASE Upstream(n)!FailOver(c)
  <2>1. o.index + 1 \in 0..1
    BY <1>2, <1>12 DEF Upstream!FailOver, Upstream!Degrades, Upstream!FailedOver
  <2>2. call' = [call EXCEPT ![c] =
            Passed(o, "check", "none", o.index + 1, o.attempt, o.marks)]
    BY <1>1, <1>5, <1>12 DEF Upstream!FailOver, Upstream!Call, Passed
  <2>8. UNCHANGED <<breaker, marked>> BY <1>12 DEF Upstream!FailOver
  <2> HIDE DEF o
  <2> QED BY <1>2, <1>6, <2>1, <2>2, <2>8
<1> QED BY <1>7, <1>8, <1>9, <1>10, <1>11, <1>12

\* A mark: the hash is read, changed and, in a step of its own, written back.
LEMMA UpstreamReadsAndWrites ==
  ASSUME NEW n \in DOMAIN Upstreams, UpstreamInv(n), NEW c \in Upstreams[n].calls,
         Upstream(n)!HalfOpen(c) \/ Upstream(n)!ReadState(c) \/ Upstream(n)!WriteState(c)
  PROVE  UpstreamInv(n)'
<1> DEFINE o == call[c]
           T == Upstreams[n].threshold
<1>1. CallRow(n, o, marked) /\ o \in Upstream(n)!Call /\ Evident(n, o.snap, marked)
  BY DEF UpstreamInv, CallRow
<1>2. marked \in 0..T /\ T \in Nat /\ Evident(n, breaker, marked) /\ c \in DOMAIN call
  BY UpstreamBounds DEF UpstreamInv
<1>3. ASSUME NEW to \in {"send", "mark", "decide"}, Upstream(n)!Write(c, to),
             to = "mark" => o.marks >= 1
      PROVE  UpstreamInv(n)'
  <2> DEFINE r == [o EXCEPT !.at = to, !.snap = Upstream(n)!Closed]
  <2>1. Evident(n, Upstream(n)!Closed, marked) BY <1>2, UpstreamBounds
  <2>2. r \in Upstream(n)!Call /\ r.at = to /\ r.snap = Upstream(n)!Closed /\ r.marks = o.marks
    BY <1>1, <2>1 DEF Upstream!Call, Evident
  <2>3. call' = [call EXCEPT ![c] = r] BY <1>2, <1>3 DEF Upstream!Write
  <2>4. marked' = marked /\ breaker' = o.snap BY <1>3 DEF Upstream!Write
  <2> HIDE DEF r
  <2>5. CallRow(n, r, marked) BY <1>3, <2>1, <2>2 DEF CallRow
  <2>6. CallRow(n, r, marked') /\ Evident(n, breaker', marked') /\ marked' >= marked
        /\ marked' \in 0..T
    BY <1>1, <1>2, <2>4, <2>5
  <2> HIDE DEF o
  <2> QED BY <2>3, <2>6, UpstreamPut
<1>4. CASE Upstream(n)!HalfOpen(c) BY <1>3, <1>4 DEF Upstream!HalfOpen
<1>5. CASE Upstream(n)!WriteState(c)
  <2>1. o.marks \in 0..2 BY <1>1 DEF Upstream!Call
  <2>2. CASE o.marks > 0
    <3>1. o.marks >= 1 BY <2>1, <2>2
    <3> QED BY <1>3, <1>5, <2>2, <3>1 DEF Upstream!WriteState
  <2>3. CASE ~(o.marks > 0) BY <1>3, <1>5, <2>3 DEF Upstream!WriteState
  <2> QED BY <2>2, <2>3
<1>6. CASE Upstream(n)!ReadState(c)
  <2> DEFINE b == IF o.outcome = "ok" THEN Upstream(n)!Succeeded(breaker)
                  ELSE Upstream(n)!Failed(breaker)
             r == [o EXCEPT !.at = "write", !.marks = o.marks - 1, !.snap = b]
  <2>1. o.at = "mark" /\ o.marks \in 1..2
    BY <1>1, <1>6 DEF Upstream!ReadState, Upstream!At, Upstream!Call, CallRow
  <2>2. marked' \in 0..T /\ marked' >= marked /\ Evident(n, b, marked')
    <3>1. CASE o.outcome = "ok" BY <1>2, <1>6, <3>1, UpstreamMarks DEF Upstream!ReadState
    <3>2. CASE o.outcome # "ok"
      <4>1. marked' = Upstream(n)!Least(marked + 1, T) BY <1>6, <3>2 DEF Upstream!ReadState
      <4>2. Upstream(n)!Least(marked + 1, T) \in marked..T BY <1>2, UpstreamMarks
      <4>3. Evident(n, Upstream(n)!Failed(breaker), Upstream(n)!Least(marked + 1, T))
        BY <1>2, UpstreamMarks
      <4>4. Evident(n, b, marked') BY <3>2, <4>1, <4>3
      <4>5. marked' \in marked..T BY <4>1, <4>2
      <4> QED BY <1>2, <4>4, <4>5
    <3> QED BY <3>1, <3>2
  <2>3. call' = [call EXCEPT ![c] = r] BY <1>2, <1>6 DEF Upstream!ReadState
  <2>4. o.marks - 1 \in 0..2 BY <2>1
  <2>5. b \in Upstream(n)!Breaker BY <2>2 DEF Evident
  <2> HIDE DEF b
  <2>6. r \in Upstream(n)!Call /\ r.at = "write" /\ r.snap = b
    BY <1>1, <2>4, <2>5 DEF Upstream!Call
  <2>7. breaker' = breaker BY <1>6 DEF Upstream!ReadState
  <2> HIDE DEF r
  <2>8. CallRow(n, r, marked') BY <2>2, <2>6 DEF CallRow
  <2>9. Evident(n, breaker', marked')
    <3>1. marked' = marked \/ marked' = Upstream(n)!Least(marked + 1, T)
      BY <1>6 DEF Upstream!ReadState
    <3>2. breaker.failures \in 0..T BY <1>2 DEF Evident, Upstream!Breaker
    <3>3. breaker.failures <= marked' BY <1>2, <2>2, <3>2 DEF Evident
    <3>4. marked = T => marked' = T BY <1>2, <2>2
    <3> QED BY <1>2, <2>7, <3>3, <3>4 DEF Evident
  <2> HIDE DEF o
  <2> QED BY <2>2, <2>3, <2>8, <2>9, UpstreamPut
<1> QED BY <1>4, <1>5, <1>6

\* The hash grows old, also for those who have read it, or is gone.
LEMMA UpstreamTime ==
  ASSUME NEW n \in DOMAIN Upstreams, UpstreamInv(n),
         Upstream(n)!ResetPasses \/ Upstream(n)!StateExpires
  PROVE  UpstreamInv(n)'
<1>1. \A r \in Upstreams[n].calls : CallRow(n, call[r], marked) BY DEF UpstreamInv
<1>2. marked \in 0..Upstreams[n].threshold /\ Evident(n, breaker, marked) BY DEF UpstreamInv
<1>3. ASSUME NEW b, Evident(n, b, marked) PROVE Evident(n, [b EXCEPT !.fresh = FALSE], marked)
  <2> DEFINE f == [b EXCEPT !.fresh = FALSE]
  <2>1. f \in Upstream(n)!Breaker /\ f.failures = b.failures /\ f.state = b.state
    BY <1>3 DEF Evident, Upstream!Breaker
  <2> HIDE DEF f
  <2>2. Evident(n, f, marked) BY <1>3, <2>1 DEF Evident
  <2> QED BY <2>2 DEF f
<1>4. CASE Upstream(n)!ResetPasses
  <2>1. ASSUME NEW d \in Upstreams[n].calls PROVE CallRow(n, call'[d], marked)
    <3> DEFINE s == [call[d].snap EXCEPT !.fresh = FALSE]
    <3>1. call'[d] = [call[d] EXCEPT !.snap.fresh = FALSE] BY <1>4 DEF Upstream!ResetPasses
    <3>2. call[d] \in Upstream(n)!Call /\ Evident(n, call[d].snap, marked) BY <1>1 DEF CallRow
    <3>3. Evident(n, s, marked) BY <1>3, <3>2
    <3>4. call'[d] = [call[d] EXCEPT !.snap = s] BY <3>1, <3>2 DEF Upstream!Call
    <3>5. s \in Upstream(n)!Breaker BY <3>3 DEF Evident
    <3> HIDE DEF s
    <3>6. call'[d] \in Upstream(n)!Call /\ call'[d].at = call[d].at
          /\ call'[d].marks = call[d].marks /\ call'[d].snap = s
      BY <3>2, <3>4, <3>5 DEF Upstream!Call
    <3> QED BY <1>1, <3>3, <3>6 DEF CallRow
  <2>2. breaker' = [breaker EXCEPT !.fresh = FALSE] /\ marked' = marked
    BY <1>4 DEF Upstream!ResetPasses
  <2>3. Evident(n, breaker', marked') BY <1>2, <1>3, <2>2
  <2>4. DOMAIN call' = Upstreams[n].calls /\ call' = [d \in Upstreams[n].calls |-> call'[d]]
    BY <1>4 DEF Upstream!ResetPasses
  <2>5. \A d \in Upstreams[n].calls : CallRow(n, call'[d], marked') BY <2>1, <2>2
  <2> QED BY <1>2, <2>2, <2>3, <2>4, <2>5 DEF UpstreamInv
<1>5. CASE Upstream(n)!StateExpires
  <2>1. breaker' = Upstream(n)!Closed /\ marked' = marked /\ call' = call
    BY <1>5 DEF Upstream!StateExpires
  <2>2. Evident(n, breaker', marked') BY <1>2, <2>1, UpstreamBounds
  <2> QED BY <2>1, <2>2 DEF UpstreamInv
<1> QED BY <1>4, <1>5

\* Every step.
LEMMA UpstreamStep ==
  ASSUME NEW n \in DOMAIN Upstreams, UpstreamInv(n), Upstream(n)!Next
  PROVE  UpstreamInv(n)'
BY UpstreamRoutes, UpstreamCalls, UpstreamReadsAndWrites, UpstreamTime DEF Upstream!Next

\* What the invariant says.
LEMMA UpstreamPromise ==
  ASSUME NEW n \in DOMAIN Upstreams, UpstreamInv(n)
  PROVE  Upstream(n)!TypeOK /\ Upstream(n)!OpensOnEvidence
<1>1. \A r \in Upstreams[n].calls : call[r] \in Upstream(n)!Call BY DEF UpstreamInv, CallRow
<1>2. call \in [Upstreams[n].calls -> Upstream(n)!Call] BY <1>1 DEF UpstreamInv
<1> QED BY <1>2 DEF UpstreamInv, Evident, Upstream!TypeOK, Upstream!OpensOnEvidence

-----------------------------------------------------------------------------
(* Streams: what the generator's locals and the accumulator hold at each place. *)

RelayAts == {"idle", "report", "write", "pick", "connect", "open", "chunk", "closing",
             "billing", "booked", "unbooked", "scheduled", "submit", "poll", "over"}
RelayRecs(n) ==
  [at : RelayAts, attempt : 0..(Relays[n].attempts - 1), tried : SUBSET Relays[n].endpoints,
   proxy : Relays[n].endpoints \cup {"none"}, hops : 0..Relays[n].redirects,
   pos : 0..Relays[n].chunks, shown : Seq(Nat), counted : Nat, usage : BOOLEAN,
   complete : BOOLEAN, error : BOOLEAN, output : Nat, callbacks : Nat,
   pending : SUBSET {"usage", "budget"}, outcome : {"healthy", "degraded", "down", "none"},
   after : {"pick", "over", "none"}]

\* A connected stream has a proxy it has not tried; at most what was counted is shown; the
\* callback has run when the call is booked or not, on what was counted, and never before.
RelayRows(n) ==
  {r \in RelayRecs(n) :
     /\ r.at \in {"connect", "open", "chunk"} => r.proxy \notin r.tried
     /\ Len(r.shown) <= r.counted
     /\ r.at \in {"report", "write"} => r.after # "none" /\ r.outcome # "none"
     /\ Relays[n].kind = "stream" =>
          /\ r.at \notin {"submit", "poll"} /\ r.after # "over"
          /\ r.at \in {"booked", "unbooked", "scheduled", "over"} => r.callbacks = 1
          /\ r.at \notin {"booked", "unbooked", "scheduled", "over"} => r.callbacks = 0
          /\ r.at \in {"billing", "booked", "unbooked", "scheduled", "over"} =>
               r.output >= 1 /\ (~r.usage => r.output >= 3 * Len(r.shown))}

RelayInv(n) ==
  /\ relay \in [{"a"} -> RelayRows(n)]
  /\ pool \in [available : SUBSET Relays[n].endpoints, cooldown : SUBSET Relays[n].endpoints,
               on : BOOLEAN]
  /\ health \in [status : Relay(n)!Statuses \cup {"unknown"}, throttled : BOOLEAN]
  /\ reached \in BOOLEAN
  /\ posted \subseteq {"budget"}

LEMMA RelayBounds ==
  ASSUME NEW n \in DOMAIN Relays
  PROVE  /\ Relays[n].chunks \in Nat \ {0} /\ Relays[n].attempts \in Nat \ {0}
         /\ Relays[n].redirects \in Nat /\ "none" \notin Relays[n].endpoints
         /\ 0 \in 0..(Relays[n].attempts - 1) /\ 0 \in 0..Relays[n].redirects
         /\ 0 \in 0..Relays[n].chunks
BY AgentsAssumption

LEMMA RelayInit ==
  ASSUME NEW n \in DOMAIN Relays, Relay(n)!Init
  PROVE  RelayInv(n)
<1>1. Relay(n)!Fresh \in RelayRecs(n)
  <2>1. <<>> \in Seq(Nat) OBVIOUS
  <2> QED BY <2>1, RelayBounds DEF Relay!Fresh, RelayRecs, RelayAts
<1>2. Relay(n)!Fresh \in RelayRows(n) BY <1>1 DEF RelayRows, Relay!Fresh
<1>3. relay = [c \in {"a"} |-> Relay(n)!Fresh] BY DEF Relay!Init
<1>4. /\ health = [status |-> "unknown", throttled |-> FALSE] /\ reached = FALSE /\ posted = {}
      /\ pool \in [available : {Relays[n].endpoints}, cooldown : {{}}, on : BOOLEAN]
  BY DEF Relay!Init
<1> QED BY <1>2, <1>3, <1>4 DEF RelayInv

\* The answer of a call is reported.
LEMMA RelayReports ==
  ASSUME NEW n \in DOMAIN Relays, NEW o \in RelayRows(n), NEW next \in {"pick", "over"},
         o.at \in {"idle", "submit", "poll"}, NEW result \in {"2xx", "none"},
         Relays[n].kind = "stream" => next = "pick"
  PROVE  Relay(n)!Report(o, result, next) \in RelayRows(n)
<1> DEFINE s == Relay(n)!StatusOf(result)
           r == [o EXCEPT !.at = "report", !.outcome = s, !.after = next]
<1>1. s \in {"healthy", "degraded", "down"} BY DEF Relay!StatusOf
<1>2. o \in RelayRecs(n) BY DEF RelayRows
<1>3. Relay(n)!Report(o, result, next) = r BY DEF Relay!Report
<1> HIDE DEF s
<1>4. r \in RelayRecs(n) BY <1>1, <1>2 DEF RelayRecs, RelayAts
<1>5. /\ r.at = "report" /\ r.after = next /\ r.outcome = s /\ r.shown = o.shown /\ r.counted = o.counted
      /\ r.callbacks = o.callbacks
  BY <1>2 DEF RelayRecs
<1> HIDE DEF r
<1>6. r \in RelayRows(n) BY <1>1, <1>4, <1>5 DEF RelayRows
<1> QED BY <1>3, <1>6

\* A chunk is parsed: once more is counted.
LEMMA RelayParses ==
  ASSUME NEW n \in DOMAIN Relays, NEW o \in RelayRecs(n)
  PROVE  LET p == Relay(n)!Parsed(o)
         IN  /\ p \in RelayRecs(n) /\ p.counted = o.counted + 1 /\ p.shown = o.shown
             /\ p.at = o.at /\ p.proxy = o.proxy /\ p.tried = o.tried /\ p.after = o.after
             /\ p.callbacks = o.callbacks
<1> DEFINE u == o.usage \/ o.pos = Relays[n].chunks
           k == o.counted + 1
           p == [o EXCEPT !.counted = k, !.usage = u]
<1>1. Relay(n)!Parsed(o) = p BY DEF Relay!Parsed, RelayRecs
<1>2. u \in BOOLEAN BY DEF RelayRecs
<1>3. k \in Nat BY DEF RelayRecs
<1> HIDE DEF u, k
<1>4. p \in RelayRecs(n) BY <1>2, <1>3 DEF RelayRecs
<1>5. /\ p.counted = k /\ p.shown = o.shown
      /\ p.at = o.at /\ p.proxy = o.proxy /\ p.tried = o.tried /\ p.after = o.after
      /\ p.callbacks = o.callbacks
  BY DEF RelayRecs
<1> QED BY <1>1, <1>4, <1>5 DEF k

\* What the next step of a call does to its record.
LEMMA RelayPuts ==
  ASSUME NEW n \in DOMAIN Relays, RelayInv(n), NEW r \in RelayRows(n),
         relay' = [relay EXCEPT !["a"] = r], UNCHANGED <<health>>,
         reached' \in {reached, TRUE},
         posted' \subseteq posted \cup {"budget"},
         pool' \in [available : SUBSET Relays[n].endpoints,
                    cooldown : SUBSET Relays[n].endpoints, on : BOOLEAN]
  PROVE  RelayInv(n)'
<1>1. reached' \in BOOLEAN BY DEF RelayInv
<1>2. posted' \subseteq {"budget"} BY DEF RelayInv
<1>3. relay' \in [{"a"} -> RelayRows(n)] BY DEF RelayInv
<1> QED BY <1>1, <1>2, <1>3 DEF RelayInv, Relay!Statuses

\* A record after a step that only moves it on.
LEMMA RelayGoes ==
  ASSUME NEW n \in DOMAIN Relays, NEW o \in RelayRows(n), NEW at \in RelayAts,
         NEW error \in BOOLEAN, NEW complete \in BOOLEAN, NEW hops \in 0..Relays[n].redirects,
         at \in {"connect", "open", "chunk"} => o.proxy \notin o.tried,
         at \in {"report", "write"} => o.at \in {"report", "write"},
         Relays[n].kind = "stream" =>
           /\ at \notin {"submit", "poll"}
           /\ at \in {"booked", "unbooked", "scheduled", "over"} =>
                o.at \in {"booked", "unbooked", "scheduled", "over"}
           /\ at \notin {"booked", "unbooked", "scheduled", "over"} =>
                o.at \notin {"booked", "unbooked", "scheduled", "over"}
           /\ at # "billing"
  PROVE  [o EXCEPT !.at = at, !.error = error, !.complete = complete, !.hops = hops]
           \in RelayRows(n)
<1> DEFINE r == [o EXCEPT !.at = at, !.error = error, !.complete = complete, !.hops = hops]
<1>1. o \in RelayRecs(n) BY DEF RelayRows
<1>2. r \in RelayRecs(n) BY <1>1 DEF RelayRecs
<1>3. /\ r.at = at /\ r.after = o.after /\ r.shown = o.shown /\ r.counted = o.counted
      /\ r.callbacks = o.callbacks /\ r.proxy = o.proxy /\ r.tried = o.tried
      /\ r.output = o.output /\ r.usage = o.usage /\ r.outcome = o.outcome
  BY <1>1 DEF RelayRecs
<1> HIDE DEF r
<1>4. /\ r.at \in {"connect", "open", "chunk"} => r.proxy \notin r.tried
      /\ Len(r.shown) <= r.counted
      /\ r.at \in {"report", "write"} => r.after # "none" /\ r.outcome # "none"
  BY <1>3 DEF RelayRows
<1>5. ASSUME Relays[n].kind = "stream"
      PROVE  /\ r.at \notin {"submit", "poll"} /\ r.after # "over"
             /\ r.at \in {"booked", "unbooked", "scheduled", "over"} => r.callbacks = 1
             /\ r.at \notin {"booked", "unbooked", "scheduled", "over"} => r.callbacks = 0
             /\ r.at \in {"billing", "booked", "unbooked", "scheduled", "over"} =>
                  r.output >= 1 /\ (~r.usage => r.output >= 3 * Len(r.shown))
  BY <1>3, <1>5 DEF RelayRows
<1>6. r \in RelayRows(n) BY <1>2, <1>4, <1>5 DEF RelayRows
<1> QED BY <1>6 DEF r

\* The steps that only move a call on.
LEMMA RelayMovesOn ==
  ASSUME NEW n \in DOMAIN Relays, RelayInv(n),
         \/ Relay(n)!CheckThrottle("a") \/ Relay(n)!NotAllowed("a") \/ Relay(n)!Redirected("a")
         \/ Relay(n)!Raises("a") \/ Relay(n)!Answers("a") \/ Relay(n)!BodyEnds("a")
         \/ Relay(n)!Cancelled("a") \/ Relay(n)!ClientLeaves("a") \/ Relay(n)!Submit("a")
         \/ Relay(n)!SubmitRedirected("a")
  PROVE  RelayInv(n)'
<1>1. PICK o : o = relay["a"] OBVIOUS
<1>2. o \in RelayRows(n) /\ relay \in [{"a"} -> RelayRows(n)] BY <1>1 DEF RelayInv
<1>3. o \in RelayRecs(n) BY <1>2 DEF RelayRows
<1>4. /\ o.error \in BOOLEAN /\ o.complete \in BOOLEAN /\ o.hops \in 0..Relays[n].redirects
      /\ o.at \in RelayAts /\ o.after \in {"pick", "over", "none"}
  BY <1>3 DEF RelayRecs
<1>5. /\ o.at \in {"connect", "open", "chunk"} => o.proxy \notin o.tried
      /\ o.at \in {"report", "write"} => o.after # "none"
      /\ Relays[n].kind = "stream" => o.after # "over"
  BY <1>2 DEF RelayRows
<1>6. pool \in [available : SUBSET Relays[n].endpoints, cooldown : SUBSET Relays[n].endpoints,
                on : BOOLEAN]
  BY DEF RelayInv
<1>7. ASSUME NEW at \in RelayAts, NEW error \in BOOLEAN, NEW complete \in BOOLEAN,
             NEW hops \in 0..Relays[n].redirects,
             at \in {"connect", "open", "chunk"} => o.at \in {"connect", "open", "chunk"},
             at \in {"report", "write"} => o.at \in {"report", "write"},
             at \in {"submit", "poll"} => Relays[n].kind # "stream",
             Relays[n].kind = "stream" =>
               at # "billing" /\ at \notin {"booked", "unbooked", "scheduled", "over"},
             o.at \notin {"booked", "unbooked", "scheduled", "over"},
             relay' = [relay EXCEPT !["a"] =
               [o EXCEPT !.at = at, !.error = error, !.complete = complete, !.hops = hops]],
             UNCHANGED <<health, posted>>, reached' \in {reached, TRUE},
             pool' \in [available : SUBSET Relays[n].endpoints,
                        cooldown : SUBSET Relays[n].endpoints, on : BOOLEAN]
      PROVE  RelayInv(n)'
  <2> DEFINE r == [o EXCEPT !.at = at, !.error = error, !.complete = complete, !.hops = hops]
  <2>1. r \in RelayRows(n) BY <1>2, <1>5, <1>7, RelayGoes
  <2> HIDE DEF r
  <2>2. relay' = [relay EXCEPT !["a"] = r] BY <1>7 DEF r
  <2>3. posted' \subseteq posted \cup {"budget"} BY <1>7
  <2> QED BY <1>7, <2>1, <2>2, <2>3, RelayPuts
<1>8. CASE Relay(n)!CheckThrottle("a")
  <2> DEFINE at == IF health = [status |-> o.outcome, throttled |-> TRUE] THEN o.after ELSE "write"
  <2>1. o.at = "report" /\ relay' = [relay EXCEPT !["a"] =
               [o EXCEPT !.at = at, !.error = o.error, !.complete = o.complete, !.hops = o.hops]]
    BY <1>1, <1>2, <1>3, <1>8 DEF Relay!CheckThrottle, Relay!At, RelayRecs
  <2>2. /\ at \in RelayAts \ {"connect", "open", "chunk", "submit", "poll"}
        /\ Relays[n].kind = "stream" => at \notin {"billing", "booked", "unbooked", "scheduled", "over"}
    BY <1>4, <1>5, <2>1 DEF RelayAts
  <2>3. UNCHANGED <<health, posted, pool, reached>> BY <1>8 DEF Relay!CheckThrottle
  <2> HIDE DEF at
  <2> QED BY <1>4, <1>6, <1>7, <2>1, <2>2, <2>3
<1>9. CASE Relay(n)!NotAllowed("a") \/ Relay(n)!ClientLeaves("a")
  <2>1. o.at \in {"pick", "connect", "open"} /\ relay' = [relay EXCEPT !["a"] =
          [o EXCEPT !.at = "closing", !.error = o.error, !.complete = o.complete, !.hops = o.hops]]
    BY <1>1, <1>2, <1>3, <1>9 DEF Relay!NotAllowed, Relay!ClientLeaves, Relay!At, RelayRecs
  <2>2. UNCHANGED <<health, posted, pool, reached>>
    BY <1>9 DEF Relay!NotAllowed, Relay!ClientLeaves
  <2>3. "closing" \in RelayAts BY DEF RelayAts
  <2> QED BY <1>4, <1>6, <1>7, <2>1, <2>2, <2>3
<1>10. CASE Relay(n)!Redirected("a")
  <2>1. o.at = "connect" /\ o.hops < Relays[n].redirects /\ relay' = [relay EXCEPT !["a"] =
          [o EXCEPT !.at = "connect", !.error = o.error, !.complete = o.complete, !.hops = o.hops + 1]]
    <3> DEFINE h == o.hops + 1
    <3>1. o.at = "connect" /\ o.hops < Relays[n].redirects
      BY <1>1, <1>10 DEF Relay!Redirected, Relay!At
    <3>2. relay' = [relay EXCEPT !["a"] = [o EXCEPT !.hops = h]]
      BY <1>1, <1>2, <1>10 DEF Relay!Redirected
    <3> HIDE DEF h
    <3>3. [o EXCEPT !.hops = h] =
            [o EXCEPT !.at = "connect", !.error = o.error, !.complete = o.complete, !.hops = h]
      BY <1>3, <3>1 DEF RelayRecs
    <3> QED BY <3>1, <3>2, <3>3 DEF h
  <2>2. UNCHANGED <<health, posted, pool>> /\ reached' = TRUE BY <1>10 DEF Relay!Redirected
  <2>3. o.hops + 1 \in 0..Relays[n].redirects BY <1>4, <2>1, RelayBounds
  <2>4. "connect" \in RelayAts BY DEF RelayAts
  <2> QED BY <1>4, <1>6, <1>7, <2>1, <2>2, <2>3, <2>4
<1>11. CASE Relay(n)!Raises("a")
  <2>1. o.at = "connect" /\ relay' = [relay EXCEPT !["a"] =
          [o EXCEPT !.at = "closing", !.error = TRUE, !.complete = o.complete, !.hops = o.hops]]
    BY <1>1, <1>2, <1>3, <1>11 DEF Relay!Raises, Relay!At, RelayRecs
  <2>2. UNCHANGED <<health, posted>> /\ reached' \in {reached, TRUE} BY <1>11 DEF Relay!Raises
  <2>3. "closing" \in RelayAts BY DEF RelayAts
  <2>4. o.proxy \in Relays[n].endpoints \cup {"none"} BY <1>3 DEF RelayRecs
  <2>5. pool' = Relay(n)!Reported(o.proxy) BY <1>1, <1>11 DEF Relay!Raises
  <2>6. pool' \in [available : SUBSET Relays[n].endpoints, cooldown : SUBSET Relays[n].endpoints,
                   on : BOOLEAN]
    BY <1>6, <2>4, <2>5 DEF Relay!Reported
  <2> QED BY <1>4, <1>7, <2>1, <2>2, <2>3, <2>6
<1>12. CASE Relay(n)!Answers("a")
  <2>1. o.at = "connect" /\ relay' = [relay EXCEPT !["a"] =
          [o EXCEPT !.at = "open", !.error = o.error, !.complete = o.complete, !.hops = o.hops]]
    BY <1>1, <1>2, <1>3, <1>12 DEF Relay!Answers, Relay!At, RelayRecs
  <2>2. UNCHANGED <<health, posted, pool>> /\ reached' = TRUE BY <1>12 DEF Relay!Answers
  <2>3. "open" \in RelayAts BY DEF RelayAts
  <2> QED BY <1>4, <1>6, <1>7, <2>1, <2>2, <2>3
<1>13. CASE Relay(n)!BodyEnds("a")
  <2> DEFINE e == o.pos = Relays[n].chunks
  <2>1. o.at = "open" /\ relay' = [relay EXCEPT !["a"] =
          [o EXCEPT !.at = "closing", !.error = o.error, !.complete = e, !.hops = o.hops]]
    <3>1. o.at = "open" BY <1>1, <1>13 DEF Relay!BodyEnds, Relay!At
    <3>2. relay' = [relay EXCEPT !["a"] = [o EXCEPT !.at = "closing", !.complete = e]]
      BY <1>1, <1>2, <1>13 DEF Relay!BodyEnds
    <3> HIDE DEF e
    <3>3. [o EXCEPT !.at = "closing", !.complete = e] =
            [o EXCEPT !.at = "closing", !.error = o.error, !.complete = e, !.hops = o.hops]
      BY <1>3 DEF RelayRecs
    <3> QED BY <3>1, <3>2, <3>3
  <2>2. UNCHANGED <<health, posted, pool, reached>> BY <1>13 DEF Relay!BodyEnds
  <2>3. "closing" \in RelayAts /\ e \in BOOLEAN BY DEF RelayAts
  <2> HIDE DEF e
  <2> QED BY <1>4, <1>6, <1>7, <2>1, <2>2, <2>3
<1>14. CASE Relay(n)!Cancelled("a")
  <2>1. o.at = "chunk" /\ relay' = [relay EXCEPT !["a"] =
          [o EXCEPT !.at = "closing", !.error = TRUE, !.complete = o.complete, !.hops = o.hops]]
    BY <1>1, <1>2, <1>3, <1>14 DEF Relay!Cancelled, Relay!At, RelayRecs
  <2>2. UNCHANGED <<health, posted, pool, reached>> BY <1>14 DEF Relay!Cancelled
  <2>3. "closing" \in RelayAts BY DEF RelayAts
  <2> QED BY <1>4, <1>6, <1>7, <2>1, <2>2, <2>3
<1>15. CASE Relay(n)!Submit("a")
  <2>1. o.at = "idle" /\ Relays[n].kind = "async" /\ relay' = [relay EXCEPT !["a"] =
          [o EXCEPT !.at = "submit", !.error = o.error, !.complete = o.complete, !.hops = o.hops]]
    BY <1>1, <1>2, <1>3, <1>15 DEF Relay!Submit, Relay!At, RelayRecs
  <2>2. UNCHANGED <<health, posted, pool, reached>> BY <1>15 DEF Relay!Submit
  <2>3. "submit" \in RelayAts BY DEF RelayAts
  <2> QED BY <1>4, <1>6, <1>7, <2>1, <2>2, <2>3
<1>16. CASE Relay(n)!SubmitRedirected("a")
  <2>1. o.at = "submit" /\ o.hops < Relays[n].redirects /\ relay' = [relay EXCEPT !["a"] =
          [o EXCEPT !.at = "submit", !.error = o.error, !.complete = o.complete, !.hops = o.hops + 1]]
    <3> DEFINE h == o.hops + 1
    <3>1. o.at = "submit" /\ o.hops < Relays[n].redirects
      BY <1>1, <1>16 DEF Relay!SubmitRedirected, Relay!At
    <3>2. relay' = [relay EXCEPT !["a"] = [o EXCEPT !.hops = h]]
      BY <1>1, <1>2, <1>16 DEF Relay!SubmitRedirected
    <3> HIDE DEF h
    <3>3. [o EXCEPT !.hops = h] =
            [o EXCEPT !.at = "submit", !.error = o.error, !.complete = o.complete, !.hops = h]
      BY <1>3, <3>1 DEF RelayRecs
    <3> QED BY <3>1, <3>2, <3>3 DEF h
  <2>2. UNCHANGED <<health, posted, pool>> /\ reached' = TRUE BY <1>16 DEF Relay!SubmitRedirected
  <2>3. o.hops + 1 \in 0..Relays[n].redirects BY <1>4, <2>1, RelayBounds
  <2>4. "submit" \in RelayAts BY DEF RelayAts
  <2>5. Relays[n].kind # "stream" BY <1>2, <2>1 DEF RelayRows
  <2> QED BY <1>4, <1>6, <1>7, <2>1, <2>2, <2>3, <2>4, <2>5
<1> QED BY <1>8, <1>9, <1>10, <1>11, <1>12, <1>13, <1>14, <1>15, <1>16

\* The other steps of a call.
LEMMA RelayWorks ==
  ASSUME NEW n \in DOMAIN Relays, RelayInv(n),
         \/ Relay(n)!StartStream("a") \/ Relay(n)!Pick("a") \/ Relay(n)!Interrupted("a")
         \/ Relay(n)!Chunk("a") \/ Relay(n)!Relay("a") \/ Relay(n)!Close("a")
         \/ Relay(n)!Bill("a") \/ Relay(n)!Schedule("a") \/ Relay(n)!CloseSession("a")
         \/ Relay(n)!Submitted("a") \/ Relay(n)!PollAnswers("a")
  PROVE  RelayInv(n)'
<1>1. PICK o : o = relay["a"] OBVIOUS
<1>2. o \in RelayRows(n) /\ relay \in [{"a"} -> RelayRows(n)] BY <1>1 DEF RelayInv
<1>3. o \in RelayRecs(n) BY <1>2 DEF RelayRows
<1>4. /\ o.error \in BOOLEAN /\ o.complete \in BOOLEAN /\ o.hops \in 0..Relays[n].redirects
      /\ o.at \in RelayAts /\ o.after \in {"pick", "over", "none"}
      /\ o.tried \subseteq Relays[n].endpoints /\ o.proxy \in Relays[n].endpoints \cup {"none"}
      /\ o.attempt \in 0..(Relays[n].attempts - 1) /\ o.pos \in 0..Relays[n].chunks
      /\ o.shown \in Seq(Nat) /\ o.counted \in Nat /\ o.pending \subseteq {"usage", "budget"}
  BY <1>3 DEF RelayRecs
<1>5. /\ o.at \in {"connect", "open", "chunk"} => o.proxy \notin o.tried
      /\ Len(o.shown) <= o.counted
      /\ Relays[n].kind = "stream" => o.after # "over"
  BY <1>2 DEF RelayRows
<1>6. pool \in [available : SUBSET Relays[n].endpoints, cooldown : SUBSET Relays[n].endpoints,
                on : BOOLEAN]
  BY DEF RelayInv
<1>7. ASSUME NEW r \in RelayRows(n), relay' = [relay EXCEPT !["a"] = r],
             UNCHANGED <<health>>, reached' \in {reached, TRUE}, posted' \subseteq posted \cup {"budget"},
             pool' \in [available : SUBSET Relays[n].endpoints,
                        cooldown : SUBSET Relays[n].endpoints, on : BOOLEAN]
      PROVE  RelayInv(n)'
  BY <1>7, RelayPuts
<1>8. CASE Relay(n)!StartStream("a")
  <2>1. o.at = "idle" /\ relay' = [relay EXCEPT !["a"] = Relay(n)!Report(o, "2xx", "pick")]
    BY <1>1, <1>2, <1>8 DEF Relay!StartStream, Relay!At
  <2>2. Relay(n)!Report(o, "2xx", "pick") \in RelayRows(n) BY <1>2, <2>1, RelayReports
  <2>3. UNCHANGED <<health, posted, pool, reached>> BY <1>8 DEF Relay!StartStream
  <2> QED BY <1>6, <1>7, <2>1, <2>2, <2>3
<1>9. CASE Relay(n)!Pick("a")
  <2>1. PICK p \in Relay(n)!Picks(o.tried) :
          /\ relay' = [relay EXCEPT !["a"].at = "connect", !["a"].proxy = p.proxy,
                                    !["a"].hops = 0, !["a"].pos = 0]
          /\ pool' = [pool EXCEPT !.available = p.available]
    BY <1>1, <1>9 DEF Relay!Pick
  <2> DEFINE r == [o EXCEPT !.at = "connect", !.proxy = p.proxy, !.hops = 0, !.pos = 0]
  <2>2. /\ p.proxy \in Relays[n].endpoints \cup {"none"} /\ p.proxy \notin o.tried
        /\ p.available \subseteq Relays[n].endpoints
    <3>1. pool.available \subseteq Relays[n].endpoints BY <1>6
    <3>2. "none" \notin o.tried BY <1>4, RelayBounds
    <3>3. CASE ~pool.on
      <4>1. p = [proxy |-> "none", available |-> pool.available] BY <3>3, <2>1 DEF Relay!Picks
      <4> QED BY <3>1, <3>2, <4>1
    <3>4. CASE pool.on
      <4> DEFINE cold == pool.available \cap pool.cooldown
                 good == pool.available \ (o.tried \cup pool.cooldown)
                 A == [proxy : good, available : {pool.available \ d : d \in SUBSET cold}]
                 B == [proxy : IF good = {} \/ pool.available \cap o.tried # {} THEN {"none"} ELSE {},
                       available : {pool.available \ cold}]
      <4>1. p \in A \/ p \in B BY <3>4, <2>1 DEF Relay!Picks
      <4>2. ASSUME p \in A PROVE p.proxy \in good /\ p.available \subseteq pool.available
        BY <4>2
      <4>3. ASSUME p \in B PROVE p.proxy = "none" /\ p.available \subseteq pool.available
        BY <4>3
      <4> QED BY <3>1, <3>2, <4>1, <4>2, <4>3
    <3> QED BY <3>3, <3>4
  <2>3. o.at = "pick" BY <1>1, <1>9 DEF Relay!Pick, Relay!At
  <2>4. relay' = [relay EXCEPT !["a"] = r] BY <1>1, <1>2, <1>3, <2>1 DEF RelayRecs
  <2>5. r \in RelayRecs(n) BY <1>3, <2>2, RelayBounds DEF RelayRecs, RelayAts
  <2>6. /\ r.at = "connect" /\ r.proxy = p.proxy /\ r.tried = o.tried /\ r.shown = o.shown
        /\ r.counted = o.counted /\ r.after = o.after /\ r.callbacks = o.callbacks
    BY <1>3 DEF RelayRecs
  <2>7. pool' \in [available : SUBSET Relays[n].endpoints, cooldown : SUBSET Relays[n].endpoints,
                   on : BOOLEAN]
    BY <1>6, <2>1, <2>2
  <2>8. UNCHANGED <<health, posted, reached>> BY <1>9 DEF Relay!Pick
  <2> HIDE DEF r
  <2>9. r \in RelayRows(n) BY <1>2, <2>2, <2>3, <2>5, <2>6 DEF RelayRows
  <2> QED BY <1>7, <2>4, <2>7, <2>8, <2>9
<1>10. CASE Relay(n)!Interrupted("a")
  <2> DEFINE tried == o.tried \cup ({o.proxy} \ {"none"})
  <2>1. o.at \in {"connect", "open"} BY <1>1, <1>10 DEF Relay!Interrupted
  <2>2. tried \subseteq Relays[n].endpoints BY <1>4
  <2>3. pool' = Relay(n)!Reported(o.proxy) BY <1>1, <1>10 DEF Relay!Interrupted
  <2>4. pool' \in [available : SUBSET Relays[n].endpoints, cooldown : SUBSET Relays[n].endpoints,
                   on : BOOLEAN]
    BY <1>4, <1>6, <2>3 DEF Relay!Reported
  <2>5. UNCHANGED <<health, posted, reached>> BY <1>10 DEF Relay!Interrupted
  <2>6. CASE o.attempt + 1 < Relays[n].attempts
    <3> DEFINE k == o.attempt + 1
               r == [o EXCEPT !.at = "pick", !.attempt = k, !.tried = tried]
    <3>1. k \in 0..(Relays[n].attempts - 1) BY <1>4, <2>6, RelayBounds
    <3>2. relay' = [relay EXCEPT !["a"] = r] BY <1>1, <1>10, <2>6 DEF Relay!Interrupted
    <3> HIDE DEF k, tried
    <3>3. r \in RelayRecs(n) BY <1>3, <2>2, <3>1 DEF RelayRecs, RelayAts
    <3>4. /\ r.at = "pick" /\ r.shown = o.shown
          /\ r.counted = o.counted /\ r.after = o.after /\ r.callbacks = o.callbacks
      BY <1>3 DEF RelayRecs
    <3> HIDE DEF r
    <3>5. r \in RelayRows(n) BY <1>2, <2>1, <3>3, <3>4 DEF RelayRows
    <3> QED BY <1>7, <2>4, <2>5, <3>2, <3>5
  <2>7. CASE ~(o.attempt + 1 < Relays[n].attempts)
    <3> DEFINE r == [o EXCEPT !.at = "closing", !.error = TRUE, !.tried = tried]
    <3>1. relay' = [relay EXCEPT !["a"] = r] BY <1>1, <1>10, <2>7 DEF Relay!Interrupted
    <3> HIDE DEF tried
    <3>2. r \in RelayRecs(n) BY <1>3, <2>2 DEF RelayRecs, RelayAts
    <3>3. /\ r.at = "closing" /\ r.shown = o.shown
          /\ r.counted = o.counted /\ r.after = o.after /\ r.callbacks = o.callbacks
      BY <1>3 DEF RelayRecs
    <3> HIDE DEF r
    <3>4. r \in RelayRows(n) BY <1>2, <2>1, <3>2, <3>3 DEF RelayRows
    <3> QED BY <1>7, <2>4, <2>5, <3>1, <3>4
  <2> QED BY <2>6, <2>7
<1>11. CASE Relay(n)!Chunk("a")
  <2> DEFINE k == o.pos + 1
             b == [o EXCEPT !.pos = k, !.at = "chunk"]
             p == Relay(n)!Parsed(b)
  <2>1. o.at = "open" /\ o.pos < Relays[n].chunks BY <1>1, <1>11 DEF Relay!Chunk, Relay!At
  <2>2. k \in 0..Relays[n].chunks BY <1>4, <2>1, RelayBounds
  <2>3. relay' = [relay EXCEPT !["a"] = p] BY <1>1, <1>2, <1>11 DEF Relay!Chunk
  <2> HIDE DEF k
  <2>4. b \in RelayRecs(n) BY <1>3, <2>2 DEF RelayRecs, RelayAts
  <2>5. /\ b.at = "chunk" /\ b.proxy = o.proxy /\ b.tried = o.tried /\ b.shown = o.shown
        /\ b.counted = o.counted /\ b.after = o.after /\ b.callbacks = o.callbacks
    BY <1>3 DEF RelayRecs
  <2> HIDE DEF b
  <2>6. /\ p \in RelayRecs(n) /\ p.counted = b.counted + 1 /\ p.shown = b.shown
        /\ p.at = b.at /\ p.proxy = b.proxy /\ p.tried = b.tried /\ p.after = b.after
        /\ p.callbacks = b.callbacks
    BY <2>4, RelayParses
  <2> HIDE DEF p
  <2>7. Len(p.shown) <= p.counted BY <1>4, <1>5, <2>5, <2>6
  <2>8. p \in RelayRows(n) BY <1>2, <2>1, <2>5, <2>6, <2>7 DEF RelayRows
  <2>9. UNCHANGED <<health, posted, pool, reached>> BY <1>11 DEF Relay!Chunk
  <2> QED BY <1>6, <1>7, <2>3, <2>8, <2>9
<1>12. CASE Relay(n)!Relay("a")
  <2> DEFINE p == Relay(n)!Parsed(o)
             s == Append(p.shown, p.pos)
             r == [p EXCEPT !.shown = s, !.at = "open"]
  <2>1. o.at = "chunk" BY <1>1, <1>12 DEF Relay!Relay, Relay!At
  <2>2. relay' = [relay EXCEPT !["a"] = [p EXCEPT !.shown = Append(p.shown, p.pos), !.at = "open"]]
    BY <1>1, <1>2, <1>12 DEF Relay!Relay
  <2>3. /\ p \in RelayRecs(n) /\ p.counted = o.counted + 1 /\ p.shown = o.shown
        /\ p.at = o.at /\ p.proxy = o.proxy /\ p.tried = o.tried /\ p.after = o.after
        /\ p.callbacks = o.callbacks
    BY <1>3, RelayParses
  <2>4. p.pos \in Nat BY <2>3, RelayBounds DEF RelayRecs
  <2>5. s \in Seq(Nat) /\ Len(s) = Len(o.shown) + 1 BY <1>4, <2>3, <2>4, AppendProperties
  <2> HIDE DEF p, s
  <2>6. r \in RelayRecs(n) BY <2>3, <2>5 DEF RelayRecs, RelayAts
  <2>7. /\ r.at = "open" /\ r.proxy = p.proxy /\ r.tried = p.tried /\ r.shown = s
        /\ r.counted = p.counted /\ r.after = p.after /\ r.callbacks = p.callbacks
    BY <2>3 DEF RelayRecs
  <2> HIDE DEF r
  <2>8. Len(r.shown) <= r.counted BY <1>4, <1>5, <2>3, <2>5, <2>7
  <2>9. r \in RelayRows(n) BY <1>2, <2>1, <2>3, <2>6, <2>7, <2>8 DEF RelayRows
  <2>10. UNCHANGED <<health, posted, pool, reached>> BY <1>12 DEF Relay!Relay
  <2>11. relay' = [relay EXCEPT !["a"] = r] BY <2>2 DEF r, s
  <2> QED BY <1>6, <1>7, <2>9, <2>10, <2>11
<1>13. CASE Relay(n)!Close("a")
  <2> DEFINE t == IF o.usage THEN Relays[n].chunks ELSE Relay(n)!Estimate(o)
             r == [o EXCEPT !.at = "billing", !.output = t]
  <2>1. o.at = "closing" BY <1>1, <1>13 DEF Relay!Close, Relay!At
  <2>2. relay' = [relay EXCEPT !["a"] = r] BY <1>1, <1>2, <1>13 DEF Relay!Close
  <2>3. t \in Nat /\ t >= 1 /\ (~o.usage => t >= 3 * Len(o.shown))
    BY <1>4, <1>5, RelayBounds DEF Relay!Estimate
  <2> HIDE DEF t
  <2>4. r \in RelayRecs(n) BY <1>3, <2>3 DEF RelayRecs, RelayAts
  <2>5. /\ r.at = "billing" /\ r.output = t /\ r.usage = o.usage /\ r.shown = o.shown
        /\ r.counted = o.counted /\ r.after = o.after /\ r.callbacks = o.callbacks
    BY <1>3 DEF RelayRecs
  <2> HIDE DEF r
  <2>6. r \in RelayRows(n) BY <1>2, <2>1, <2>3, <2>4, <2>5 DEF RelayRows
  <2>7. UNCHANGED <<health, posted, pool, reached>> BY <1>13 DEF Relay!Close
  <2> QED BY <1>6, <1>7, <2>2, <2>6, <2>7
<1>14. CASE Relay(n)!Bill("a")
  <2>1. o.at = "billing" BY <1>1, <1>14 DEF Relay!Bill, Relay!At
  <2>2. PICK booked \in BOOLEAN :
          /\ relay' = [relay EXCEPT !["a"].at = IF booked THEN "booked" ELSE "unbooked",
                                    !["a"].callbacks = @ + 1, !["a"].pending = {}]
          /\ posted' = IF booked THEN posted \cup Relay(n)!AfterCommit(relay["a"].pending) ELSE posted
    BY <1>14 DEF Relay!Bill
  <2> DEFINE at == IF booked THEN "booked" ELSE "unbooked"
             k == o.callbacks + 1
             r == [o EXCEPT !.at = at, !.callbacks = k, !.pending = {}]
  <2>3. relay' = [relay EXCEPT !["a"] = r] BY <1>1, <1>2, <1>3, <2>2 DEF RelayRecs
  <2>4. at \in {"booked", "unbooked"} OBVIOUS
  <2>5. k \in Nat /\ (o.callbacks = 0 => k = 1) BY <1>3 DEF RelayRecs
  <2> HIDE DEF at, k
  <2>6. r \in RelayRecs(n) BY <1>3, <2>4, <2>5 DEF RelayRecs, RelayAts
  <2>7. /\ r.at = at /\ r.output = o.output /\ r.usage = o.usage /\ r.shown = o.shown
        /\ r.counted = o.counted /\ r.after = o.after /\ r.callbacks = k
    BY <1>3 DEF RelayRecs
  <2> HIDE DEF r
  <2>8. r \in RelayRows(n) BY <1>2, <2>1, <2>4, <2>5, <2>6, <2>7 DEF RelayRows
  <2>9. UNCHANGED <<health, pool, reached>> BY <1>14 DEF Relay!Bill
  <2>10. posted' \subseteq posted \cup {"budget"} BY <1>1, <1>4, <2>2 DEF Relay!AfterCommit
  <2> QED BY <1>6, <1>7, <2>3, <2>8, <2>9, <2>10
<1>15. CASE Relay(n)!Schedule("a")
  <2>1. o.at \in {"booked", "unbooked"} BY <1>1, <1>15 DEF Relay!Schedule, Relay!At
  <2>2. PICK p : /\ p \subseteq {"usage", "budget"}
                 /\ relay' = [relay EXCEPT !["a"].at = "scheduled", !["a"].pending = p]
    BY <1>15 DEF Relay!Schedule, Relay!Deferred
  <2> DEFINE r == [o EXCEPT !.at = "scheduled", !.pending = p]
  <2>3. relay' = [relay EXCEPT !["a"] = r] BY <1>1, <1>2, <1>3, <2>2 DEF RelayRecs
  <2>4. r \in RelayRecs(n) BY <1>3, <2>2 DEF RelayRecs, RelayAts
  <2>5. /\ r.at = "scheduled" /\ r.output = o.output /\ r.usage = o.usage /\ r.shown = o.shown
        /\ r.counted = o.counted /\ r.after = o.after /\ r.callbacks = o.callbacks
    BY <1>3 DEF RelayRecs
  <2> HIDE DEF r
  <2>6. r \in RelayRows(n) BY <1>2, <2>1, <2>4, <2>5 DEF RelayRows
  <2>7. UNCHANGED <<health, posted, pool, reached>> BY <1>15 DEF Relay!Schedule
  <2> QED BY <1>6, <1>7, <2>3, <2>6, <2>7
<1>16. CASE Relay(n)!CloseSession("a")
  <2> DEFINE r == [o EXCEPT !.at = "over", !.pending = {}]
  <2>1. o.at = "scheduled" BY <1>1, <1>16 DEF Relay!CloseSession, Relay!At
  <2>2. relay' = [relay EXCEPT !["a"] = r] BY <1>1, <1>2, <1>3, <1>16 DEF Relay!CloseSession, RelayRecs
  <2>3. r \in RelayRecs(n) BY <1>3 DEF RelayRecs, RelayAts
  <2>4. /\ r.at = "over" /\ r.output = o.output /\ r.usage = o.usage /\ r.shown = o.shown
        /\ r.counted = o.counted /\ r.after = o.after /\ r.callbacks = o.callbacks
    BY <1>3 DEF RelayRecs
  <2> HIDE DEF r
  <2>5. r \in RelayRows(n) BY <1>2, <2>1, <2>3, <2>4 DEF RelayRows
  <2>6. UNCHANGED <<health, posted, pool, reached>> BY <1>16 DEF Relay!CloseSession
  <2> QED BY <1>6, <1>7, <2>2, <2>5, <2>6
\* A call that is asked for and answered at once, or polled.
<1>17. ASSUME NEW e \in BOOLEAN, NEW c \in BOOLEAN, NEW at \in {"submit", "poll"},
              o.at = at, NEW result \in {"2xx", "none"}
       PROVE  Relay(n)!Report([o EXCEPT !.error = e, !.complete = c], result, "over") \in RelayRows(n)
  <2> DEFINE b == [o EXCEPT !.at = at, !.error = e, !.complete = c, !.hops = o.hops]
  <2>1. Relays[n].kind # "stream" BY <1>2, <1>17 DEF RelayRows
  <2>2. [o EXCEPT !.error = e, !.complete = c] = b BY <1>3, <1>17 DEF RelayRecs
  <2>3. at \in RelayAts BY DEF RelayAts
  <2>4. b \in RelayRows(n) BY <1>2, <1>4, <2>1, <2>3, RelayGoes
  <2>5. b.at = at BY <1>3 DEF RelayRecs
  <2> HIDE DEF b
  <2> QED BY <2>1, <2>2, <2>4, <2>5, RelayReports
<1>18. CASE Relay(n)!Submitted("a")
  <2>1. o.at = "submit" /\ UNCHANGED <<health, posted, pool>> /\ reached' \in {reached, TRUE}
    BY <1>1, <1>18 DEF Relay!Submitted, Relay!At
  <2>2. CASE relay' = [relay EXCEPT !["a"].at = "poll"]
    <3> DEFINE r == [o EXCEPT !.at = "poll", !.error = o.error, !.complete = o.complete,
                              !.hops = o.hops]
    <3>1. relay' = [relay EXCEPT !["a"] = r] BY <1>1, <1>2, <1>3, <2>2 DEF RelayRecs
    <3>2. Relays[n].kind # "stream" BY <1>2, <2>1 DEF RelayRows
    <3>3. "poll" \in RelayAts BY DEF RelayAts
    <3>4. r \in RelayRows(n) BY <1>2, <1>4, <3>2, <3>3, RelayGoes
    <3> HIDE DEF r
    <3> QED BY <1>6, <1>7, <2>1, <3>1, <3>4
  <2>3. CASE relay' = [relay EXCEPT !["a"] = Relay(n)!Report([@ EXCEPT !.error = TRUE], "none", "over")]
    <3> DEFINE r == Relay(n)!Report([o EXCEPT !.error = TRUE, !.complete = o.complete], "none", "over")
    <3>1. [o EXCEPT !.error = TRUE] = [o EXCEPT !.error = TRUE, !.complete = o.complete]
      BY <1>3 DEF RelayRecs
    <3>2. relay' = [relay EXCEPT !["a"] = r] BY <1>1, <1>2, <2>3, <3>1
    <3>3. r \in RelayRows(n) BY <1>4, <1>17, <2>1
    <3> HIDE DEF r
    <3> QED BY <1>6, <1>7, <2>1, <3>2, <3>3
  <2> QED BY <1>18, <2>2, <2>3 DEF Relay!Submitted
<1>19. CASE Relay(n)!PollAnswers("a")
  <2>1. o.at = "poll" /\ UNCHANGED <<health, posted, pool, reached>>
    BY <1>1, <1>19 DEF Relay!PollAnswers, Relay!At
  <2>2. CASE relay' = [relay EXCEPT !["a"] = Relay(n)!Report([@ EXCEPT !.complete = TRUE], "2xx", "over")]
    <3> DEFINE r == Relay(n)!Report([o EXCEPT !.error = o.error, !.complete = TRUE], "2xx", "over")
    <3>1. [o EXCEPT !.complete = TRUE] = [o EXCEPT !.error = o.error, !.complete = TRUE]
      BY <1>3 DEF RelayRecs
    <3>2. relay' = [relay EXCEPT !["a"] = r] BY <1>1, <1>2, <2>2, <3>1
    <3>3. r \in RelayRows(n) BY <1>4, <1>17, <2>1
    <3> HIDE DEF r
    <3> QED BY <1>6, <1>7, <2>1, <3>2, <3>3
  <2>3. CASE relay' = [relay EXCEPT !["a"] = Relay(n)!Report([@ EXCEPT !.error = TRUE], "none", "over")]
    <3> DEFINE r == Relay(n)!Report([o EXCEPT !.error = TRUE, !.complete = o.complete], "none", "over")
    <3>1. [o EXCEPT !.error = TRUE] = [o EXCEPT !.error = TRUE, !.complete = o.complete]
      BY <1>3 DEF RelayRecs
    <3>2. relay' = [relay EXCEPT !["a"] = r] BY <1>1, <1>2, <2>3, <3>1
    <3>3. r \in RelayRows(n) BY <1>4, <1>17, <2>1
    <3> HIDE DEF r
    <3> QED BY <1>6, <1>7, <2>1, <3>2, <3>3
  <2> QED BY <1>19, <2>2, <2>3 DEF Relay!PollAnswers
<1> QED BY <1>8, <1>9, <1>10, <1>11, <1>12, <1>13, <1>14, <1>15, <1>16, <1>18, <1>19

\* The health of the instance and the pool of proxies.
LEMMA RelayAround ==
  ASSUME NEW n \in DOMAIN Relays, RelayInv(n),
         \/ Relay(n)!WriteHeartbeat("a") \/ Relay(n)!ThrottlePasses \/ Relay(n)!Probe
         \/ Relay(n)!RefreshFlags
         \/ \E e \in Relays[n].endpoints : Relay(n)!CooldownExpires(e) \/ Relay(n)!Replenish(e)
  PROVE  RelayInv(n)'
<1>1. PICK o : o = relay["a"] OBVIOUS
<1>2. o \in RelayRows(n) /\ relay \in [{"a"} -> RelayRows(n)] BY <1>1 DEF RelayInv
<1>3. o \in RelayRecs(n) BY <1>2 DEF RelayRows
<1>4. /\ pool \in [available : SUBSET Relays[n].endpoints, cooldown : SUBSET Relays[n].endpoints,
                on : BOOLEAN]
      /\ health \in [status : Relay(n)!Statuses \cup {"unknown"}, throttled : BOOLEAN]
      /\ reached \in BOOLEAN /\ posted \subseteq {"budget"}
  BY DEF RelayInv
<1>5. CASE Relay(n)!WriteHeartbeat("a")
  <2> DEFINE r == [o EXCEPT !.at = o.after, !.error = o.error, !.complete = o.complete,
                            !.hops = o.hops]
  <2>1. o.at = "write" BY <1>1, <1>5 DEF Relay!WriteHeartbeat, Relay!At
  <2>2. relay' = [relay EXCEPT !["a"] = r] BY <1>1, <1>2, <1>3, <1>5 DEF Relay!WriteHeartbeat, RelayRecs
  <2>3. /\ o.after \in RelayAts \ {"connect", "open", "chunk", "report", "write", "billing", "submit", "poll"}
        /\ o.error \in BOOLEAN /\ o.complete \in BOOLEAN /\ o.hops \in 0..Relays[n].redirects
        /\ Relays[n].kind = "stream" => o.after \notin {"booked", "unbooked", "scheduled", "over"}
    BY <1>2, <1>3, <2>1 DEF RelayRows, RelayRecs, RelayAts
  <2>4. r \in RelayRows(n) BY <1>2, <2>1, <2>3, RelayGoes
  <2>5. o.outcome \in Relay(n)!Statuses
    BY <1>2, <1>3, <2>1 DEF RelayRecs, RelayRows, Relay!Statuses
  <2>6. health' = [status |-> o.outcome, throttled |-> TRUE] /\ UNCHANGED <<pool, reached, posted>>
    BY <1>1, <1>5 DEF Relay!WriteHeartbeat
  <2>7. health' \in [status : Relay(n)!Statuses \cup {"unknown"}, throttled : BOOLEAN]
    BY <2>5, <2>6
  <2> HIDE DEF r
  <2> QED BY <1>2, <2>2, <2>4, <2>6, <2>7 DEF RelayInv, Relay!Statuses
<1>6. CASE Relay(n)!ThrottlePasses
  <2>1. health' \in [status : Relay(n)!Statuses \cup {"unknown"}, throttled : BOOLEAN]
    BY <1>4, <1>6 DEF Relay!ThrottlePasses
  <2> QED BY <1>6, <2>1 DEF RelayInv, Relay!ThrottlePasses, Relay!Statuses
<1>7. CASE Relay(n)!Probe
  <2>1. PICK s \in Relay(n)!Statuses :
          health' = [status |-> s, throttled |-> TRUE] /\ reached' \in {reached, TRUE}
    BY <1>7 DEF Relay!Probe
  <2>2. UNCHANGED <<relay, pool, posted>> BY <1>7 DEF Relay!Probe
  <2>3. health' \in [status : Relay(n)!Statuses \cup {"unknown"}, throttled : BOOLEAN] BY <2>1
  <2> QED BY <1>4, <2>1, <2>2, <2>3 DEF RelayInv, Relay!Statuses
<1>8. ASSUME NEW A \in SUBSET Relays[n].endpoints, NEW B \in SUBSET Relays[n].endpoints,
             NEW b \in BOOLEAN,
             pool' = [pool EXCEPT !.available = A, !.cooldown = B, !.on = b],
             UNCHANGED <<relay, health, reached, posted>>
      PROVE  RelayInv(n)'
  BY <1>4, <1>8 DEF RelayInv, Relay!Statuses
<1>9. CASE Relay(n)!RefreshFlags
  <2> DEFINE b == ~pool.on
  <2>1. pool' = [pool EXCEPT !.available = pool.available, !.cooldown = pool.cooldown, !.on = b]
    BY <1>4, <1>9 DEF Relay!RefreshFlags
  <2>2. b \in BOOLEAN OBVIOUS
  <2>3. UNCHANGED <<relay, health, reached, posted>> BY <1>9 DEF Relay!RefreshFlags
  <2>4. pool.available \in SUBSET Relays[n].endpoints /\ pool.cooldown \in SUBSET Relays[n].endpoints
        /\ pool.on \in BOOLEAN
    BY <1>4
  <2> HIDE DEF b
  <2> QED BY <1>8, <2>1, <2>2, <2>3, <2>4
<1>10. ASSUME NEW e \in Relays[n].endpoints, Relay(n)!CooldownExpires(e) PROVE RelayInv(n)'
  <2> DEFINE B == pool.cooldown \ {e}
  <2>1. pool' = [pool EXCEPT !.available = pool.available, !.cooldown = B, !.on = pool.on]
    BY <1>4, <1>10 DEF Relay!CooldownExpires
  <2>2. B \in SUBSET Relays[n].endpoints BY <1>4
  <2>3. UNCHANGED <<relay, health, reached, posted>> BY <1>10 DEF Relay!CooldownExpires
  <2>4. pool.available \in SUBSET Relays[n].endpoints /\ pool.cooldown \in SUBSET Relays[n].endpoints
        /\ pool.on \in BOOLEAN
    BY <1>4
  <2> HIDE DEF B
  <2> QED BY <1>8, <2>1, <2>2, <2>3, <2>4
<1>11. ASSUME NEW e \in Relays[n].endpoints, Relay(n)!Replenish(e) PROVE RelayInv(n)'
  <2> DEFINE A == pool.available \cup {e}
  <2>1. pool' = [pool EXCEPT !.available = A, !.cooldown = pool.cooldown, !.on = pool.on]
    BY <1>4, <1>11 DEF Relay!Replenish
  <2>2. A \in SUBSET Relays[n].endpoints BY <1>4
  <2>3. UNCHANGED <<relay, health, reached, posted>> BY <1>11 DEF Relay!Replenish
  <2>4. pool.available \in SUBSET Relays[n].endpoints /\ pool.cooldown \in SUBSET Relays[n].endpoints
        /\ pool.on \in BOOLEAN
    BY <1>4
  <2> HIDE DEF A
  <2> QED BY <1>8, <2>1, <2>2, <2>3, <2>4
<1> QED BY <1>5, <1>6, <1>7, <1>9, <1>10, <1>11

\* Every step.
LEMMA RelayStep ==
  ASSUME NEW n \in DOMAIN Relays, RelayInv(n), Relay(n)!Next
  PROVE  RelayInv(n)'
BY RelayMovesOn, RelayWorks, RelayAround DEF Relay!Next, Relay!CallStep, Relay!Begin

\* What the invariant says.
LEMMA RelayPromise ==
  ASSUME NEW n \in DOMAIN Relays, RelayInv(n)
  PROVE  Relay(n)!TypeOK /\ Relay(n)!SettledOnce /\ Relay(n)!OtherProxyEachTime
<1>1. relay["a"] \in RelayRows(n) /\ relay["a"] \in RelayRecs(n) BY DEF RelayInv, RelayRows
<1>2. /\ relay["a"].at \in RelayAts
      /\ relay["a"].attempt < Relays[n].attempts /\ relay["a"].hops <= Relays[n].redirects
      /\ relay["a"].tried \subseteq Relays[n].endpoints
      /\ relay["a"].proxy \in Relays[n].endpoints \cup {"none"}
  BY <1>1, RelayBounds DEF RelayRecs
<1>3. Relay(n)!TypeOK BY <1>2 DEF RelayInv, Relay!TypeOK, RelayAts
<1>4. Relay(n)!SettledOnce BY <1>1 DEF Relay!SettledOnce, Relay!At, RelayRows
<1>5. Relay(n)!OtherProxyEachTime BY <1>1 DEF Relay!OtherProxyEachTime, RelayRows
<1> QED BY <1>3, <1>4, <1>5

-----------------------------------------------------------------------------
(* The catalogue: what is cached, and what a request has loaded, is what the tables say,
   or is explained. *)

Loading == {"get", "lock", "check", "wait", "load"}

\* A request's record: while it looks a view up, the view is one of its route.
Routing(n, r) ==
  /\ r.pc \in Loading \cup {"idle", "store", "done"}
  /\ r.pc \in Loading \cup {"store"} => r.at \in 1..Len(Catalogs[n].route)
  /\ r.pc \in Loading => r = [pc |-> r.pc, at |-> r.at, ok |-> r.ok, holds |-> r.holds]
  /\ r.pc = "store" =>
       r = [pc |-> r.pc, at |-> r.at, ok |-> r.ok, holds |-> r.holds, value |-> r.value]

\* The rows of the catalogue.
CatalogRows(n) ==
  /\ instance \in {"none", "off", "on"}
  /\ modelRow \in [active : BOOLEAN, source : {"none", "auto", "manual"}, custom : BOOLEAN]
  /\ modelRow.source = "none" => modelRow = Catalog(n)!NoModel
  /\ credentials \in {0, 1} /\ preset \in BOOLEAN /\ bought \in BOOLEAN
  /\ sync \in {"idle", "fetching"}
  /\ edits \in 0..Catalogs[n].edits /\ secret \in 0..edits

\* Views, locks, requests, and the calls the editor still has to make.
CatalogTypes(n) ==
  /\ cached = [k \in Catalog(n)!Views |-> cached[k]]
  /\ flight \in [Catalog(n)!Views -> {"free", "held"}]
  /\ router = [r \in Catalogs[n].routers |-> router[r]]
  /\ \A r \in Catalogs[n].routers : Routing(n, router[r])
  /\ editor \in Seq({"put"} \cup Catalog(n)!Views)
  /\ raced \subseteq Catalog(n)!Views

\* What a request will store is what the tables say, or may be stale for a known reason.
LoadedIsExplained(n) ==
  \A r \in Catalogs[n].routers :
    router[r].pc = "store" =>
      \/ router[r].value = Catalog(n)!View(Catalog(n)!Key(r))
      \/ Catalog(n)!Key(r) \in raced

CatalogInv(n) ==
  CatalogRows(n) /\ CatalogTypes(n) /\ Catalog(n)!StaleIsExplained /\ LoadedIsExplained(n)

LEMMA CatalogBounds ==
  ASSUME NEW n \in DOMAIN Catalogs
  PROVE  /\ Catalogs[n].edits \in Nat /\ 0 \in 0..Catalogs[n].edits
         /\ Len(Catalogs[n].route) \in Nat /\ 1 \in 1..Len(Catalogs[n].route)
         /\ \A i \in 1..Len(Catalogs[n].route) : Catalogs[n].route[i] \in Catalog(n)!Views
<1>1. Catalogs[n].edits \in Nat /\ Catalogs[n].route \in Seq(Catalog(n)!Views)
      /\ Catalogs[n].route # <<>>
  BY AgentsAssumption DEF Catalog!Views
<1>2. Len(Catalogs[n].route) \in Nat \ {0} BY <1>1, EmptySeq
<1>3. \A i \in 1..Len(Catalogs[n].route) : Catalogs[n].route[i] \in Catalog(n)!Views
  BY <1>1, ElementOfSeq
<1> QED BY <1>1, <1>2, <1>3

LEMMA CatalogInit ==
  ASSUME NEW n \in DOMAIN Catalogs, Catalog(n)!Init
  PROVE  CatalogInv(n)
<1>a. Catalogs[n].edits \in Nat BY CatalogBounds
<1>b. edits = 0 /\ secret = 0 BY DEF Catalog!Init
<1>c. edits \in 0..Catalogs[n].edits /\ secret \in 0..edits BY <1>a, <1>b
<1>d. modelRow = [active |-> TRUE, source |-> "auto", custom |-> FALSE]
  BY DEF Catalog!Init, Catalog!Discovered
<1>1. CatalogRows(n)
  <2>1. modelRow \in [active : BOOLEAN, source : {"none", "auto", "manual"}, custom : BOOLEAN]
        /\ modelRow.source # "none"
    BY <1>d
  <2> QED BY <1>c, <2>1 DEF Catalog!Init, CatalogRows
<1>2. \A r \in Catalogs[n].routers : router[r] = Catalog(n)!Idle BY DEF Catalog!Init
<1>3. \A r \in Catalogs[n].routers : router[r].pc = "idle" BY <1>2 DEF Catalog!Idle
<1>4. \A r \in Catalogs[n].routers : Routing(n, router[r])
  BY <1>3 DEF Routing, Loading
<1>5. editor = <<>> BY DEF Catalog!Init
<1>6. CatalogTypes(n) BY <1>4, <1>5 DEF Catalog!Init, CatalogTypes
<1>7. Catalog(n)!StaleIsExplained BY DEF Catalog!Init, Catalog!StaleIsExplained
<1>8. LoadedIsExplained(n) BY <1>3 DEF LoadedIsExplained
<1> QED BY <1>1, <1>6, <1>7, <1>8 DEF CatalogInv

\* While the rows stay as they are, so do the answers to queries.
LEMMA CatalogView ==
  ASSUME NEW n \in DOMAIN Catalogs, UNCHANGED <<instance, modelRow, credentials, preset, bought, secret>>
  PROVE  \A k : Catalog(n)!View(k)' = Catalog(n)!View(k)
BY DEF Catalog!View

\* A request that looks up a view: which one it is.
LEMMA CatalogKey ==
  ASSUME NEW n \in DOMAIN Catalogs, CatalogInv(n), NEW c \in Catalogs[n].routers
  PROVE  /\ Routing(n, router[c]) /\ c \in DOMAIN router
         /\ router[c].pc \in Loading \cup {"store"} =>
              /\ Catalog(n)!Key(c) \in Catalog(n)!Views
              /\ router[c].at \in 1..Len(Catalogs[n].route)
BY CatalogBounds DEF CatalogInv, CatalogTypes, Routing, Catalog!Key

\* A request goes on with record x, and nothing else changes that matters.
LEMMA CatalogPut ==
  ASSUME NEW n \in DOMAIN Catalogs, CatalogInv(n), NEW c \in Catalogs[n].routers,
         NEW x, router' = [router EXCEPT ![c] = x], Routing(n, x),
         x.pc = "store" => \/ x.value = Catalog(n)!View(Catalogs[n].route[x.at])
                           \/ Catalogs[n].route[x.at] \in raced,
         UNCHANGED <<instance, modelRow, credentials, preset, bought, secret, editor, sync, edits,
                     cached, raced>>,
         flight' \in [Catalog(n)!Views -> {"free", "held"}]
  PROVE  CatalogInv(n)'
<1>1. \A k : Catalog(n)!View(k)' = Catalog(n)!View(k) BY CatalogView
<1>2. CatalogRows(n)' BY DEF CatalogInv, CatalogRows, Catalog!NoModel
<1>3. router' = [r \in Catalogs[n].routers |-> router'[r]] /\ router'[c] = x
      /\ \A r \in Catalogs[n].routers \ {c} : router'[r] = router[r]
  BY DEF CatalogInv, CatalogTypes
<1>4. CatalogTypes(n)' BY <1>3 DEF CatalogInv, CatalogTypes, Catalog!Views
<1>5. Catalog(n)!StaleIsExplained'
  BY <1>1 DEF CatalogInv, Catalog!StaleIsExplained, Catalog!Views, Catalog!Miss, Catalog!Target
<1>6. LoadedIsExplained(n)'
  <2> SUFFICES ASSUME NEW r \in Catalogs[n].routers, router'[r].pc = "store"
               PROVE  \/ router'[r].value = Catalog(n)!View(Catalog(n)!Key(r))'
                      \/ Catalog(n)!Key(r)' \in raced'
    BY DEF LoadedIsExplained
  <2>1. Catalog(n)!Key(r)' = Catalogs[n].route[router'[r].at] BY DEF Catalog!Key
  <2>2. Catalog(n)!View(Catalog(n)!Key(r))' = Catalog(n)!View(Catalogs[n].route[router'[r].at])
    BY <2>1 DEF Catalog!View
  <2>3. CASE r = c BY <1>3, <2>1, <2>2, <2>3
  <2>4. CASE r # c
    <3>1. router'[r] = router[r] BY <1>3, <2>4
    <3>2. Catalog(n)!Key(r) = Catalogs[n].route[router[r].at] BY DEF Catalog!Key
    <3> QED BY <2>1, <2>2, <3>1, <3>2 DEF CatalogInv, LoadedIsExplained
  <2> QED BY <2>3, <2>4
<1> QED BY <1>2, <1>4, <1>5, <1>6 DEF CatalogInv

\* With a value in hand a request goes on to the next view, or ends.
LEMMA CatalogTake ==
  ASSUME NEW n \in DOMAIN Catalogs, CatalogInv(n), NEW c \in Catalogs[n].routers,
         router[c].pc \in Loading \cup {"store"}, NEW v, Catalog(n)!Take(c, v)
  PROVE  \E x : router' = [router EXCEPT ![c] = x] /\ Routing(n, x) /\ x.pc \in {"get", "done"}
<1> DEFINE ok == router[c].ok /\ (Catalog(n)!Key(c) \in {"list", "cand", "preset"} => v)
           next == router[c].at + 1
           over == \/ next > Len(Catalogs[n].route)
                   \/ Catalog(n)!Key(c) = "list" /\ ~ ok
                   \/ ~ ok /\ Catalogs[n].route[next] \in {"preset", "secret"}
           d == [pc |-> "done", ok |-> ok]
           g == [pc |-> "get", at |-> next, ok |-> ok, holds |-> FALSE]
<1>1. router' = [router EXCEPT ![c] = IF over THEN d ELSE g] BY DEF Catalog!Take
<1>2. router[c].at \in 1..Len(Catalogs[n].route) BY CatalogKey
<1>3. CASE over
  <2>1. Routing(n, d) /\ d.pc = "done" BY DEF Routing, Loading
  <2> HIDE DEF d
  <2> QED BY <1>1, <1>3, <2>1
<1>4. CASE ~over
  <2>1. ~(next > Len(Catalogs[n].route)) BY <1>4
  <2>2. next \in 1..Len(Catalogs[n].route) BY <1>2, <2>1, CatalogBounds
  <2> HIDE DEF next, ok
  <2>3. Routing(n, g) /\ g.pc = "get" BY <2>2 DEF Routing, Loading
  <2> HIDE DEF g
  <2> QED BY <1>1, <1>4, <2>3 
<1> QED BY <1>3, <1>4

\* With another label only, a request's record stays one.
LEMMA CatalogGo ==
  ASSUME NEW n \in DOMAIN Catalogs, CatalogInv(n), NEW c \in Catalogs[n].routers,
         router[c].pc \in Loading, NEW p \in Loading, Catalog(n)!Go(c, p)
  PROVE  \E x : router' = [router EXCEPT ![c] = x] /\ Routing(n, x) /\ x.pc # "store"
<1> DEFINE o == router[c]
           x == [pc |-> p, at |-> o.at, ok |-> o.ok, holds |-> o.holds]
<1>1. Routing(n, o) BY CatalogKey
<1>2. o = [pc |-> o.pc, at |-> o.at, ok |-> o.ok, holds |-> o.holds]
      /\ o.at \in 1..Len(Catalogs[n].route)
  BY <1>1 DEF Routing
<1>3. router' = [router EXCEPT ![c] = [o EXCEPT !.pc = p]] BY DEF Catalog!Go
<1> HIDE DEF o
<1>4. [o EXCEPT !.pc = p] = x BY <1>2
<1>5. x.pc = p /\ x.at = o.at /\ x = [pc |-> x.pc, at |-> x.at, ok |-> x.ok, holds |-> x.holds]
  OBVIOUS
<1>6. p # "store" BY DEF Loading
<1> HIDE DEF x
<1>7. Routing(n, x) BY <1>2, <1>5, <1>6 DEF Routing
<1> QED BY <1>3, <1>4, <1>5, <1>6, <1>7

LEMMA CatalogUnlock ==
  ASSUME NEW n \in DOMAIN Catalogs, CatalogInv(n), NEW c \in Catalogs[n].routers,
         Catalog(n)!Unlock(c)
  PROVE  flight' \in [Catalog(n)!Views -> {"free", "held"}]
BY DEF CatalogInv, CatalogTypes, Catalog!Unlock

\* A request asks, looks up, locks, waits, queries, fails or returns.
LEMMA CatalogReads ==
  ASSUME NEW n \in DOMAIN Catalogs, CatalogInv(n), NEW c \in Catalogs[n].routers,
         \/ Catalog(n)!Ask(c) \/ Catalog(n)!Get(c) \/ Catalog(n)!Lock(c) \/ Catalog(n)!Check(c)
         \/ Catalog(n)!Wait(c) \/ Catalog(n)!Load(c) \/ Catalog(n)!LoadFails(c)
         \/ Catalog(n)!Finish(c)
  PROVE  CatalogInv(n)'
<1>1. UNCHANGED <<instance, modelRow, credentials, preset, bought, secret, editor, sync, edits,
                  cached, raced>>
  BY DEF Catalog!Ask, Catalog!Get, Catalog!Lock, Catalog!Check, Catalog!Wait, Catalog!Load,
         Catalog!LoadFails, Catalog!Finish, Catalog!rows
<1>2. flight \in [Catalog(n)!Views -> {"free", "held"}] BY DEF CatalogInv, CatalogTypes
<1>0. {"lock", "load", "check", "wait", "get"} \subseteq Loading BY DEF Loading
<1>3. /\ flight' \in [Catalog(n)!Views -> {"free", "held"}]
      /\ \E x : /\ router' = [router EXCEPT ![c] = x] /\ Routing(n, x)
                /\ x.pc = "store" => x.value = Catalog(n)!View(Catalogs[n].route[x.at])
  <2>1. CASE Catalog(n)!Ask(c)
    <3> DEFINE x == [pc |-> "get", at |-> 1, ok |-> TRUE, holds |-> FALSE]
    <3>1. Routing(n, x) /\ x.pc # "store" BY CatalogBounds DEF Routing, Loading
    <3>2. router' = [router EXCEPT ![c] = x] /\ flight' = flight BY <2>1 DEF Catalog!Ask
    <3> HIDE DEF x
    <3> QED BY <1>2, <3>1, <3>2
  <2>2. CASE Catalog(n)!Get(c)
    <3>1. router[c].pc \in Loading /\ flight' = flight BY <2>2 DEF Catalog!Get, Loading
    <3>2. CASE cached[Catalog(n)!Key(c)] # Catalog(n)!Miss
      <4>1. Catalog(n)!Take(c, cached[Catalog(n)!Key(c)][1]) BY <2>2, <3>2 DEF Catalog!Get
      <4>2. PICK x : router' = [router EXCEPT ![c] = x] /\ Routing(n, x) /\ x.pc \in {"get", "done"}
        BY <3>1, <4>1, CatalogTake
      <4> QED BY <1>2, <3>1, <4>2
    <3>3. CASE cached[Catalog(n)!Key(c)] = Catalog(n)!Miss
      <4>1. PICK p \in Loading : Catalog(n)!Go(c, p) BY <1>0, <2>2, <3>3 DEF Catalog!Get
      <4>2. PICK x : router' = [router EXCEPT ![c] = x] /\ Routing(n, x) /\ x.pc # "store"
        BY <3>1, <4>1, CatalogGo
      <4> QED BY <1>2, <3>1, <4>2
    <3> QED BY <3>2, <3>3
  <2>3. CASE Catalog(n)!Lock(c)
    <3>1. router[c].pc \in Loading /\ router[c].pc = "lock" BY <2>3 DEF Catalog!Lock, Loading
    <3>2. CASE flight[Catalog(n)!Key(c)] = "free"
      <4> DEFINE o == router[c]
                 x == [pc |-> "check", at |-> o.at, ok |-> o.ok, holds |-> TRUE]
      <4>1. router' = [router EXCEPT ![c] = x]
            /\ flight' = [flight EXCEPT ![Catalog(n)!Key(c)] = "held"]
        BY <2>3, <3>2 DEF Catalog!Lock
      <4>2. o.at \in 1..Len(Catalogs[n].route) BY <3>1, CatalogKey
      <4> HIDE DEF o
      <4>3. Routing(n, x) /\ x.pc # "store" BY <4>2 DEF Routing, Loading
      <4>4. flight' \in [Catalog(n)!Views -> {"free", "held"}] BY <1>2, <4>1
      <4> HIDE DEF x
      <4> QED BY <4>1, <4>3, <4>4
    <3>3. CASE flight[Catalog(n)!Key(c)] # "free"
      <4>1. Catalog(n)!Go(c, "wait") /\ flight' = flight BY <2>3, <3>3 DEF Catalog!Lock
      <4>2. PICK x : router' = [router EXCEPT ![c] = x] /\ Routing(n, x) /\ x.pc # "store"
        BY <1>0, <3>1, <4>1, CatalogGo
      <4> QED BY <1>2, <4>1, <4>2
    <3> QED BY <3>2, <3>3
  <2>4. CASE Catalog(n)!Check(c)
    <3>1. router[c].pc \in Loading BY <2>4 DEF Catalog!Check, Loading
    <3>2. CASE cached[Catalog(n)!Key(c)] # Catalog(n)!Miss
      <4>1. Catalog(n)!Take(c, cached[Catalog(n)!Key(c)][1]) /\ Catalog(n)!Unlock(c)
        BY <2>4, <3>2 DEF Catalog!Check
      <4>2. PICK x : router' = [router EXCEPT ![c] = x] /\ Routing(n, x) /\ x.pc \in {"get", "done"}
        BY <3>1, <4>1, CatalogTake
      <4> QED BY <4>1, <4>2, CatalogUnlock
    <3>3. CASE cached[Catalog(n)!Key(c)] = Catalog(n)!Miss
      <4>1. Catalog(n)!Go(c, "load") /\ flight' = flight BY <2>4, <3>3 DEF Catalog!Check
      <4>2. PICK x : router' = [router EXCEPT ![c] = x] /\ Routing(n, x) /\ x.pc # "store"
        BY <1>0, <3>1, <4>1, CatalogGo
      <4> QED BY <1>2, <4>1, <4>2
    <3> QED BY <3>2, <3>3
  <2>5. CASE Catalog(n)!Wait(c)
    <3>1. router[c].pc \in Loading /\ flight' = flight BY <2>5 DEF Catalog!Wait, Loading
    <3>2. CASE cached[Catalog(n)!Key(c)] # Catalog(n)!Miss
      <4>1. Catalog(n)!Take(c, cached[Catalog(n)!Key(c)][1]) BY <2>5, <3>2 DEF Catalog!Wait
      <4>2. PICK x : router' = [router EXCEPT ![c] = x] /\ Routing(n, x) /\ x.pc \in {"get", "done"}
        BY <3>1, <4>1, CatalogTake
      <4> QED BY <1>2, <3>1, <4>2
    <3>3. CASE cached[Catalog(n)!Key(c)] = Catalog(n)!Miss
      <4>1. Catalog(n)!Go(c, "load") BY <2>5, <3>3 DEF Catalog!Wait
      <4>2. PICK x : router' = [router EXCEPT ![c] = x] /\ Routing(n, x) /\ x.pc # "store"
        BY <1>0, <3>1, <4>1, CatalogGo
      <4> QED BY <1>2, <3>1, <4>2
    <3> QED BY <3>2, <3>3
  <2>6. CASE Catalog(n)!Load(c)
    <3> DEFINE o == router[c]
               v == Catalog(n)!View(Catalog(n)!Key(c))
               x == [pc |-> "store", at |-> o.at, ok |-> o.ok, holds |-> o.holds, value |-> v]
    <3>1. router' = [router EXCEPT ![c] = x] /\ flight' = flight BY <2>6 DEF Catalog!Load
    <3>2. o.at \in 1..Len(Catalogs[n].route) BY <2>6, CatalogKey DEF Catalog!Load, Loading
    <3>3. v = Catalog(n)!View(Catalogs[n].route[o.at]) BY DEF Catalog!Key
    <3> HIDE DEF o, v
    <3>4. Routing(n, x) BY <3>2 DEF Routing, Loading
    <3>5. x.value = Catalog(n)!View(Catalogs[n].route[x.at]) BY <3>3
    <3> HIDE DEF x
    <3> QED BY <1>2, <3>1, <3>4, <3>5
  <2>7. CASE Catalog(n)!LoadFails(c)
    <3> DEFINE x == [pc |-> "done", ok |-> FALSE]
    <3>1. Routing(n, x) /\ x.pc # "store" BY DEF Routing, Loading
    <3>2. router' = [router EXCEPT ![c] = x] /\ Catalog(n)!Unlock(c) BY <2>7 DEF Catalog!LoadFails
    <3> HIDE DEF x
    <3> QED BY <3>1, <3>2, CatalogUnlock
  <2>8. CASE Catalog(n)!Finish(c)
    <3> DEFINE x == [pc |-> "idle"]
    <3>1. Routing(n, x) /\ x.pc # "store" BY DEF Routing, Loading
    <3>2. router' = [router EXCEPT ![c] = x] /\ flight' = flight
      BY <2>8 DEF Catalog!Finish, Catalog!Idle
    <3> HIDE DEF x
    <3> QED BY <1>2, <3>1, <3>2
  <2> QED BY <2>1, <2>2, <2>3, <2>4, <2>5, <2>6, <2>7, <2>8
<1> QED BY <1>1, <1>3, CatalogPut

\* A value that is stored is the tables', or explained, as it was in the request's hands.
LEMMA CatalogStore ==
  ASSUME NEW n \in DOMAIN Catalogs, CatalogInv(n), NEW c \in Catalogs[n].routers,
         Catalog(n)!Store(c)
  PROVE  CatalogInv(n)'
<1> DEFINE key == Catalog(n)!Key(c)
<1>1. router[c].pc = "store" /\ cached' = [cached EXCEPT ![key] = <<router[c].value>>]
      /\ Catalog(n)!Take(c, router[c].value) /\ Catalog(n)!Unlock(c)
      /\ UNCHANGED <<instance, modelRow, credentials, preset, bought, secret, editor, sync, edits,
                     raced>>
  BY DEF Catalog!Store, Catalog!rows
<1>2. key \in Catalog(n)!Views BY <1>1, CatalogKey
<1>3. PICK x : router' = [router EXCEPT ![c] = x] /\ Routing(n, x) /\ x.pc \in {"get", "done"}
  BY <1>1, CatalogTake
<1>4. flight' \in [Catalog(n)!Views -> {"free", "held"}] BY <1>1, CatalogUnlock
<1>5. \A k : Catalog(n)!View(k)' = Catalog(n)!View(k) BY <1>1, CatalogView
<1>6. router' = [r \in Catalogs[n].routers |-> router'[r]] /\ router'[c] = x
      /\ \A r \in Catalogs[n].routers \ {c} : router'[r] = router[r]
  BY <1>3 DEF CatalogInv, CatalogTypes
<1>7. router[c].value = Catalog(n)!View(key) \/ key \in raced
  BY <1>1 DEF CatalogInv, LoadedIsExplained
<1>8. cached' = [k \in Catalog(n)!Views |-> cached'[k]] /\ cached'[key] = <<router[c].value>>
      /\ \A k \in Catalog(n)!Views \ {key} : cached'[k] = cached[k]
  BY <1>1, <1>2 DEF CatalogInv, CatalogTypes
<1> HIDE DEF key
<1>9. CatalogRows(n)' BY <1>1 DEF CatalogInv, CatalogRows, Catalog!NoModel
<1>10. CatalogTypes(n)' BY <1>1, <1>3, <1>4, <1>6, <1>8 DEF CatalogInv, CatalogTypes, Catalog!Views
<1>11. Catalog(n)!StaleIsExplained'
  BY <1>1, <1>5, <1>7, <1>8
     DEF CatalogInv, Catalog!StaleIsExplained, Catalog!Views, Catalog!Miss, Catalog!Target
<1>12. LoadedIsExplained(n)'
  <2> SUFFICES ASSUME NEW r \in Catalogs[n].routers, router'[r].pc = "store"
               PROVE  \/ router'[r].value = Catalog(n)!View(Catalog(n)!Key(r))'
                      \/ Catalog(n)!Key(r)' \in raced'
    BY DEF LoadedIsExplained
  <2>1. r # c /\ router'[r] = router[r] BY <1>3, <1>6
  <2>2. Catalog(n)!Key(r)' = Catalog(n)!Key(r) BY <2>1 DEF Catalog!Key
  <2>3. Catalog(n)!View(Catalog(n)!Key(r))' = Catalog(n)!View(Catalog(n)!Key(r))
    BY <1>1, <2>2 DEF Catalog!View
  <2> QED BY <1>1, <2>1, <2>2, <2>3 DEF CatalogInv, LoadedIsExplained
<1> QED BY <1>9, <1>10, <1>11, <1>12 DEF CatalogInv

\* A dropped value leaves its view unexplained only if no request is about to store one.
LEMMA CatalogDrop ==
  ASSUME NEW n \in DOMAIN Catalogs, CatalogInv(n), NEW k \in Catalog(n)!Views, Catalog(n)!Drop(k),
         UNCHANGED <<instance, modelRow, credentials, preset, bought, secret, sync, edits, flight,
                     router>>,
         editor' \in Seq({"put"} \cup Catalog(n)!Views),
         \A j \in Catalog(n)!Views \ {k} :
           (\E i \in 1..Len(editor) : Catalog(n)!Target(editor[i]) = j)
             => \E i \in 1..Len(editor') : Catalog(n)!Target(editor'[i]) = j
  PROVE  CatalogInv(n)'
<1>1. cached' = [cached EXCEPT ![k] = Catalog(n)!Miss] BY DEF Catalog!Drop
<1>2. raced' \subseteq raced /\ \A j \in raced \ {k} : j \in raced' BY DEF Catalog!Drop
<1>3. cached' = [j \in Catalog(n)!Views |-> cached'[j]] /\ cached'[k] = Catalog(n)!Miss
      /\ \A j \in Catalog(n)!Views \ {k} : cached'[j] = cached[j]
  BY <1>1 DEF CatalogInv, CatalogTypes
<1>4. \A j : Catalog(n)!View(j)' = Catalog(n)!View(j) BY CatalogView
<1>5. CatalogRows(n)' BY DEF CatalogInv, CatalogRows, Catalog!NoModel
<1>6. CatalogTypes(n)' BY <1>2, <1>3 DEF CatalogInv, CatalogTypes, Catalog!Views, Routing
<1>7. Catalog(n)!StaleIsExplained'
  <2> SUFFICES ASSUME NEW j \in Catalog(n)!Views
               PROVE  \/ cached'[j] \in {Catalog(n)!Miss, <<Catalog(n)!View(j)'>>}
                      \/ j \in raced'
                      \/ \E i \in 1..Len(editor') : Catalog(n)!Target(editor'[i]) = j
    BY DEF Catalog!StaleIsExplained, Catalog!Views, Catalog!Target, Catalog!Miss
  <2>1. CASE j = k BY <1>3, <2>1
  <2>2. CASE j # k
    <3>1. \/ cached[j] \in {Catalog(n)!Miss, <<Catalog(n)!View(j)>>} \/ j \in raced
          \/ \E i \in 1..Len(editor) : Catalog(n)!Target(editor[i]) = j
      BY DEF CatalogInv, Catalog!StaleIsExplained
    <3> QED BY <1>2, <1>3, <1>4, <2>2, <3>1
  <2> QED BY <2>1, <2>2
<1>8. LoadedIsExplained(n)'
  <2> SUFFICES ASSUME NEW r \in Catalogs[n].routers, router[r].pc = "store"
               PROVE  \/ router[r].value = Catalog(n)!View(Catalog(n)!Key(r))
                      \/ Catalog(n)!Key(r) \in raced'
    <3>3. \A q \in Catalogs[n].routers : Catalog(n)!Key(q)' = Catalog(n)!Key(q) BY DEF Catalog!Key
    <3>4. \A q \in Catalogs[n].routers :
            Catalog(n)!View(Catalog(n)!Key(q))' = Catalog(n)!View(Catalog(n)!Key(q))
      BY <3>3 DEF Catalog!View
    <3> QED BY <3>3, <3>4 DEF LoadedIsExplained
  <2>1. router[r].value = Catalog(n)!View(Catalog(n)!Key(r)) \/ Catalog(n)!Key(r) \in raced
    BY DEF CatalogInv, LoadedIsExplained
  <2>2. CASE Catalog(n)!Key(r) = k
    <3>1. Catalog(n)!Loaded(k) BY <2>2 DEF Catalog!Loaded
    <3>2. raced' = raced BY <3>1 DEF Catalog!Drop
    <3> QED BY <2>1, <3>2
  <2>3. CASE Catalog(n)!Key(r) # k BY <1>2, <2>1, <2>3
  <2> QED BY <2>2, <2>3
<1> QED BY <1>5, <1>6, <1>7, <1>8 DEF CatalogInv

\* A change of the rows clears, or is known to overlook, every view it changes.
LEMMA CatalogCommit ==
  ASSUME NEW n \in DOMAIN Catalogs, CatalogInv(n),
         NEW clears \in Seq({"put"} \cup Catalog(n)!Views), NEW overlooks,
         Catalog(n)!Commit(clears, overlooks), CatalogRows(n)',
         \A k \in Catalog(n)!Views : Catalog(n)!View(k)' # Catalog(n)!View(k) =>
           k \in overlooks \/ \E i \in 1..Len(clears) : Catalog(n)!Target(clears[i]) = k
  PROVE  CatalogInv(n)'
<1>1. editor = <<>> /\ editor' = clears /\ UNCHANGED <<cached, flight, router>>
      /\ raced' = raced \cup {k \in Catalog(n)!Views : Catalog(n)!View(k)' # Catalog(n)!View(k)
                                /\ (Catalog(n)!Loaded(k) \/ k \in overlooks)}
  BY DEF Catalog!Commit
<1>2. raced \subseteq raced' /\ raced' \subseteq Catalog(n)!Views
  BY <1>1 DEF CatalogInv, CatalogTypes
<1>3. CatalogTypes(n)' BY <1>1, <1>2 DEF CatalogInv, CatalogTypes, Catalog!Views, Routing
<1>4. Catalog(n)!StaleIsExplained'
  <2> SUFFICES ASSUME NEW k \in Catalog(n)!Views
               PROVE  \/ cached[k] \in {Catalog(n)!Miss, <<Catalog(n)!View(k)'>>}
                      \/ k \in raced'
                      \/ \E i \in 1..Len(clears) : Catalog(n)!Target(clears[i]) = k
    BY <1>1 DEF Catalog!StaleIsExplained, Catalog!Views, Catalog!Target, Catalog!Miss
  <2>1. ~(\E i \in 1..Len(editor) : Catalog(n)!Target(editor[i]) = k) BY <1>1
  <2>2. cached[k] \in {Catalog(n)!Miss, <<Catalog(n)!View(k)>>} \/ k \in raced
    BY <2>1 DEF CatalogInv, Catalog!StaleIsExplained
  <2>3. CASE Catalog(n)!View(k)' = Catalog(n)!View(k) BY <1>2, <2>2, <2>3
  <2>4. CASE Catalog(n)!View(k)' # Catalog(n)!View(k) BY <1>1, <2>4
  <2> QED BY <2>3, <2>4
<1>5. LoadedIsExplained(n)'
  <2>1. \A q \in Catalogs[n].routers : Catalog(n)!Key(q)' = Catalog(n)!Key(q)
    BY <1>1 DEF Catalog!Key
  <2>2. SUFFICES ASSUME NEW r \in Catalogs[n].routers, router[r].pc = "store"
                 PROVE  \/ router[r].value = Catalog(n)!View(Catalog(n)!Key(r))'
                        \/ Catalog(n)!Key(r) \in raced'
    BY <1>1, <2>1 DEF LoadedIsExplained
  <2>3. PICK k \in Catalog(n)!Views : k = Catalog(n)!Key(r) /\ k = Catalog(n)!Key(r)'
    BY <2>1, <2>2, CatalogKey
  <2>4. Catalog(n)!View(Catalog(n)!Key(r))' = Catalog(n)!View(k)'
    BY <2>3 DEF Catalog!View
  <2>5. router[r].value = Catalog(n)!View(k) \/ k \in raced
    BY <2>2, <2>3 DEF CatalogInv, LoadedIsExplained
  <2>6. Catalog(n)!Loaded(k) BY <2>2, <2>3 DEF Catalog!Loaded
  <2>7. CASE Catalog(n)!View(k)' = Catalog(n)!View(k) BY <1>2, <2>3, <2>4, <2>5, <2>7
  <2>8. CASE Catalog(n)!View(k)' # Catalog(n)!View(k) BY <1>1, <2>3, <2>6, <2>8
  <2> QED BY <2>7, <2>8
<1> QED BY <1>3, <1>4, <1>5 DEF CatalogInv

\* What changes is the views that each edit clears or is known to overlook.
LEMMA CatalogSequences ==
  ASSUME NEW n
  PROVE  /\ <<>> \in Seq({"put"} \cup Catalog(n)!Views)
         /\ Catalog(n)!OnInstanceChanged \in Seq({"put"} \cup Catalog(n)!Views)
         /\ Catalog(n)!OnModelChanged \in Seq({"put"} \cup Catalog(n)!Views)
         /\ Catalog(n)!OnCredentialsChanged \in Seq({"put"} \cup Catalog(n)!Views)
         /\ <<"preset">> \in Seq({"put"} \cup Catalog(n)!Views)
BY DEF Catalog!Views, Catalog!OnInstanceChanged, Catalog!OnModelChanged,
       Catalog!OnCredentialsChanged

\* After a new key: the secret is put, then everything that shows the instance is cleared.
LEMMA CatalogKeyClears ==
  ASSUME NEW n
  PROVE  LET all == <<"put">> \o Catalog(n)!OnCredentialsChanged \o Catalog(n)!OnInstanceChanged
         IN  /\ all \in Seq({"put"} \cup Catalog(n)!Views)
             /\ Len(all) = 4 /\ all[1] = "put" /\ all[2] = "creds" /\ all[3] = "cand"
             /\ all[4] = "list"
BY DEF Catalog!Views, Catalog!OnInstanceChanged, Catalog!OnCredentialsChanged

LEMMA CatalogDeleteClears ==
  ASSUME NEW n
  PROVE  LET all == Catalog(n)!OnModelChanged \o Catalog(n)!OnCredentialsChanged
                      \o Catalog(n)!OnInstanceChanged
         IN  /\ all \in Seq({"put"} \cup Catalog(n)!Views)
             /\ Len(all) = 5 /\ all[1] = "cand" /\ all[2] = "list" /\ all[3] = "creds"
             /\ all[4] = "cand" /\ all[5] = "list"
BY DEF Catalog!Views, Catalog!OnInstanceChanged, Catalog!OnCredentialsChanged,
       Catalog!OnModelChanged

LEMMA CatalogEditsCount ==
  ASSUME NEW n \in DOMAIN Catalogs, CatalogInv(n), edits < Catalogs[n].edits, edits' = edits + 1
  PROVE  /\ edits' \in 0..Catalogs[n].edits
         /\ secret \in 0..edits' /\ secret + 1 \in 0..edits'
<1>1. Catalogs[n].edits \in Nat /\ edits \in 0..Catalogs[n].edits /\ secret \in 0..edits
  BY CatalogBounds DEF CatalogInv, CatalogRows
<1> QED BY <1>1

\* An edit of the instance.
LEMMA CatalogInstanceEdit ==
  ASSUME NEW n \in DOMAIN Catalogs, CatalogInv(n),
         Catalog(n)!CreateInstance \/ Catalog(n)!UpdateInstance
  PROVE  CatalogInv(n)'
<1>1. /\ instance' \in {"on", "off"} /\ UNCHANGED <<modelRow, credentials, preset, bought, secret, sync>>
      /\ Catalog(n)!Commit(Catalog(n)!OnInstanceChanged, {"cand"})
  BY DEF Catalog!CreateInstance, Catalog!UpdateInstance
<1>2. edits < Catalogs[n].edits /\ edits' = edits + 1 BY <1>1 DEF Catalog!Commit
<1>3. CatalogRows(n)'
  BY <1>1, <1>2, CatalogEditsCount DEF CatalogInv, CatalogRows, Catalog!NoModel
<1>4. Len(Catalog(n)!OnInstanceChanged) = 1 /\ Catalog(n)!OnInstanceChanged[1] = "list"
  BY DEF Catalog!OnInstanceChanged
<1>5. ASSUME NEW k \in Catalog(n)!Views, Catalog(n)!View(k)' # Catalog(n)!View(k)
      PROVE  k \in {"cand", "list"}
  BY <1>1, <1>5 DEF Catalog!View, Catalog!Views
<1>6. 1 \in 1..Len(Catalog(n)!OnInstanceChanged)
      /\ Catalog(n)!Target(Catalog(n)!OnInstanceChanged[1]) = "list"
  BY <1>4 DEF Catalog!Target
<1>7. PICK all \in Seq({"put"} \cup Catalog(n)!Views) : all = Catalog(n)!OnInstanceChanged
  BY CatalogSequences
<1> QED BY <1>1, <1>3, <1>5, <1>6, <1>7, CatalogCommit

LEMMA CatalogKeyEdit ==
  ASSUME NEW n \in DOMAIN Catalogs, CatalogInv(n), Catalog(n)!UpdateKey
  PROVE  CatalogInv(n)'
<1> DEFINE all == <<"put">> \o Catalog(n)!OnCredentialsChanged \o Catalog(n)!OnInstanceChanged
<1>1. /\ secret' = secret + 1 /\ UNCHANGED <<instance, modelRow, credentials, preset, bought, sync>>
      /\ Catalog(n)!Commit(all, {})
  BY DEF Catalog!UpdateKey
<1>2. edits < Catalogs[n].edits /\ edits' = edits + 1 BY <1>1 DEF Catalog!Commit
<1>3. CatalogRows(n)'
  BY <1>1, <1>2, CatalogEditsCount DEF CatalogInv, CatalogRows, Catalog!NoModel
<1>4. all \in Seq({"put"} \cup Catalog(n)!Views) /\ Len(all) = 4 /\ all[1] = "put"
  BY CatalogKeyClears
<1> HIDE DEF all
<1>5. ASSUME NEW k \in Catalog(n)!Views, Catalog(n)!View(k)' # Catalog(n)!View(k)
      PROVE  k = "secret"
  BY <1>1, <1>5 DEF Catalog!View, Catalog!Views
<1>6. 1 \in 1..Len(all) /\ Catalog(n)!Target(all[1]) = "secret" BY <1>4 DEF Catalog!Target
<1> QED BY <1>1, <1>3, <1>4, <1>5, <1>6, CatalogCommit

LEMMA CatalogDelete ==
  ASSUME NEW n \in DOMAIN Catalogs, CatalogInv(n), Catalog(n)!DeleteInstance
  PROVE  CatalogInv(n)'
<1> DEFINE all == Catalog(n)!OnModelChanged \o Catalog(n)!OnCredentialsChanged
                    \o Catalog(n)!OnInstanceChanged
<1>1. /\ instance' = "none" /\ modelRow' = Catalog(n)!NoModel /\ credentials' = 0
      /\ bought' = FALSE /\ UNCHANGED <<preset, secret, sync>>
      /\ Catalog(n)!Commit(all, {})
  BY DEF Catalog!DeleteInstance
<1>2. edits < Catalogs[n].edits /\ edits' = edits + 1 BY <1>1 DEF Catalog!Commit
<1>3. CatalogRows(n)'
  BY <1>1, <1>2, CatalogEditsCount DEF CatalogInv, CatalogRows, Catalog!NoModel
<1>4. /\ all \in Seq({"put"} \cup Catalog(n)!Views) /\ Len(all) = 5
      /\ all[2] = "list" /\ all[3] = "creds" /\ all[4] = "cand"
  BY CatalogDeleteClears
<1> HIDE DEF all
<1>5. ASSUME NEW k \in Catalog(n)!Views, Catalog(n)!View(k)' # Catalog(n)!View(k)
      PROVE  k \in {"list", "creds", "cand"}
  BY <1>1, <1>5 DEF Catalog!View, Catalog!Views
<1>6. /\ 2 \in 1..Len(all) /\ Catalog(n)!Target(all[2]) = "list"
      /\ 3 \in 1..Len(all) /\ Catalog(n)!Target(all[3]) = "creds"
      /\ 4 \in 1..Len(all) /\ Catalog(n)!Target(all[4]) = "cand"
  BY <1>4 DEF Catalog!Target
<1> QED BY <1>1, <1>3, <1>4, <1>5, <1>6, CatalogCommit

LEMMA CatalogCredentialEdit ==
  ASSUME NEW n \in DOMAIN Catalogs, CatalogInv(n),
         Catalog(n)!CreateCredential \/ Catalog(n)!DeleteCredential
  PROVE  CatalogInv(n)'
<1> DEFINE all == Catalog(n)!OnCredentialsChanged
<1>1. /\ credentials' \in {0, 1} /\ UNCHANGED <<instance, modelRow, preset, bought, secret, sync>>
      /\ Catalog(n)!Commit(all, {})
  BY DEF Catalog!CreateCredential, Catalog!DeleteCredential
<1>2. edits < Catalogs[n].edits /\ edits' = edits + 1 BY <1>1 DEF Catalog!Commit
<1>3. CatalogRows(n)'
  BY <1>1, <1>2, CatalogEditsCount DEF CatalogInv, CatalogRows, Catalog!NoModel
<1>4. Len(all) = 2 /\ all[1] = "creds" BY DEF Catalog!OnCredentialsChanged
<1>5. all \in Seq({"put"} \cup Catalog(n)!Views) BY CatalogSequences
<1> HIDE DEF all
<1>6. ASSUME NEW k \in Catalog(n)!Views, Catalog(n)!View(k)' # Catalog(n)!View(k)
      PROVE  k = "creds"
  BY <1>1, <1>6 DEF Catalog!View, Catalog!Views
<1>7. 1 \in 1..Len(all) /\ Catalog(n)!Target(all[1]) = "creds" BY <1>4 DEF Catalog!Target
<1> QED BY <1>1, <1>3, <1>5, <1>6, <1>7, CatalogCommit

\* An edit of the model, a purchase of it and the end of a synchronisation.
LEMMA CatalogModelEdit ==
  ASSUME NEW n \in DOMAIN Catalogs, CatalogInv(n),
         modelRow' \in [active : BOOLEAN, source : {"auto", "manual"}, custom : BOOLEAN],
         UNCHANGED <<instance, credentials, preset, bought, secret>>, sync' \in {"idle", "fetching"},
         Catalog(n)!Commit(Catalog(n)!OnModelChanged, {})
  PROVE  CatalogInv(n)'
<1> DEFINE all == Catalog(n)!OnModelChanged
<1>1. Catalog(n)!Commit(all, {}) OBVIOUS
<1>2. edits < Catalogs[n].edits /\ edits' = edits + 1 BY <1>1 DEF Catalog!Commit
<1>3. CatalogRows(n)'
  <2>1. modelRow'.source # "none"
        /\ modelRow' \in [active : BOOLEAN, source : {"none", "auto", "manual"}, custom : BOOLEAN]
    OBVIOUS
  <2> QED BY <1>2, <2>1, CatalogEditsCount DEF CatalogInv, CatalogRows
<1>4. Len(all) = 2 /\ all[1] = "cand" BY DEF Catalog!OnModelChanged
<1>5. all \in Seq({"put"} \cup Catalog(n)!Views) BY CatalogSequences
<1> HIDE DEF all
<1>6. ASSUME NEW k \in Catalog(n)!Views, Catalog(n)!View(k)' # Catalog(n)!View(k)
      PROVE  k = "cand"
  BY <1>6 DEF Catalog!View, Catalog!Views
<1>7. 1 \in 1..Len(all) /\ Catalog(n)!Target(all[1]) = "cand" BY <1>4 DEF Catalog!Target
<1> QED BY <1>1, <1>3, <1>5, <1>6, <1>7, CatalogCommit

LEMMA CatalogPreset ==
  ASSUME NEW n \in DOMAIN Catalogs, CatalogInv(n), Catalog(n)!PatchPreset
  PROVE  CatalogInv(n)'
<1>1. /\ preset' = ~preset /\ UNCHANGED <<instance, modelRow, credentials, bought, secret, sync>>
      /\ Catalog(n)!Commit(<<"preset">>, {})
  BY DEF Catalog!PatchPreset
<1>2. edits < Catalogs[n].edits /\ edits' = edits + 1 BY <1>1 DEF Catalog!Commit
<1>3. preset' \in BOOLEAN BY <1>1
<1>4. CatalogRows(n)'
  BY <1>1, <1>2, <1>3, CatalogEditsCount DEF CatalogInv, CatalogRows, Catalog!NoModel
<1>5. ASSUME NEW k \in Catalog(n)!Views, Catalog(n)!View(k)' # Catalog(n)!View(k)
      PROVE  k = "preset"
  BY <1>1, <1>5 DEF Catalog!View, Catalog!Views
<1>6. 1 \in 1..Len(<<"preset">>) /\ Catalog(n)!Target(<<"preset">>[1]) = "preset"
  BY DEF Catalog!Target
<1>7. <<"preset">> \in Seq({"put"} \cup Catalog(n)!Views) BY CatalogSequences
<1> QED BY <1>1, <1>4, <1>5, <1>6, <1>7, CatalogCommit

LEMMA CatalogPurchase ==
  ASSUME NEW n \in DOMAIN Catalogs, CatalogInv(n), Catalog(n)!PurchaseModel
  PROVE  CatalogInv(n)'
<1>1. /\ bought' = TRUE /\ UNCHANGED <<instance, modelRow, credentials, preset, secret, sync>>
      /\ Catalog(n)!Commit(<<>>, {"cand"})
  BY DEF Catalog!PurchaseModel
<1>2. edits < Catalogs[n].edits /\ edits' = edits + 1 BY <1>1 DEF Catalog!Commit
<1>3. CatalogRows(n)'
  BY <1>1, <1>2, CatalogEditsCount DEF CatalogInv, CatalogRows, Catalog!NoModel
<1>4. ASSUME NEW k \in Catalog(n)!Views, Catalog(n)!View(k)' # Catalog(n)!View(k)
      PROVE  k = "cand"
  BY <1>1, <1>4 DEF Catalog!View, Catalog!Views
<1>5. <<>> \in Seq({"put"} \cup Catalog(n)!Views) BY CatalogSequences
<1> QED BY <1>1, <1>3, <1>4, <1>5, CatalogCommit

LEMMA CatalogModels ==
  ASSUME NEW n \in DOMAIN Catalogs, CatalogInv(n),
         \/ Catalog(n)!UpsertModels \/ Catalog(n)!UpdateModel \/ Catalog(n)!QuickAddModels
         \/ Catalog(n)!FinishSync
  PROVE  CatalogInv(n)'
<1> DEFINE R == [active : BOOLEAN, source : {"auto", "manual"}, custom : BOOLEAN]
<1>0. /\ modelRow \in [active : BOOLEAN, source : {"none", "auto", "manual"}, custom : BOOLEAN]
      /\ modelRow.source = "none" => modelRow = Catalog(n)!NoModel
      /\ sync \in {"idle", "fetching"}
  BY DEF CatalogInv, CatalogRows
<1>1. modelRow # Catalog(n)!NoModel => modelRow \in R
  <2>1. modelRow.source # "none" /\ modelRow.source \in {"none", "auto", "manual"} => modelRow \in R
    BY <1>0
  <2> QED BY <1>0, <2>1
<1>2. Catalog(n)!Discovered \in R BY DEF Catalog!Discovered
<1>3. CASE Catalog(n)!FinishSync
  <2>1. modelRow' = Catalog(n)!UpsertFromUpstream(modelRow) /\ sync' = "idle"
        /\ UNCHANGED <<instance, credentials, preset, bought, secret>>
        /\ Catalog(n)!Commit(Catalog(n)!OnModelChanged, {})
    BY <1>3 DEF Catalog!FinishSync
  <2>2. CASE modelRow = Catalog(n)!NoModel
    BY <1>2, <2>1, <2>2, CatalogModelEdit DEF Catalog!UpsertFromUpstream
  <2>3. CASE modelRow # Catalog(n)!NoModel /\ modelRow.source = "manual"
    BY <1>1, <2>1, <2>3, CatalogModelEdit DEF Catalog!UpsertFromUpstream
  <2>4. CASE modelRow # Catalog(n)!NoModel /\ modelRow.source # "manual"
    <3>1. modelRow' = [Catalog(n)!Discovered EXCEPT !.active = modelRow.active,
                                                    !.custom = modelRow.custom]
      BY <2>1, <2>4 DEF Catalog!UpsertFromUpstream
    <3>2. modelRow.active \in BOOLEAN /\ modelRow.custom \in BOOLEAN BY <1>1, <2>4
    <3>3. modelRow' \in R BY <1>2, <3>1, <3>2
    <3> QED BY <2>1, <3>3, CatalogModelEdit
  <2> QED BY <2>2, <2>3, <2>4
<1>4. CASE \E row \in R : Catalog(n)!EditModel(row)
  <2>1. modelRow' \in R /\ UNCHANGED <<instance, credentials, preset, bought, secret, sync>>
        /\ Catalog(n)!Commit(Catalog(n)!OnModelChanged, {})
    BY <1>4 DEF Catalog!EditModel
  <2> QED BY <1>0, <2>1, CatalogModelEdit
<1>5. Catalog(n)!UpsertModels \/ Catalog(n)!UpdateModel \/ Catalog(n)!QuickAddModels
        => \E row \in R : Catalog(n)!EditModel(row)
  <2>1. [active |-> TRUE, source |-> "manual", custom |-> TRUE] \in R OBVIOUS
  <2>2. modelRow \in R => [modelRow EXCEPT !.active = ~ @] \in R
                          /\ [modelRow EXCEPT !.custom = TRUE] \in R
    OBVIOUS
  <2> HIDE DEF R
  <2> QED BY <1>1, <1>2, <2>1, <2>2
          DEF Catalog!UpsertModels, Catalog!UpdateModel, Catalog!QuickAddModels
<1> QED BY <1>3, <1>4, <1>5

\* A synchronisation begins or gives up, a value or a lock expires.
LEMMA CatalogTime ==
  ASSUME NEW n \in DOMAIN Catalogs, CatalogInv(n),
         \/ Catalog(n)!StartSync \/ Catalog(n)!SyncFails
         \/ \E k \in Catalog(n)!Views : Catalog(n)!ValueExpires(k) \/ Catalog(n)!FlightExpires(k)
  PROVE  CatalogInv(n)'
<1>1. CASE \E k \in Catalog(n)!Views : Catalog(n)!ValueExpires(k)
  <2>1. PICK k \in Catalog(n)!Views : Catalog(n)!ValueExpires(k) BY <1>1
  <2>2. Catalog(n)!Drop(k)
        /\ UNCHANGED <<instance, modelRow, credentials, preset, bought, secret, sync, edits, flight,
                       router, editor>>
    BY <2>1 DEF Catalog!ValueExpires, Catalog!rows
  <2>3. editor \in Seq({"put"} \cup Catalog(n)!Views) BY DEF CatalogInv, CatalogTypes
  <2> QED BY <2>2, <2>3, CatalogDrop
<1>2. CASE \/ Catalog(n)!StartSync \/ Catalog(n)!SyncFails
           \/ \E k \in Catalog(n)!Views : Catalog(n)!FlightExpires(k)
  <2>1. UNCHANGED <<instance, modelRow, credentials, preset, bought, secret, editor, edits, cached,
                    router, raced>>
    BY <1>2 DEF Catalog!StartSync, Catalog!SyncFails, Catalog!FlightExpires, Catalog!rows
  <2>2. flight' \in [Catalog(n)!Views -> {"free", "held"}]
    BY <1>2 DEF Catalog!StartSync, Catalog!SyncFails, Catalog!FlightExpires, CatalogInv, CatalogTypes
  <2>3. sync' \in {"idle", "fetching"}
    BY <1>2 DEF Catalog!StartSync, Catalog!SyncFails, Catalog!FlightExpires, Catalog!rows,
                CatalogInv, CatalogRows
  <2>4. \A k : Catalog(n)!View(k)' = Catalog(n)!View(k) BY <2>1, CatalogView
  <2>5. CatalogRows(n)' BY <2>1, <2>3 DEF CatalogInv, CatalogRows, Catalog!NoModel
  <2>6. CatalogTypes(n)' BY <2>1, <2>2 DEF CatalogInv, CatalogTypes, Catalog!Views, Routing
  <2>7. Catalog(n)!StaleIsExplained'
    BY <2>1, <2>4 DEF CatalogInv, Catalog!StaleIsExplained, Catalog!Views, Catalog!Miss, Catalog!Target
  <2>8. \A q \in Catalogs[n].routers : Catalog(n)!Key(q)' = Catalog(n)!Key(q)
    BY <2>1 DEF Catalog!Key
  <2>9. \A q \in Catalogs[n].routers :
          Catalog(n)!View(Catalog(n)!Key(q))' = Catalog(n)!View(Catalog(n)!Key(q))
    BY <2>1, <2>8 DEF Catalog!View
  <2>10. LoadedIsExplained(n)' BY <2>1, <2>8, <2>9 DEF CatalogInv, LoadedIsExplained
  <2> QED BY <2>5, <2>6, <2>7, <2>10 DEF CatalogInv
<1> QED BY <1>1, <1>2

\* The next call of the clearing: what remains to be cleared is the rest.
LEMMA CatalogClear ==
  ASSUME NEW n \in DOMAIN Catalogs, CatalogInv(n), Catalog(n)!Clear
  PROVE  CatalogInv(n)'
<1> DEFINE S == {"put"} \cup Catalog(n)!Views
<1>1. editor \in Seq(S) /\ editor # <<>> BY DEF Catalog!Clear, CatalogInv, CatalogTypes
<1>2. /\ editor' = Tail(editor)
      /\ UNCHANGED <<instance, modelRow, credentials, preset, bought, secret, sync, edits, flight,
                     router>>
  BY DEF Catalog!Clear
<1>3. editor' \in Seq(S) /\ Len(editor) \in Nat \ {0} /\ Len(editor') = Len(editor) - 1
      /\ \A i \in 1..Len(editor') : editor'[i] = editor[i + 1]
  BY <1>1, <1>2, HeadTailProperties, EmptySeq
<1>4. Head(editor) = editor[1] BY <1>1, SMT
<1>5. editor[1] \in S BY <1>1, <1>3, ElementOfSeq
<1>6. ASSUME NEW i \in 1..Len(editor), i # 1
      PROVE  \E j \in 1..Len(editor') : editor'[j] = editor[i]
  <2>1. i - 1 \in 1..Len(editor') /\ (i - 1) + 1 = i BY <1>3, <1>6
  <2> QED BY <1>3, <2>1
<1>7. CASE editor[1] = "put"
  <2>1. cached' = [cached EXCEPT !["secret"] = <<secret>>] /\ raced' = raced
    BY <1>4, <1>7 DEF Catalog!Clear
  <2>2. \A k : Catalog(n)!View(k)' = Catalog(n)!View(k) BY <1>2, CatalogView
  <2>3. CatalogRows(n)' BY <1>2 DEF CatalogInv, CatalogRows, Catalog!NoModel
  <2>4. cached' = [k \in Catalog(n)!Views |-> cached'[k]] /\ cached'["secret"] = <<secret>>
        /\ \A k \in Catalog(n)!Views \ {"secret"} : cached'[k] = cached[k]
    BY <2>1 DEF CatalogInv, CatalogTypes, Catalog!Views
  <2>5. CatalogTypes(n)'
    BY <1>2, <1>3, <2>1, <2>4 DEF CatalogInv, CatalogTypes, Catalog!Views, Routing
  <2>6. Catalog(n)!View("secret") = secret BY DEF Catalog!View
  <2>7. Catalog(n)!StaleIsExplained'
    <3> SUFFICES ASSUME NEW k \in Catalog(n)!Views
                 PROVE  \/ cached'[k] \in {Catalog(n)!Miss, <<Catalog(n)!View(k)'>>}
                        \/ k \in raced'
                        \/ \E i \in 1..Len(editor') : Catalog(n)!Target(editor'[i]) = k
      BY DEF Catalog!StaleIsExplained, Catalog!Views, Catalog!Target, Catalog!Miss
    <3>1. CASE k = "secret" BY <2>2, <2>4, <2>6, <3>1
    <3>2. CASE k # "secret"
      <4>1. \/ cached[k] \in {Catalog(n)!Miss, <<Catalog(n)!View(k)>>} \/ k \in raced
            \/ \E i \in 1..Len(editor) : Catalog(n)!Target(editor[i]) = k
        BY DEF CatalogInv, Catalog!StaleIsExplained
      <4>2. Catalog(n)!Target(editor[1]) = "secret" BY <1>7 DEF Catalog!Target
      <4>3. CASE \E i \in 1..Len(editor) : Catalog(n)!Target(editor[i]) = k
        BY <1>6, <3>2, <4>2, <4>3
      <4> QED BY <2>1, <2>2, <2>4, <3>2, <4>1, <4>3
    <3> QED BY <3>1, <3>2
  <2>8. \A q \in Catalogs[n].routers : Catalog(n)!Key(q)' = Catalog(n)!Key(q)
    BY <1>2 DEF Catalog!Key
  <2>9. \A q \in Catalogs[n].routers :
          Catalog(n)!View(Catalog(n)!Key(q))' = Catalog(n)!View(Catalog(n)!Key(q))
    BY <1>2, <2>8 DEF Catalog!View
  <2>10. LoadedIsExplained(n)' BY <1>2, <2>1, <2>8, <2>9 DEF CatalogInv, LoadedIsExplained
  <2> QED BY <2>3, <2>5, <2>7, <2>10 DEF CatalogInv
<1>8. CASE editor[1] # "put"
  <2>1. PICK k \in Catalog(n)!Views : k = editor[1] /\ Catalog(n)!Drop(k)
    BY <1>4, <1>5, <1>8 DEF Catalog!Clear
  <2>2. Catalog(n)!Target(editor[1]) = k BY <1>8, <2>1 DEF Catalog!Target
  <2>3. ASSUME NEW j \in Catalog(n)!Views \ {k},
               \E i \in 1..Len(editor) : Catalog(n)!Target(editor[i]) = j
        PROVE  \E i \in 1..Len(editor') : Catalog(n)!Target(editor'[i]) = j
    BY <1>6, <2>2, <2>3
  <2> QED BY <1>2, <1>3, <2>1, <2>3, CatalogDrop
<1> QED BY <1>7, <1>8

\* A call that fails, or the death of the process, explains what is not cleared.
LEMMA CatalogClearFails ==
  ASSUME NEW n \in DOMAIN Catalogs, CatalogInv(n), Catalog(n)!ClearFails
  PROVE  CatalogInv(n)'
<1> DEFINE S == {"put"} \cup Catalog(n)!Views
<1>1. editor \in Seq(S) /\ editor # <<>> BY DEF Catalog!ClearFails, CatalogInv, CatalogTypes
<1>2. UNCHANGED <<instance, modelRow, credentials, preset, bought, secret, sync, edits, cached, flight,
                  router>>
  BY DEF Catalog!ClearFails
<1>3. Len(editor) \in Nat \ {0} /\ \A i \in 1..Len(editor) : editor[i] \in S
  BY <1>1, EmptySeq, ElementOfSeq
<1>4. PICK m \in {1, Len(editor)} :
        /\ editor' = SubSeq(editor, m + 1, Len(editor))
        /\ raced' = raced \cup {Catalog(n)!Target(editor[i]) : i \in 1..m}
  BY DEF Catalog!ClearFails
<1>5. m \in 1..Len(editor) BY <1>3
<1>6. /\ editor' \in Seq(S) /\ Len(editor') = Len(editor) - m
      /\ \A i \in 1..Len(editor') : editor'[i] = editor[m + i]
  <2>1. m + 1 \in 1..Len(editor) + 1 /\ Len(editor) \in m..Len(editor) BY <1>3, <1>5
  <2>2. \A i \in (m + 1)..Len(editor) : i \in 1..Len(editor) BY <1>3, <1>5
  <2> QED BY <1>1, <1>3, <1>4, <1>5, <2>1, <2>2, SubSeqProperties
<1>7. \A i \in 1..Len(editor) : Catalog(n)!Target(editor[i]) \in Catalog(n)!Views
  BY <1>3 DEF Catalog!Target, Catalog!Views
<1>8. raced \subseteq raced' /\ raced' \subseteq Catalog(n)!Views
  <2>1. \A i \in 1..m : i \in 1..Len(editor) BY <1>3, <1>5
  <2> QED BY <1>4, <1>7, <2>1 DEF CatalogInv, CatalogTypes
<1>9. \A k : Catalog(n)!View(k)' = Catalog(n)!View(k) BY <1>2, CatalogView
<1>10. CatalogRows(n)' BY <1>2 DEF CatalogInv, CatalogRows, Catalog!NoModel
<1>11. CatalogTypes(n)' BY <1>2, <1>6, <1>8 DEF CatalogInv, CatalogTypes, Catalog!Views, Routing
<1>12. Catalog(n)!StaleIsExplained'
  <2> SUFFICES ASSUME NEW k \in Catalog(n)!Views
               PROVE  \/ cached'[k] \in {Catalog(n)!Miss, <<Catalog(n)!View(k)'>>}
                      \/ k \in raced'
                      \/ \E i \in 1..Len(editor') : Catalog(n)!Target(editor'[i]) = k
    BY DEF Catalog!StaleIsExplained, Catalog!Views, Catalog!Target, Catalog!Miss
  <2>1. \/ cached[k] \in {Catalog(n)!Miss, <<Catalog(n)!View(k)>>} \/ k \in raced
        \/ \E i \in 1..Len(editor) : Catalog(n)!Target(editor[i]) = k
    BY DEF CatalogInv, Catalog!StaleIsExplained
  <2>2. ASSUME NEW i \in 1..Len(editor), Catalog(n)!Target(editor[i]) = k
        PROVE  k \in raced' \/ \E j \in 1..Len(editor') : Catalog(n)!Target(editor'[j]) = k
    <3>1. CASE i \in 1..m BY <1>4, <2>2, <3>1
    <3>2. CASE i \notin 1..m
      <4>1. i - m \in 1..Len(editor') /\ m + (i - m) = i BY <1>3, <1>5, <1>6, <3>2
      <4>2. editor'[i - m] = editor[i] BY <1>6, <4>1
      <4> QED BY <2>2, <4>1, <4>2
    <3> QED BY <3>1, <3>2
  <2> QED BY <1>2, <1>8, <1>9, <2>1, <2>2
<1>13. \A q \in Catalogs[n].routers : Catalog(n)!Key(q)' = Catalog(n)!Key(q)
  BY <1>2 DEF Catalog!Key
<1>14. \A q \in Catalogs[n].routers :
         Catalog(n)!View(Catalog(n)!Key(q))' = Catalog(n)!View(Catalog(n)!Key(q))
  BY <1>2, <1>13 DEF Catalog!View
<1>15. LoadedIsExplained(n)' BY <1>2, <1>8, <1>13, <1>14 DEF CatalogInv, LoadedIsExplained
<1> QED BY <1>10, <1>11, <1>12, <1>15 DEF CatalogInv

LEMMA CatalogStep ==
  ASSUME NEW n \in DOMAIN Catalogs, CatalogInv(n), Catalog(n)!Next
  PROVE  CatalogInv(n)'
<1>1. CASE \E c \in Catalogs[n].routers :
             Catalog(n)!Ask(c) \/ Catalog(n)!RouterStep(c) \/ Catalog(n)!Finish(c)
  <2>1. PICK c \in Catalogs[n].routers :
          Catalog(n)!Ask(c) \/ Catalog(n)!RouterStep(c) \/ Catalog(n)!Finish(c)
    BY <1>1
  <2>2. CASE Catalog(n)!Store(c) BY <2>2, CatalogStore
  <2> QED BY <2>1, <2>2, CatalogReads DEF Catalog!RouterStep
<1>2. CASE Catalog(n)!Edit
  BY <1>2, CatalogInstanceEdit, CatalogKeyEdit, CatalogDelete, CatalogCredentialEdit,
     CatalogModels, CatalogPreset, CatalogPurchase
     DEF Catalog!Edit
<1>3. CASE \/ Catalog(n)!StartSync \/ Catalog(n)!SyncFails
           \/ \E k \in Catalog(n)!Views : Catalog(n)!ValueExpires(k) \/ Catalog(n)!FlightExpires(k)
  BY <1>3, CatalogTime
<1>4. CASE Catalog(n)!Clear BY <1>4, CatalogClear
<1>5. CASE Catalog(n)!ClearFails BY <1>5, CatalogClearFails
<1> QED BY <1>1, <1>2, <1>3, <1>4, <1>5 DEF Catalog!Next

LEMMA CatalogPromise ==
  ASSUME NEW n \in DOMAIN Catalogs, CatalogInv(n)
  PROVE  Catalog(n)!TypeOK /\ Catalog(n)!StaleIsExplained
<1>1. edits \in 0..Catalogs[n].edits /\ secret \in 0..edits /\ Catalogs[n].edits \in Nat
  BY CatalogBounds DEF CatalogInv, CatalogRows
<1>2. secret \in 0..Catalogs[n].edits BY <1>1
<1>3. \A r \in Catalogs[n].routers :
        router[r].pc \in {"idle", "get", "lock", "check", "wait", "load", "store", "done"}
  BY DEF CatalogInv, CatalogTypes, Routing, Loading
<1>4. \A k \in Catalog(n)!Views : flight[k] \in {"free", "held"} BY DEF CatalogInv, CatalogTypes
<1>5. raced \subseteq Catalog(n)!Views BY DEF CatalogInv, CatalogTypes
<1>6. Catalog(n)!TypeOK
  BY <1>2, <1>3, <1>4, <1>5
     DEF CatalogInv, CatalogRows, Catalog!TypeOK, Catalog!Credentials, Catalog!PresetRows,
         Catalog!Entitlements, Catalog!Views
<1> QED BY <1>6 DEF CatalogInv

\* A synchronisation that ends leaves the switch and the source of a model alone.
LEMMA CatalogSync ==
  ASSUME NEW n \in DOMAIN Catalogs, CatalogInv(n), Catalog(n)!Next
  PROVE  Catalog(n)!SyncStep
<1> SUFFICES ASSUME sync = "fetching", sync' = "idle", modelRow # Catalog(n)!NoModel
             PROVE  modelRow'.active = modelRow.active /\ modelRow'.source = modelRow.source
  BY DEF Catalog!SyncStep
<1>1. modelRow \in [active : BOOLEAN, source : {"none", "auto", "manual"}, custom : BOOLEAN]
      /\ modelRow.source # "none"
  BY DEF CatalogInv, CatalogRows
<1>2. Catalog(n)!FinishSync \/ modelRow' = modelRow
  BY DEF Catalog!Next, Catalog!Ask, Catalog!RouterStep, Catalog!Get, Catalog!Lock, Catalog!Check,
         Catalog!Wait, Catalog!Load, Catalog!LoadFails, Catalog!Store, Catalog!Finish,
         Catalog!ValueExpires, Catalog!FlightExpires, Catalog!rows, Catalog!Clear,
         Catalog!ClearFails, Catalog!StartSync, Catalog!SyncFails, Catalog!Edit,
         Catalog!CreateInstance, Catalog!UpdateInstance, Catalog!UpdateKey,
         Catalog!DeleteInstance, Catalog!CreateCredential, Catalog!DeleteCredential,
         Catalog!UpsertModels, Catalog!UpdateModel, Catalog!QuickAddModels, Catalog!EditModel,
         Catalog!PatchPreset, Catalog!PurchaseModel
<1>3. CASE Catalog(n)!FinishSync
  <2>1. modelRow' = IF modelRow.source = "manual" THEN modelRow
                    ELSE [Catalog(n)!Discovered EXCEPT !.active = modelRow.active,
                                                       !.custom = modelRow.custom]
    BY <1>3 DEF Catalog!FinishSync, Catalog!UpsertFromUpstream
  <2>2. CASE modelRow.source = "manual" BY <2>1, <2>2
  <2>3. CASE modelRow.source # "manual"
    <3>1. modelRow.source = "auto" BY <1>1, <2>3
    <3>2. Catalog(n)!Discovered = [active |-> TRUE, source |-> "auto", custom |-> FALSE]
      BY DEF Catalog!Discovered
    <3>3. modelRow' = [Catalog(n)!Discovered EXCEPT !.active = modelRow.active,
                                                    !.custom = modelRow.custom]
      BY <2>1, <2>3
    <3>4. modelRow'.active = modelRow.active /\ modelRow'.source = "auto" BY <3>2, <3>3
    <3> QED BY <3>1, <3>4
  <2> QED BY <2>2, <2>3
<1> QED BY <1>2, <1>3

-----------------------------------------------------------------------------
(* The memories: a message that is said is on its way to an extraction, and what was
   learned is in a point, in a snapshot or in the hands of an edit. *)

\* A task that will look at a conversation, and one that will, or has seen all of it.
Coming(r, s) == r.pc \in {"queued", "drop"} /\ r.of = s
Waits(r, s, m) ==
  \/ r.pc \in {"queued", "drop", "load"} /\ r.of = s
  \/ r.pc = "ask" /\ r.of = s /\ r.upto = m

\* The record of an extraction task.
Extracting(n, r, heard) ==
  /\ r.pc \in {"idle", "queued", "drop", "load", "ask", "guard", "save", "add"}
  /\ r.pc # "idle" => r.of \in Recalls[n].chats
  /\ r.pc = "ask" => r.upto \in 0..heard[r.of]
  /\ r.pc \in {"guard", "save"} => r.fact \in Recalls[n].texts
  /\ r.pc \in {"save", "add"} => r.text \subseteq Recalls[n].texts
  /\ r.pc = "save" => r.at \in Recalls[n].points

\* The record of an edit.
Editing(n) ==
  [pc : {"write", "commit"}, op : {"update", "delete", "rollback"}, at : Recalls[n].points,
   old : SUBSET Recalls[n].texts, new : SUBSET Recalls[n].texts]

RecallChats(n) ==
  /\ said \in [Recalls[n].chats -> 0..Recalls[n].messages]
  /\ recalled \in [Recalls[n].chats -> Nat]
  /\ \A s \in Recalls[n].chats : recalled[s] <= said[s]
  /\ lastActive \in [Recalls[n].chats -> {"none", "recent", "idle"}]
  /\ pending \in [Recalls[n].chats -> BOOLEAN]

\* What was learned is somewhere.
Somewhere(n) ==
  \A f \in learned :
    \/ \E p \in Recalls[n].points : f \in memory[p]
    \/ \E x \in snapshot : f \in x.old
    \/ \E e \in Recalls[n].editors : memoEditor[e].pc = "commit" /\ f \in memoEditor[e].old

RecallStores(n) ==
  /\ memory \in [Recalls[n].points -> SUBSET Recalls[n].texts]
  /\ snapshot \subseteq [at : Recalls[n].points, old : SUBSET Recalls[n].texts]
  /\ memoEditor = [e \in Recalls[n].editors |-> memoEditor[e]]
  /\ \A e \in Recalls[n].editors : memoEditor[e].pc = "idle" \/ memoEditor[e] \in Editing(n)
  /\ \A e \in Recalls[n].editors :
       memoEditor[e].pc = "write" /\ e \notin altered => memory[memoEditor[e].at] = memoEditor[e].old
  /\ Somewhere(n)

RecallInv(n) ==
  /\ RecallChats(n)
  /\ job = [j \in Recalls[n].jobs |-> job[j]]
  /\ \A j \in Recalls[n].jobs : Extracting(n, job[j], said)
  /\ \A s \in Recalls[n].chats : pending[s] => \E j \in Recalls[n].jobs : Coming(job[j], s)
  /\ \A s \in Recalls[n].chats :
       \/ said[s] <= recalled[s] \/ s \in neglected \/ s \in toucher
       \/ \E j \in Recalls[n].jobs : Waits(job[j], s, said[s])
  /\ RecallStores(n)

LEMMA RecallInit ==
  ASSUME NEW n \in DOMAIN Recalls, Recall(n)!Init
  PROVE  RecallInv(n)
<1>0. Recalls[n].messages \in Nat BY AgentsAssumption
<1>1. \A j \in Recalls[n].jobs : job[j] = [pc |-> "idle"] BY DEF Recall!Init, Recall!Idle
<1>2. \A j \in Recalls[n].jobs : job[j].pc = "idle" BY <1>1
<1>3. \A j \in Recalls[n].jobs : Extracting(n, job[j], said) BY <1>2 DEF Extracting
<1>4. \A e \in Recalls[n].editors : memoEditor[e] = [pc |-> "idle"] BY DEF Recall!Init, Recall!Idle
<1>5. \A e \in Recalls[n].editors : memoEditor[e].pc = "idle" BY <1>4
<1>6. RecallChats(n)
  <2>1. 0 \in 0..Recalls[n].messages BY <1>0
  <2> QED BY <2>1 DEF Recall!Init, RecallChats
<1>7. Somewhere(n) BY DEF Recall!Init, Somewhere
<1>8. RecallStores(n) BY <1>5, <1>7 DEF Recall!Init, RecallStores, Recall!NoPoint
<1>9. \A s \in Recalls[n].chats : ~pending[s] /\ said[s] = 0 /\ recalled[s] = 0
  BY DEF Recall!Init
<1>10. job = [j \in Recalls[n].jobs |-> job[j]] BY DEF Recall!Init
<1> QED BY <1>3, <1>6, <1>8, <1>9, <1>10 DEF RecallInv

\* Points, snapshots and edits rest.
LEMMA RecallStoresStay ==
  ASSUME NEW n \in DOMAIN Recalls, RecallInv(n),
         UNCHANGED <<memory, snapshot, memoEditor, altered, learned>>
  PROVE  RecallStores(n)'
<1>1. Somewhere(n)' BY DEF RecallInv, RecallStores, Somewhere
<1> QED BY <1>1 DEF RecallInv, RecallStores, Editing

\* A task goes on with record x.
LEMMA RecallPut ==
  ASSUME NEW n \in DOMAIN Recalls, RecallInv(n), NEW j \in Recalls[n].jobs, NEW x,
         job' = [job EXCEPT ![j] = x], Extracting(n, x, said), said' = said,
         RecallChats(n)', neglected \subseteq neglected',
         \A s \in Recalls[n].chats :
           /\ pending'[s] => pending[s] \/ Coming(x, s)
           /\ pending'[s] /\ Coming(job[j], s) => Coming(x, s)
           /\ recalled[s] <= recalled'[s]
           /\ s \in toucher => s \in toucher' \/ s \in neglected' \/ pending'[s]
           /\ Waits(job[j], s, said[s]) => \/ Waits(x, s, said[s]) \/ said[s] <= recalled'[s]
                                           \/ s \in neglected',
         RecallStores(n)'
  PROVE  RecallInv(n)'
<1>1. job' = [k \in Recalls[n].jobs |-> job'[k]] /\ job'[j] = x
      /\ \A k \in Recalls[n].jobs \ {j} : job'[k] = job[k]
  BY DEF RecallInv
<1>2. \A k \in Recalls[n].jobs : Extracting(n, job'[k], said') BY <1>1 DEF RecallInv
<1>3. ASSUME NEW s \in Recalls[n].chats, pending'[s]
      PROVE  \E k \in Recalls[n].jobs : Coming(job'[k], s)
  <2>1. CASE Coming(x, s) BY <1>1, <2>1
  <2>2. CASE ~Coming(x, s)
    <3>1. PICK k \in Recalls[n].jobs : Coming(job[k], s) BY <1>3, <2>2 DEF RecallInv
    <3>2. k # j BY <1>3, <2>2, <3>1
    <3> QED BY <1>1, <3>1, <3>2
  <2> QED BY <2>1, <2>2
<1>4. ASSUME NEW s \in Recalls[n].chats
      PROVE  \/ said'[s] <= recalled'[s] \/ s \in neglected' \/ s \in toucher'
             \/ \E k \in Recalls[n].jobs : Waits(job'[k], s, said'[s])
  <2>1. CASE pending'[s]
    <3>1. PICK k \in Recalls[n].jobs : Coming(job'[k], s) BY <1>3, <2>1
    <3>2. Waits(job'[k], s, said'[s]) BY <3>1 DEF Coming, Waits
    <3> QED BY <3>2
  <2>2. CASE s \in neglected \/ s \in toucher BY <2>1, <2>2
  <2>3. CASE said[s] <= recalled[s]
    <3>1. said[s] \in Nat /\ recalled[s] \in Nat /\ recalled'[s] \in Nat
      BY DEF RecallInv, RecallChats
    <3> QED BY <2>3, <3>1
  <2>4. CASE \E k \in Recalls[n].jobs : Waits(job[k], s, said[s])
    <3>1. PICK k \in Recalls[n].jobs : Waits(job[k], s, said[s]) BY <2>4
    <3>2. CASE k = j BY <1>1, <3>1, <3>2
    <3>3. CASE k # j BY <1>1, <3>1, <3>3
    <3> QED BY <3>2, <3>3
  <2> QED BY <2>2, <2>3, <2>4 DEF RecallInv
<1>5. \A k \in Recalls[n].jobs : Extracting(n, job[k], said)' BY <1>2 DEF Extracting
<1>6. \A s \in Recalls[n].chats : pending'[s] => \E k \in Recalls[n].jobs : Coming(job[k], s)'
  BY <1>3 DEF Coming
<1>7. \A s \in Recalls[n].chats :
        \/ said'[s] <= recalled'[s] \/ s \in neglected' \/ s \in toucher'
        \/ \E k \in Recalls[n].jobs : Waits(job[k], s, said[s])'
  BY <1>4 DEF Waits
<1> QED BY <1>1, <1>5, <1>6, <1>7 DEF RecallInv

\* A message is appended, and time passes.
LEMMA RecallMessages ==
  ASSUME NEW n \in DOMAIN Recalls, RecallInv(n), NEW s \in Recalls[n].chats,
         \/ Recall(n)!Append(s) \/ Recall(n)!TouchFails(s)
         \/ Recall(n)!PassThreeMinutes(s) \/ Recall(n)!PendingExpires(s)
  PROVE  RecallInv(n)'
<1>0. UNCHANGED <<recalled, job, memory, snapshot, memoEditor, altered, learned>>
      /\ neglected \subseteq neglected'
  BY DEF Recall!Append, Recall!TouchFails, Recall!PassThreeMinutes, Recall!PendingExpires,
         Recall!stores
<1>1. RecallStores(n)' BY <1>0, RecallStoresStay
<1>2. Recalls[n].messages \in Nat BY AgentsAssumption
<1>3. /\ said' \in [Recalls[n].chats -> 0..Recalls[n].messages]
      /\ \A c \in Recalls[n].chats : said[c] <= said'[c] /\ (said'[c] # said[c] => c \in toucher')
      /\ \A c \in Recalls[n].chats : c \in toucher => c \in toucher' \/ c \in neglected'
  <2>1. CASE Recall(n)!Append(s)
    <3>1. /\ said' = [said EXCEPT ![s] = said[s] + 1] /\ said[s] < Recalls[n].messages
          /\ toucher' = toucher \cup {s}
      BY <2>1 DEF Recall!Append
    <3>2. said \in [Recalls[n].chats -> 0..Recalls[n].messages] BY DEF RecallInv, RecallChats
    <3>3. said[s] \in Nat /\ said[s] + 1 \in 0..Recalls[n].messages BY <1>2, <3>1, <3>2
    <3>4. \A c \in Recalls[n].chats : said'[c] = IF c = s THEN said[s] + 1 ELSE said[c]
      BY <3>1, <3>2
    <3>5. said' \in [Recalls[n].chats -> 0..Recalls[n].messages] BY <3>1, <3>2, <3>3
    <3>6. \A c \in Recalls[n].chats : said[c] \in Nat BY <3>2
    <3>7. \A c \in Recalls[n].chats : said[c] <= said'[c] BY <3>3, <3>4, <3>6
    <3> QED BY <3>1, <3>4, <3>5, <3>7
  <2>2. CASE \/ Recall(n)!TouchFails(s)
             \/ Recall(n)!PassThreeMinutes(s) \/ Recall(n)!PendingExpires(s)
    <3>1. said' = said
          /\ (toucher' = toucher \/ (toucher' = toucher \ {s} /\ s \in neglected'))
      BY <2>2 DEF Recall!TouchFails, Recall!PassThreeMinutes, Recall!PendingExpires
    <3>2. said \in [Recalls[n].chats -> 0..Recalls[n].messages] BY DEF RecallInv, RecallChats
    <3>3. \A c \in Recalls[n].chats : said[c] \in Nat BY <3>2
    <3> QED BY <3>1, <3>2, <3>3
  <2> QED BY <2>1, <2>2
<1>4. /\ pending' \in [Recalls[n].chats -> BOOLEAN]
      /\ \A c \in Recalls[n].chats : pending'[c] => pending[c]
      /\ lastActive' \in [Recalls[n].chats -> {"none", "recent", "idle"}]
  BY DEF Recall!Append, Recall!TouchFails, Recall!PassThreeMinutes, Recall!PendingExpires,
         RecallInv, RecallChats
<1>5. \A c \in Recalls[n].chats : said[c] \in Nat /\ recalled[c] \in Nat /\ said'[c] \in Nat
                                  /\ recalled[c] <= said[c]
  BY <1>3 DEF RecallInv, RecallChats
<1>6. \A c \in Recalls[n].chats : recalled[c] <= said'[c] BY <1>3, <1>5
<1>7. RecallChats(n)' BY <1>0, <1>3, <1>4, <1>6 DEF RecallInv, RecallChats
<1>8. \A k \in Recalls[n].jobs : Extracting(n, job[k], said')
  <2> SUFFICES ASSUME NEW k \in Recalls[n].jobs PROVE Extracting(n, job[k], said')
    OBVIOUS
  <2>1. Extracting(n, job[k], said) BY DEF RecallInv
  <2>2. job[k].pc = "ask" => job[k].upto \in 0..said'[job[k].of]
    <3>1. SUFFICES ASSUME job[k].pc = "ask" PROVE job[k].upto \in 0..said'[job[k].of] OBVIOUS
    <3>2. PICK c \in Recalls[n].chats : c = job[k].of BY <2>1, <3>1 DEF Extracting
    <3>3. job[k].upto \in 0..said[c] BY <2>1, <3>1, <3>2 DEF Extracting
    <3>4. said[c] <= said'[c] /\ said[c] \in Nat /\ said'[c] \in Nat BY <1>3, <1>5
    <3> QED BY <3>2, <3>3, <3>4
  <2> QED BY <2>1, <2>2 DEF Extracting
<1>9. ASSUME NEW c \in Recalls[n].chats
      PROVE  \/ said'[c] <= recalled[c] \/ c \in neglected' \/ c \in toucher'
             \/ \E k \in Recalls[n].jobs : Waits(job[k], c, said'[c])
  BY <1>0, <1>3 DEF RecallInv
<1>10. \A k \in Recalls[n].jobs : Extracting(n, job[k], said)' BY <1>0, <1>8 DEF Extracting
<1>11. \A c \in Recalls[n].chats : pending'[c] => \E k \in Recalls[n].jobs : Coming(job[k], c)'
  BY <1>0, <1>4 DEF RecallInv, Coming
<1>12. \A c \in Recalls[n].chats :
        \/ said'[c] <= recalled'[c] \/ c \in neglected' \/ c \in toucher'
        \/ \E k \in Recalls[n].jobs : Waits(job[k], c, said[c])'
  BY <1>0, <1>9 DEF Waits
<1>13. job' = [k \in Recalls[n].jobs |-> job'[k]] BY <1>0 DEF RecallInv
<1> QED BY <1>1, <1>7, <1>10, <1>11, <1>12, <1>13 DEF RecallInv

\* The touch after an append: a task is on its way already, or is sent.
LEMMA RecallTouch ==
  ASSUME NEW n \in DOMAIN Recalls, RecallInv(n), NEW s \in Recalls[n].chats, Recall(n)!Touch(s)
  PROVE  RecallInv(n)'
<1>0. UNCHANGED <<said, recalled, lastActive, neglected, memory, snapshot, memoEditor, altered,
                  learned>>
      /\ toucher' = toucher \ {s}
  BY DEF Recall!Touch, Recall!stores
<1>1. RecallStores(n)' BY <1>0, RecallStoresStay
<1>2. \A c \in Recalls[n].chats : recalled[c] \in Nat BY DEF RecallInv, RecallChats
<1>3. CASE pending[s]
  <2>1. job' = job /\ pending' = pending BY <1>3 DEF Recall!Touch
  <2>2. PICK j \in Recalls[n].jobs : Coming(job[j], s) BY <1>3 DEF RecallInv
  <2> DEFINE x == job[j]
  <2>3. job' = [job EXCEPT ![j] = x] /\ Extracting(n, x, said) BY <2>1 DEF RecallInv
  <2>4. RecallChats(n)' BY <1>0, <2>1 DEF RecallInv, RecallChats
  <2>5. \A c \in Recalls[n].chats : recalled[c] <= recalled'[c] BY <1>0, <1>2
  <2> HIDE DEF x
  <2>6. \A c \in Recalls[n].chats : c \in toucher => c \in toucher' \/ pending'[c]
    BY <1>0, <1>3, <2>1
  <2>7. \A c \in Recalls[n].chats : Waits(job[j], c, said[c]) => Waits(x, c, said[c]) BY DEF x
  <2>8. \A c \in Recalls[n].chats : Coming(job[j], c) => Coming(x, c) BY DEF x
  <2> QED BY <1>0, <1>1, <2>1, <2>3, <2>4, <2>5, <2>6, <2>7, <2>8, RecallPut
<1>4. CASE ~pending[s]
  <2>1. PICK j \in Recalls[n].jobs :
          /\ job[j].pc = "idle" /\ job' = [job EXCEPT ![j] = [pc |-> "queued", of |-> s]]
          /\ pending' = [pending EXCEPT ![s] = TRUE]
    BY <1>4 DEF Recall!Touch
  <2> DEFINE x == [pc |-> "queued", of |-> s]
  <2>2. job' = [job EXCEPT ![j] = x] BY <2>1
  <2>3. Extracting(n, x, said) /\ Coming(x, s) BY DEF Extracting, Coming
  <2> HIDE DEF x
  <2>4. \A c \in Recalls[n].chats : ~Waits(job[j], c, said[c]) /\ ~Coming(job[j], c)
    BY <2>1 DEF Waits, Coming
  <2>5. pending' \in [Recalls[n].chats -> BOOLEAN] /\ pending'[s]
        /\ \A c \in Recalls[n].chats \ {s} : pending'[c] = pending[c]
    BY <2>1 DEF RecallInv, RecallChats
  <2>6. RecallChats(n)' BY <1>0, <2>5 DEF RecallInv, RecallChats
  <2>7. \A c \in Recalls[n].chats : recalled[c] <= recalled'[c] BY <1>0, <1>2
  <2>8. \A c \in Recalls[n].chats : c \in toucher => c \in toucher' \/ pending'[c]
    BY <1>0, <2>5
  <2>9. \A c \in Recalls[n].chats : pending'[c] => pending[c] \/ Coming(x, c) BY <2>3, <2>5
  <2> QED BY <1>0, <1>1, <2>2, <2>3, <2>4, <2>6, <2>7, <2>8, <2>9, RecallPut
<1> QED BY <1>3, <1>4

\* A task looks, puts itself off, reads the window, asks, or fails.
LEMMA RecallWorks ==
  ASSUME NEW n \in DOMAIN Recalls, RecallInv(n), NEW j \in Recalls[n].jobs,
         \/ Recall(n)!Run(j) \/ Recall(n)!DropPending(j) \/ Recall(n)!LoadWindow(j)
         \/ Recall(n)!Extract(j) \/ Recall(n)!ExtractionFails(j)
  PROVE  RecallInv(n)'
<1>0. UNCHANGED <<said, lastActive, toucher, memory, snapshot, memoEditor, altered, learned>>
  BY DEF Recall!Run, Recall!DropPending, Recall!LoadWindow, Recall!Extract,
         Recall!ExtractionFails, Recall!stores
<1>1. RecallStores(n)' BY <1>0, RecallStoresStay
<1>2. /\ said \in [Recalls[n].chats -> 0..Recalls[n].messages]
      /\ recalled \in [Recalls[n].chats -> Nat] /\ pending \in [Recalls[n].chats -> BOOLEAN]
      /\ \A c \in Recalls[n].chats : recalled[c] <= said[c] /\ said[c] \in Nat
  BY DEF RecallInv, RecallChats
<1>3. Extracting(n, job[j], said) /\ job[j].pc \in {"queued", "drop", "load", "ask"}
  BY DEF Recall!Run, Recall!DropPending, Recall!LoadWindow, Recall!Extract,
         Recall!ExtractionFails, RecallInv
<1>4. PICK s \in Recalls[n].chats : s = job[j].of BY <1>3 DEF Extracting
<1>5. \A c \in Recalls[n].chats \ {s} : ~Coming(job[j], c) /\ ~Waits(job[j], c, said[c])
  BY <1>4 DEF Coming, Waits
<1>6. \A c \in Recalls[n].chats : c \in toucher => c \in toucher' BY <1>0
<1>7. CASE Recall(n)!Run(j) /\ lastActive[s] = "recent"
  <2> DEFINE x == job[j]
  <2>1. /\ x.pc = "queued" /\ job' = job /\ pending' = [pending EXCEPT ![s] = TRUE]
        /\ UNCHANGED <<recalled, neglected>>
    BY <1>4, <1>7 DEF Recall!Run
  <2>2. job' = [job EXCEPT ![j] = x] BY <2>1 DEF RecallInv
  <2>3. Coming(x, s) BY <1>4, <2>1 DEF Coming
  <2>4. pending' \in [Recalls[n].chats -> BOOLEAN]
        /\ \A c \in Recalls[n].chats \ {s} : pending'[c] = pending[c]
    BY <1>2, <2>1
  <2>5. RecallChats(n)' BY <1>0, <2>1, <2>4 DEF RecallInv, RecallChats
  <2>6. \A c \in Recalls[n].chats :
          /\ pending'[c] => pending[c] \/ Coming(x, c)
          /\ recalled[c] <= recalled'[c]
    BY <1>2, <2>1, <2>3, <2>4
  <2>7. \A c \in Recalls[n].chats : /\ Coming(job[j], c) => Coming(x, c)
                                    /\ Waits(job[j], c, said[c]) => Waits(x, c, said[c])
    OBVIOUS
  <2> HIDE DEF x
  <2> QED BY <1>0, <1>1, <1>3, <1>6, <2>1, <2>2, <2>5, <2>6, <2>7, RecallPut DEF x
<1>8. CASE Recall(n)!Run(j) /\ lastActive[s] # "recent"
  <2> DEFINE x == [pc |-> "drop", of |-> s]
  <2>1. job' = [job EXCEPT ![j] = x] /\ UNCHANGED <<recalled, pending, neglected>>
    BY <1>4, <1>8 DEF Recall!Run, Recall!Work
  <2>2. Extracting(n, x, said) /\ Coming(x, s) /\ Waits(x, s, said[s])
    BY DEF Extracting, Coming, Waits
  <2> HIDE DEF x
  <2>3. RecallChats(n)' BY <1>0, <2>1 DEF RecallInv, RecallChats
  <2>4. \A c \in Recalls[n].chats :
          /\ Coming(job[j], c) => Coming(x, c) /\ recalled[c] <= recalled'[c]
          /\ Waits(job[j], c, said[c]) => Waits(x, c, said[c])
    BY <1>2, <1>5, <2>1, <2>2
  <2>5. \A c \in Recalls[n].chats : recalled[c] <= recalled'[c] BY <1>2, <2>1
  <2> QED BY <1>0, <1>1, <1>6, <2>1, <2>2, <2>3, <2>4, <2>5, RecallPut
<1>9. CASE Recall(n)!DropPending(j)
  <2> DEFINE x == [pc |-> "load", of |-> s]
  <2>1. job' = [job EXCEPT ![j] = x] /\ UNCHANGED <<recalled, neglected>>
        /\ pending' = [pending EXCEPT ![s] = FALSE]
    BY <1>4, <1>9 DEF Recall!DropPending, Recall!Work
  <2>2. Extracting(n, x, said) /\ Waits(x, s, said[s]) BY DEF Extracting, Waits
  <2> HIDE DEF x
  <2>3. pending' \in [Recalls[n].chats -> BOOLEAN] /\ ~pending'[s]
        /\ \A c \in Recalls[n].chats \ {s} : pending'[c] = pending[c]
    BY <1>2, <2>1
  <2>4. RecallChats(n)' BY <1>0, <2>1, <2>3 DEF RecallInv, RecallChats
  <2>5. \A c \in Recalls[n].chats :
          /\ pending'[c] => pending[c] /\ ~Coming(job[j], c)
          /\ Waits(job[j], c, said[c]) => Waits(x, c, said[c])
    BY <1>5, <2>2, <2>3
  <2>6. \A c \in Recalls[n].chats : recalled[c] <= recalled'[c] BY <1>2, <2>1
  <2> QED BY <1>0, <1>1, <1>6, <2>1, <2>2, <2>4, <2>5, <2>6, RecallPut
<1>10. CASE Recall(n)!LoadWindow(j)
  <2> DEFINE x == [pc |-> "ask", of |-> s, upto |-> said[s]]
  <2>1. job[j].pc = "load" /\ job' = [job EXCEPT ![j] = x] /\ UNCHANGED <<recalled, neglected, pending>>
    BY <1>4, <1>10 DEF Recall!LoadWindow, Recall!Work
  <2>0. said[s] \in 0..said[s] BY <1>2
  <2>2. Extracting(n, x, said) /\ Waits(x, s, said[s]) BY <2>0 DEF Extracting, Waits
  <2> HIDE DEF x
  <2>3. RecallChats(n)' BY <1>0, <2>1 DEF RecallInv, RecallChats
  <2>4. \A c \in Recalls[n].chats :
          ~Coming(job[j], c) /\ (Waits(job[j], c, said[c]) => Waits(x, c, said[c]))
    BY <1>5, <2>1, <2>2 DEF Coming
  <2>5. \A c \in Recalls[n].chats : recalled[c] <= recalled'[c] BY <1>2, <2>1
  <2> QED BY <1>0, <1>1, <1>6, <2>1, <2>2, <2>3, <2>4, <2>5, RecallPut
<1>11. CASE Recall(n)!Extract(j)
  <2> DEFINE u == job[j].upto
             m == IF recalled[s] < u THEN u ELSE recalled[s]
  <2>1. job[j].pc = "ask" /\ UNCHANGED <<pending, neglected>>
        /\ recalled' = [recalled EXCEPT ![s] = m]
    BY <1>4, <1>11 DEF Recall!Extract
  <2>2. u \in 0..said[s] BY <1>3, <1>4, <2>1 DEF Extracting
  <2>3. m \in Nat /\ recalled[s] <= m /\ m <= said[s] /\ u <= m BY <1>2, <2>2
  <2>4. \E x : /\ job' = [job EXCEPT ![j] = x] /\ Extracting(n, x, said)
               /\ \A c \in Recalls[n].chats : ~Coming(x, c)
    <3>1. CASE Recall(n)!Work(j, Recall(n)!Idle)
      <4> DEFINE x == [pc |-> "idle"]
      <4>1. job' = [job EXCEPT ![j] = x] BY <3>1 DEF Recall!Work, Recall!Idle
      <4>2. Extracting(n, x, said) /\ x.pc = "idle" BY DEF Extracting
      <4> HIDE DEF x
      <4> QED BY <4>1, <4>2 DEF Coming
    <3>2. CASE \E f \in Recalls[n].texts : Recall(n)!Work(j, [pc |-> "guard", of |-> s, fact |-> f])
      <4>1. PICK f \in Recalls[n].texts : Recall(n)!Work(j, [pc |-> "guard", of |-> s, fact |-> f])
        BY <3>2
      <4> DEFINE x == [pc |-> "guard", of |-> s, fact |-> f]
      <4>2. job' = [job EXCEPT ![j] = x] BY <4>1 DEF Recall!Work
      <4>3. Extracting(n, x, said) /\ x.pc = "guard" BY DEF Extracting
      <4> HIDE DEF x
      <4> QED BY <4>2, <4>3 DEF Coming
    <3> QED BY <1>4, <1>11, <3>1, <3>2 DEF Recall!Extract
  <2>5. PICK x : /\ job' = [job EXCEPT ![j] = x] /\ Extracting(n, x, said)
                 /\ \A c \in Recalls[n].chats : ~Coming(x, c)
    BY <2>4
  <2>6. Waits(job[j], s, said[s]) => said[s] <= m
    BY <1>2, <2>1, <2>3 DEF Waits
  <2> HIDE DEF m
  <2>7. \A c \in Recalls[n].chats : recalled'[c] = IF c = s THEN m ELSE recalled[c]
    BY <1>2, <2>1
  <2>8. recalled' \in [Recalls[n].chats -> Nat] BY <1>2, <2>1, <2>3
  <2>9. \A c \in Recalls[n].chats :
          /\ recalled'[c] <= said[c] /\ recalled[c] <= recalled'[c]
          /\ Waits(job[j], c, said[c]) => said[c] <= recalled'[c]
    BY <1>2, <1>5, <2>3, <2>6, <2>7
  <2>10. RecallChats(n)' BY <1>0, <2>1, <2>8, <2>9 DEF RecallInv, RecallChats
  <2>11. \A c \in Recalls[n].chats : ~Coming(job[j], c) BY <2>1 DEF Coming
  <2> QED BY <1>0, <1>1, <1>6, <2>1, <2>5, <2>9, <2>10, <2>11, RecallPut
<1>12. CASE Recall(n)!ExtractionFails(j)
  <2> DEFINE x == [pc |-> "idle"]
  <2>1. job' = [job EXCEPT ![j] = x] /\ recalled' = recalled
        /\ pending' = [pending EXCEPT ![s] = FALSE] /\ neglected' = neglected \cup {s}
    BY <1>4, <1>12 DEF Recall!ExtractionFails, Recall!Work, Recall!Idle
  <2>2. Extracting(n, x, said) BY DEF Extracting
  <2> HIDE DEF x
  <2>3. pending' \in [Recalls[n].chats -> BOOLEAN] /\ ~pending'[s]
        /\ \A c \in Recalls[n].chats \ {s} : pending'[c] = pending[c]
    BY <1>2, <2>1
  <2>4. RecallChats(n)' BY <1>0, <2>1, <2>3 DEF RecallInv, RecallChats
  <2>5. \A c \in Recalls[n].chats :
          /\ pending'[c] => pending[c] /\ ~Coming(job[j], c)
          /\ Waits(job[j], c, said[c]) => c \in neglected'
    BY <1>5, <2>1, <2>3
  <2>6. \A c \in Recalls[n].chats : recalled[c] <= recalled'[c] BY <1>2, <2>1
  <2> QED BY <1>0, <1>1, <1>6, <2>1, <2>2, <2>4, <2>5, <2>6, RecallPut
<1> QED BY <1>7, <1>8, <1>9, <1>10, <1>11, <1>12

\* A task that writes, or finds there is nothing to write, awaits no message any more.
LEMMA RecallWritesPut ==
  ASSUME NEW n \in DOMAIN Recalls, RecallInv(n), NEW j \in Recalls[n].jobs, NEW x,
         \A c \in Recalls[n].chats : ~Coming(job[j], c) /\ ~Waits(job[j], c, said[c]),
         job' = [job EXCEPT ![j] = x], Extracting(n, x, said),
         said' = said, recalled' = recalled, lastActive' = lastActive, pending' = pending,
         toucher' = toucher, neglected' = neglected, RecallStores(n)'
  PROVE  RecallInv(n)'
<1>1. RecallChats(n)' BY DEF RecallInv, RecallChats
<1>3. \A c \in Recalls[n].chats : recalled[c] <= recalled'[c]
  <2>1. \A c \in Recalls[n].chats : recalled[c] \in Nat BY DEF RecallInv, RecallChats
  <2> QED BY <2>1
<1> QED BY <1>1, <1>3, RecallPut

\* A point is written: nothing is lost if what it held is written again, or if the count
\* starts again, and the edits of it that are under way know.
LEMMA RecallPointWritten ==
  ASSUME NEW n \in DOMAIN Recalls, RecallInv(n), NEW p \in Recalls[n].points,
         NEW t \in SUBSET Recalls[n].texts, memory' = [memory EXCEPT ![p] = t],
         altered' = altered \cup Recall(n)!Disturbed(p),
         learned' = {} \/ (learned' = learned \cup t /\ memory[p] \subseteq t),
         UNCHANGED <<snapshot, memoEditor>>
  PROVE  RecallStores(n)'
<1>1. memory \in [Recalls[n].points -> SUBSET Recalls[n].texts] BY DEF RecallInv, RecallStores
<1>2. memory' \in [Recalls[n].points -> SUBSET Recalls[n].texts] /\ memory'[p] = t
      /\ \A q \in Recalls[n].points \ {p} : memory'[q] = memory[q]
  BY <1>1
<1>3. ASSUME NEW e \in Recalls[n].editors, memoEditor[e].pc = "write", e \notin altered'
      PROVE  memory'[memoEditor[e].at] = memoEditor[e].old
  <2>1. memoEditor[e] \in Editing(n) BY <1>3 DEF RecallInv, RecallStores
  <2>2. PICK q \in Recalls[n].points : q = memoEditor[e].at BY <2>1 DEF Editing
  <2>3. e \notin Recall(n)!Disturbed(p) /\ e \notin altered BY <1>3
  <2>4. q # p BY <1>3, <2>2, <2>3 DEF Recall!Disturbed
  <2>5. memory[q] = memoEditor[e].old BY <1>3, <2>2, <2>3 DEF RecallInv, RecallStores
  <2> QED BY <1>2, <2>2, <2>4, <2>5
<1>4. Somewhere(n)'
  <2>1. CASE learned' = {} BY <2>1 DEF Somewhere
  <2>2. CASE learned' = learned \cup t /\ memory[p] \subseteq t
    <3>1. Somewhere(n) BY DEF RecallInv, RecallStores
    <3>2. \A q \in Recalls[n].points : memory[q] \subseteq memory'[q] BY <1>2, <2>2
    <3>3. ASSUME NEW f \in learned'
          PROVE  \/ \E q \in Recalls[n].points : f \in memory'[q]
                 \/ \E x \in snapshot : f \in x.old
                 \/ \E e \in Recalls[n].editors : memoEditor[e].pc = "commit"
                                                  /\ f \in memoEditor[e].old
      BY <1>2, <2>2, <3>1, <3>2, <3>3 DEF Somewhere
    <3> QED BY <3>3 DEF Somewhere
  <2> QED BY <2>1, <2>2
<1> QED BY <1>2, <1>3, <1>4 DEF RecallInv, RecallStores, Editing

\* The guard searches, merges a fact into a point or adds one, or the write fails.
LEMMA RecallGuards ==
  ASSUME NEW n \in DOMAIN Recalls, RecallInv(n), NEW j \in Recalls[n].jobs,
         \/ Recall(n)!GuardSearch(j) \/ Recall(n)!GuardSave(j) \/ Recall(n)!GuardAdd(j)
         \/ Recall(n)!SaveFails(j)
  PROVE  RecallInv(n)'
<1>0. UNCHANGED <<said, recalled, lastActive, pending, toucher, neglected>>
  BY DEF Recall!GuardSearch, Recall!GuardSave, Recall!GuardAdd, Recall!SaveFails
<1>g. job[j].pc \in {"guard", "save", "add"}
  BY DEF Recall!GuardSearch, Recall!GuardSave, Recall!GuardAdd, Recall!SaveFails, RecallInv
<1>1. Extracting(n, job[j], said) BY DEF RecallInv
<1>w. \A c \in Recalls[n].chats : ~Coming(job[j], c) /\ ~Waits(job[j], c, said[c])
  BY <1>g DEF Coming, Waits
<1>r. RecallInv(n) OBVIOUS
<1>2. PICK s \in Recalls[n].chats : s = job[j].of BY <1>1, <1>g DEF Extracting
<1>3. memory \in [Recalls[n].points -> SUBSET Recalls[n].texts] BY DEF RecallInv, RecallStores
<1>4. ASSUME job' = [job EXCEPT ![j] = [pc |-> "idle"]], RecallStores(n)'
      PROVE  RecallInv(n)'
  <2> DEFINE x == [pc |-> "idle"]
  <2>1. job' = [job EXCEPT ![j] = x] /\ x.pc = "idle" /\ Extracting(n, x, said)
    BY <1>4 DEF Extracting
  <2> HIDE DEF x
  <2> QED BY <1>0, <1>w, <1>r, <1>4, <2>1, RecallWritesPut
<1>5. CASE Recall(n)!GuardSearch(j)
  <2>1. UNCHANGED <<memory, snapshot, memoEditor, altered, learned>>
    BY <1>5 DEF Recall!GuardSearch, Recall!stores
  <2>2. RecallStores(n)' BY <2>1, RecallStoresStay
  <2>3. PICK f \in Recalls[n].texts : f = job[j].fact
    BY <1>1, <1>5 DEF Recall!GuardSearch, Extracting
  <2>4. CASE Recall(n)!Work(j, Recall(n)!Idle)
    BY <1>4, <2>2, <2>4 DEF Recall!Work, Recall!Idle
  <2>5. CASE \E p \in Recalls[n].points :
               job' = [job EXCEPT ![j] = [pc |-> "save", of |-> s, at |-> p, fact |-> f,
                                          text |-> memory[p] \cup {f}]]
    <3>1. PICK p \in Recalls[n].points :
            job' = [job EXCEPT ![j] = [pc |-> "save", of |-> s, at |-> p, fact |-> f,
                                       text |-> memory[p] \cup {f}]]
      BY <2>5
    <3> DEFINE x == [pc |-> "save", of |-> s, at |-> p, fact |-> f, text |-> memory[p] \cup {f}]
    <3>2. job' = [job EXCEPT ![j] = x] BY <3>1
    <3>3. memory[p] \cup {f} \subseteq Recalls[n].texts BY <1>3
    <3>4. x.pc = "save" /\ Extracting(n, x, said) BY <3>3 DEF Extracting
    <3> HIDE DEF x
    <3> QED BY <1>0, <1>w, <1>r, <2>2, <3>2, <3>4, RecallWritesPut
  <2>6. CASE job' = [job EXCEPT ![j] = [pc |-> "add", of |-> s, text |-> {f}]]
    <3> DEFINE x == [pc |-> "add", of |-> s, text |-> {f}]
    <3>1. job' = [job EXCEPT ![j] = x] BY <2>6
    <3>2. {f} \subseteq Recalls[n].texts OBVIOUS
    <3>3. x.pc = "add" /\ Extracting(n, x, said) BY <3>2 DEF Extracting
    <3> HIDE DEF x
    <3> QED BY <1>0, <1>w, <1>r, <2>2, <3>1, <3>3, RecallWritesPut
  <2> QED BY <1>2, <1>5, <2>3, <2>4, <2>5, <2>6 DEF Recall!GuardSearch, Recall!Work
<1>6. CASE Recall(n)!GuardSave(j)
  <2>1. PICK p \in Recalls[n].points : p = job[j].at
    BY <1>1, <1>g, <1>6 DEF Recall!GuardSave, Extracting
  <2>2. PICK t \in SUBSET Recalls[n].texts : t = job[j].text
    BY <1>1, <1>g, <1>6 DEF Recall!GuardSave, Extracting
  <2>3. /\ memory' = [memory EXCEPT ![p] = t]
        /\ altered' = altered \cup Recall(n)!Disturbed(p)
        /\ UNCHANGED <<snapshot, memoEditor>>
        /\ job' = [job EXCEPT ![j] = [pc |-> "idle"]]
    BY <1>6, <2>1, <2>2 DEF Recall!GuardSave, Recall!Work, Recall!Idle
  <2>4. learned' = IF memory[p] = t \ {job[j].fact} THEN learned \cup t ELSE {}
    BY <1>6, <2>1, <2>2 DEF Recall!GuardSave
  <2>5. learned' = {} \/ (learned' = learned \cup t /\ memory[p] \subseteq t) BY <2>4
  <2>6. RecallStores(n)' BY <2>3, <2>5, RecallPointWritten
  <2> QED BY <1>4, <2>3, <2>6
<1>7. CASE Recall(n)!GuardAdd(j)
  <2>1. PICK t \in SUBSET Recalls[n].texts : t = job[j].text
    BY <1>1, <1>g, <1>7 DEF Recall!GuardAdd, Extracting
  <2>2. PICK p \in Recalls[n].points :
          /\ Recall(n)!NewPoint(p) /\ memory' = [memory EXCEPT ![p] = t]
          /\ learned' = learned \cup t /\ UNCHANGED <<snapshot, memoEditor, altered>>
          /\ job' = [job EXCEPT ![j] = [pc |-> "idle"]]
    BY <1>7, <2>1 DEF Recall!GuardAdd, Recall!Work, Recall!Idle
  <2>3. memory[p] = {} /\ Recall(n)!Disturbed(p) = {}
    BY <2>2 DEF Recall!NewPoint, Recall!NoPoint
  <2>4. altered' = altered \cup Recall(n)!Disturbed(p) /\ memory[p] \subseteq t BY <2>2, <2>3
  <2>5. RecallStores(n)' BY <2>2, <2>4, RecallPointWritten
  <2> QED BY <1>4, <2>2, <2>5
<1>8. CASE Recall(n)!SaveFails(j)
  <2>1. UNCHANGED <<memory, snapshot, memoEditor, altered, learned>>
        /\ job' = [job EXCEPT ![j] = [pc |-> "idle"]]
    BY <1>8 DEF Recall!SaveFails, Recall!stores, Recall!Work, Recall!Idle
  <2>2. RecallStores(n)' BY <2>1, RecallStoresStay
  <2> QED BY <1>4, <2>1, <2>2
<1> QED BY <1>5, <1>6, <1>7, <1>8

\* The user's edits leave conversations and tasks alone.
LEMMA RecallEditsPut ==
  ASSUME NEW n \in DOMAIN Recalls, RecallInv(n), Recall(n)!chats' = Recall(n)!chats,
         RecallStores(n)'
  PROVE  RecallInv(n)'
<1>1. UNCHANGED <<said, recalled, lastActive, pending, toucher, job, neglected>>
  BY DEF Recall!chats
<1>2. RecallChats(n)' BY <1>1 DEF RecallInv, RecallChats
<1>3. \A k \in Recalls[n].jobs : Extracting(n, job[k], said)' BY <1>1 DEF RecallInv, Extracting
<1>4. \A s \in Recalls[n].chats : pending'[s] => \E k \in Recalls[n].jobs : Coming(job[k], s)'
  BY <1>1 DEF RecallInv, Coming
<1>5. \A s \in Recalls[n].chats :
        \/ said'[s] <= recalled'[s] \/ s \in neglected' \/ s \in toucher'
        \/ \E k \in Recalls[n].jobs : Waits(job[k], s, said[s])'
  BY <1>1 DEF RecallInv, Waits
<1>6. job' = [k \in Recalls[n].jobs |-> job'[k]] BY <1>1 DEF RecallInv
<1> QED BY <1>2, <1>3, <1>4, <1>5, <1>6 DEF RecallInv

\* An edit starts: the point holds what the edit has read.
LEMMA RecallEditStarts ==
  ASSUME NEW n \in DOMAIN Recalls, RecallInv(n), NEW e \in Recalls[n].editors,
         NEW p \in Recalls[n].points, NEW op \in {"update", "delete", "rollback"},
         NEW new \in SUBSET Recalls[n].texts, memoEditor[e].pc = "idle",
         memoEditor' = [memoEditor EXCEPT ![e] =
           [pc |-> "write", op |-> op, at |-> p, old |-> memory[p], new |-> new]],
         altered' = altered \ {e},
         UNCHANGED <<Recall(n)!chats, memory, snapshot, learned>>
  PROVE  RecallInv(n)'
<1> DEFINE x == [pc |-> "write", op |-> op, at |-> p, old |-> memory[p], new |-> new]
<1>1. memory \in [Recalls[n].points -> SUBSET Recalls[n].texts]
      /\ memoEditor = [d \in Recalls[n].editors |-> memoEditor[d]]
  BY DEF RecallInv, RecallStores
<1>2. memoEditor' = [memoEditor EXCEPT ![e] = x] OBVIOUS
<1>3. x \in Editing(n) /\ x.pc = "write" /\ memory[x.at] = x.old BY <1>1 DEF Editing
<1> HIDE DEF x
<1>4. memoEditor' = [d \in Recalls[n].editors |-> memoEditor'[d]] /\ memoEditor'[e] = x
      /\ \A d \in Recalls[n].editors \ {e} : memoEditor'[d] = memoEditor[d]
  BY <1>1, <1>2
<1>5. \A d \in Recalls[n].editors : memoEditor'[d].pc = "idle" \/ memoEditor'[d] \in Editing(n)
  BY <1>3, <1>4 DEF RecallInv, RecallStores
<1>6. \A d \in Recalls[n].editors :
        memoEditor'[d].pc = "write" /\ d \notin altered'
          => memory[memoEditor'[d].at] = memoEditor'[d].old
  BY <1>3, <1>4 DEF RecallInv, RecallStores
<1>7. Somewhere(n)'
  <2>1. \A d \in Recalls[n].editors :
          memoEditor[d].pc = "commit" => memoEditor'[d].pc = "commit" /\ memoEditor'[d] = memoEditor[d]
    BY <1>4
  <2>2. Somewhere(n) BY DEF RecallInv, RecallStores
  <2>3. \A f \in learned :
          \/ \E q \in Recalls[n].points : f \in memory[q]
          \/ \E y \in snapshot : f \in y.old
          \/ \E d \in Recalls[n].editors : memoEditor'[d].pc = "commit" /\ f \in memoEditor'[d].old
    BY <2>1, <2>2 DEF Somewhere
  <2> QED BY <2>3 DEF Somewhere
<1>8. RecallStores(n)' BY <1>1, <1>4, <1>5, <1>6, <1>7 DEF RecallInv, RecallStores, Editing
<1> QED BY <1>8, RecallEditsPut

\* An edit goes on: the point is written, the snapshot committed, or it fails.
LEMMA RecallEditMoves ==
  ASSUME NEW n \in DOMAIN Recalls, RecallInv(n), NEW e \in Recalls[n].editors,
         \/ Recall(n)!WritePoint(e) \/ Recall(n)!CommitEdit(e) \/ Recall(n)!EditFails(e)
  PROVE  RecallInv(n)'
<1>0. UNCHANGED Recall(n)!chats
  BY DEF Recall!WritePoint, Recall!CommitEdit, Recall!EditFails
<1>1. /\ memory \in [Recalls[n].points -> SUBSET Recalls[n].texts]
      /\ memoEditor = [d \in Recalls[n].editors |-> memoEditor[d]]
      /\ snapshot \subseteq [at : Recalls[n].points, old : SUBSET Recalls[n].texts]
      /\ \A d \in Recalls[n].editors : memoEditor[d].pc = "idle" \/ memoEditor[d] \in Editing(n)
  BY DEF RecallInv, RecallStores
<1>2. \A d \in Recalls[n].editors :
        memoEditor[d].pc = "write" /\ d \notin altered => memory[memoEditor[d].at] = memoEditor[d].old
  BY DEF RecallInv, RecallStores
<1>3. Somewhere(n) BY DEF RecallInv, RecallStores
<1>4. memoEditor[e] \in Editing(n)
  BY <1>1 DEF Recall!WritePoint, Recall!CommitEdit, Recall!EditFails
<1>5. PICK p \in Recalls[n].points : p = memoEditor[e].at BY <1>4 DEF Editing
<1>6. memoEditor[e].old \subseteq Recalls[n].texts /\ memoEditor[e].new \subseteq Recalls[n].texts
  BY <1>4 DEF Editing
<1>7. CASE Recall(n)!WritePoint(e)
  <2>1. /\ memoEditor[e].pc = "write" /\ memory' = [memory EXCEPT ![p] = memoEditor[e].new]
        /\ altered' = altered \cup (Recall(n)!Disturbed(p) \ {e}) /\ snapshot' = snapshot
        /\ learned' = IF e \in altered THEN {} ELSE learned
        /\ memoEditor' = [memoEditor EXCEPT ![e].pc = "commit"]
    BY <1>5, <1>7 DEF Recall!WritePoint
  <2>2. memory' \in [Recalls[n].points -> SUBSET Recalls[n].texts]
        /\ \A q \in Recalls[n].points \ {p} : memory'[q] = memory[q]
    BY <1>1, <1>6, <2>1
  <2>3. /\ memoEditor' = [d \in Recalls[n].editors |-> memoEditor'[d]]
        /\ memoEditor'[e] = [memoEditor[e] EXCEPT !.pc = "commit"]
        /\ \A d \in Recalls[n].editors \ {e} : memoEditor'[d] = memoEditor[d]
    BY <1>1, <2>1
  <2>4. memoEditor'[e] \in Editing(n) /\ memoEditor'[e].pc = "commit"
        /\ memoEditor'[e].old = memoEditor[e].old
    BY <1>4, <2>3 DEF Editing
  <2>5. \A d \in Recalls[n].editors : memoEditor'[d].pc = "idle" \/ memoEditor'[d] \in Editing(n)
    BY <1>1, <2>3, <2>4
  <2>6. ASSUME NEW d \in Recalls[n].editors, memoEditor'[d].pc = "write", d \notin altered'
        PROVE  memory'[memoEditor'[d].at] = memoEditor'[d].old
    <3>1. d # e /\ memoEditor'[d] = memoEditor[d] BY <2>3, <2>4, <2>6
    <3>2. memoEditor[d] \in Editing(n) BY <1>1, <2>6, <3>1
    <3>3. PICK q \in Recalls[n].points : q = memoEditor[d].at BY <3>2 DEF Editing
    <3>4. d \notin Recall(n)!Disturbed(p) /\ d \notin altered BY <2>1, <2>6, <3>1
    <3>5. q # p BY <2>6, <3>1, <3>3, <3>4 DEF Recall!Disturbed
    <3> QED BY <1>2, <2>2, <2>6, <3>1, <3>3, <3>4, <3>5
  <2>7. Somewhere(n)'
    <3>1. CASE e \in altered BY <2>1, <3>1 DEF Somewhere
    <3>2. CASE e \notin altered
      <4>1. memory[p] = memoEditor'[e].old BY <1>2, <1>5, <2>1, <2>4, <3>2
      <4>2. ASSUME NEW f \in learned'
            PROVE  \/ \E q \in Recalls[n].points : f \in memory'[q]
                   \/ \E x \in snapshot : f \in x.old
                   \/ \E d \in Recalls[n].editors : memoEditor'[d].pc = "commit"
                                                    /\ f \in memoEditor'[d].old
        <5>1. f \in learned BY <2>1, <3>2, <4>2
        <5>2. CASE \E q \in Recalls[n].points : f \in memory[q] BY <2>2, <2>4, <4>1, <5>2
        <5>3. CASE \E x \in snapshot : f \in x.old BY <5>3
        <5>4. CASE \E d \in Recalls[n].editors : memoEditor[d].pc = "commit" /\ f \in memoEditor[d].old
          BY <2>1, <2>3, <5>4
        <5> QED BY <1>3, <5>1, <5>2, <5>3, <5>4 DEF Somewhere
      <4> QED BY <2>1, <4>2 DEF Somewhere
    <3> QED BY <3>1, <3>2
  <2>8. RecallStores(n)' BY <1>1, <2>1, <2>2, <2>3, <2>5, <2>6, <2>7 DEF RecallStores, Editing
  <2> QED BY <1>0, <2>8, RecallEditsPut
<1>8. CASE Recall(n)!CommitEdit(e)
  <2> DEFINE y == [at |-> memoEditor[e].at, old |-> memoEditor[e].old]
  <2>1. /\ memoEditor[e].pc = "commit" /\ memory' = memory /\ altered' = altered
        /\ learned' = learned /\ snapshot' = snapshot \cup {y}
        /\ memoEditor' = [memoEditor EXCEPT ![e] = [pc |-> "idle"]]
    BY <1>8 DEF Recall!CommitEdit, Recall!Idle
  <2>2. y \in [at : Recalls[n].points, old : SUBSET Recalls[n].texts] /\ y.old = memoEditor[e].old
    BY <1>5, <1>6
  <2> HIDE DEF y
  <2>3. snapshot' \subseteq [at : Recalls[n].points, old : SUBSET Recalls[n].texts]
    BY <1>1, <2>1, <2>2
  <2>4. /\ memoEditor' = [d \in Recalls[n].editors |-> memoEditor'[d]]
        /\ memoEditor'[e].pc = "idle"
        /\ \A d \in Recalls[n].editors \ {e} : memoEditor'[d] = memoEditor[d]
    BY <1>1, <2>1
  <2>5. \A d \in Recalls[n].editors : memoEditor'[d].pc = "idle" \/ memoEditor'[d] \in Editing(n)
    BY <1>1, <2>4
  <2>6. \A d \in Recalls[n].editors :
          memoEditor'[d].pc = "write" /\ d \notin altered => memory[memoEditor'[d].at] = memoEditor'[d].old
    BY <1>2, <2>4
  <2>7. Somewhere(n)'
    <3>1. ASSUME NEW f \in learned
          PROVE  \/ \E q \in Recalls[n].points : f \in memory[q]
                 \/ \E x \in snapshot' : f \in x.old
                 \/ \E d \in Recalls[n].editors : memoEditor'[d].pc = "commit"
                                                  /\ f \in memoEditor'[d].old
      <4>1. CASE \E q \in Recalls[n].points : f \in memory[q] BY <4>1
      <4>2. CASE \E x \in snapshot : f \in x.old BY <2>1, <4>2
      <4>3. CASE \E d \in Recalls[n].editors : memoEditor[d].pc = "commit" /\ f \in memoEditor[d].old
        <5>1. PICK d \in Recalls[n].editors : memoEditor[d].pc = "commit" /\ f \in memoEditor[d].old
          BY <4>3
        <5>2. CASE d = e
          <6>1. y \in snapshot' /\ f \in y.old BY <2>1, <2>2, <5>1, <5>2
          <6> QED BY <6>1
        <5>3. CASE d # e BY <2>4, <5>1, <5>3
        <5> QED BY <5>2, <5>3
      <4> QED BY <1>3, <4>1, <4>2, <4>3 DEF Somewhere
    <3> QED BY <2>1, <3>1 DEF Somewhere
  <2>8. RecallStores(n)' BY <1>1, <2>1, <2>3, <2>4, <2>5, <2>6, <2>7 DEF RecallStores, Editing
  <2> QED BY <1>0, <2>8, RecallEditsPut
<1>9. CASE Recall(n)!EditFails(e)
  <2>1. /\ memory' = memory /\ altered' = altered /\ snapshot' = snapshot
        /\ learned' = IF memoEditor[e].pc = "commit" THEN {} ELSE learned
        /\ memoEditor' = [memoEditor EXCEPT ![e] = [pc |-> "idle"]]
    BY <1>9 DEF Recall!EditFails, Recall!Idle
  <2>4. /\ memoEditor' = [d \in Recalls[n].editors |-> memoEditor'[d]]
        /\ memoEditor'[e].pc = "idle"
        /\ \A d \in Recalls[n].editors \ {e} : memoEditor'[d] = memoEditor[d]
    BY <1>1, <2>1
  <2>5. \A d \in Recalls[n].editors : memoEditor'[d].pc = "idle" \/ memoEditor'[d] \in Editing(n)
    BY <1>1, <2>4
  <2>6. \A d \in Recalls[n].editors :
          memoEditor'[d].pc = "write" /\ d \notin altered => memory[memoEditor'[d].at] = memoEditor'[d].old
    BY <1>2, <2>4
  <2>7. Somewhere(n)'
    <3>1. CASE memoEditor[e].pc = "commit" BY <2>1, <3>1 DEF Somewhere
    <3>2. CASE memoEditor[e].pc # "commit"
      <4>1. \A d \in Recalls[n].editors : memoEditor[d].pc = "commit"
                                          => memoEditor'[d].pc = "commit" /\ memoEditor'[d] = memoEditor[d]
        BY <2>4, <3>2
      <4> QED BY <1>3, <2>1, <3>2, <4>1 DEF Somewhere
    <3> QED BY <3>1, <3>2
  <2>8. RecallStores(n)' BY <1>1, <2>1, <2>4, <2>5, <2>6, <2>7 DEF RecallStores, Editing
  <2> QED BY <1>0, <2>8, RecallEditsPut
<1> QED BY <1>7, <1>8, <1>9

\* The user clears the memories.
LEMMA RecallClears ==
  ASSUME NEW n \in DOMAIN Recalls, RecallInv(n), Recall(n)!ClearMemories
  PROVE  RecallInv(n)'
<1>1. /\ UNCHANGED Recall(n)!chats /\ snapshot' = snapshot /\ memoEditor' = memoEditor
      /\ memory' = [p \in Recalls[n].points |-> {}] /\ learned' = {}
      /\ altered' = altered \cup {e \in Recalls[n].editors : memoEditor[e].pc # "idle"}
  BY DEF Recall!ClearMemories, Recall!NoPoint
<1>2. memory' \in [Recalls[n].points -> SUBSET Recalls[n].texts] BY <1>1
<1>3. Somewhere(n)' BY <1>1 DEF Somewhere
<1>4. \A e \in Recalls[n].editors : memoEditor[e].pc = "write" => e \in altered' BY <1>1
<1>5. RecallStores(n)' BY <1>1, <1>2, <1>3, <1>4 DEF RecallInv, RecallStores, Editing
<1> QED BY <1>1, <1>5, RecallEditsPut

LEMMA RecallStep ==
  ASSUME NEW n \in DOMAIN Recalls, RecallInv(n), Recall(n)!Next
  PROVE  RecallInv(n)'
<1>1. ASSUME NEW s \in Recalls[n].chats,
             \/ Recall(n)!Append(s) \/ Recall(n)!Touch(s) \/ Recall(n)!TouchFails(s)
             \/ Recall(n)!PassThreeMinutes(s) \/ Recall(n)!PendingExpires(s)
      PROVE  RecallInv(n)'
  BY <1>1, RecallMessages, RecallTouch
<1>2. ASSUME NEW j \in Recalls[n].jobs,
             \/ Recall(n)!JobStep(j) \/ Recall(n)!ExtractionFails(j) \/ Recall(n)!SaveFails(j)
      PROVE  RecallInv(n)'
  BY <1>2, RecallWorks, RecallGuards DEF Recall!JobStep
<1>3. ASSUME NEW e \in Recalls[n].editors,
             \/ Recall(n)!WritePoint(e) \/ Recall(n)!CommitEdit(e) \/ Recall(n)!EditFails(e)
      PROVE  RecallInv(n)'
  BY <1>3, RecallEditMoves
<1>4. ASSUME NEW e \in Recalls[n].editors, NEW p \in Recalls[n].points, Recall(n)!DeleteMemory(e, p)
      PROVE  RecallInv(n)'
  <2>1. /\ memoEditor[e].pc = "idle" /\ altered' = altered \ {e}
        /\ UNCHANGED <<Recall(n)!chats, memory, snapshot, learned>>
        /\ memoEditor' = [memoEditor EXCEPT ![e] =
             [pc |-> "write", op |-> "delete", at |-> p, old |-> memory[p], new |-> {}]]
    BY <1>4 DEF Recall!DeleteMemory, Recall!StartEdit, Recall!NoPoint
  <2>2. {} \in SUBSET Recalls[n].texts OBVIOUS
  <2>3. "delete" \in {"update", "delete", "rollback"} OBVIOUS
  <2> QED BY <2>1, <2>2, <2>3, RecallEditStarts
<1>5. ASSUME NEW e \in Recalls[n].editors, NEW p \in Recalls[n].points, NEW t \in Recalls[n].texts,
             Recall(n)!UpdateMemory(e, p, t)
      PROVE  RecallInv(n)'
  <2>1. /\ memoEditor[e].pc = "idle" /\ altered' = altered \ {e}
        /\ UNCHANGED <<Recall(n)!chats, memory, snapshot, learned>>
        /\ memoEditor' = [memoEditor EXCEPT ![e] =
             [pc |-> "write", op |-> "update", at |-> p, old |-> memory[p], new |-> {t}]]
    BY <1>5 DEF Recall!UpdateMemory, Recall!StartEdit
  <2>2. {t} \in SUBSET Recalls[n].texts OBVIOUS
  <2>3. "update" \in {"update", "delete", "rollback"} OBVIOUS
  <2> QED BY <2>1, <2>2, <2>3, RecallEditStarts
<1>6. ASSUME NEW e \in Recalls[n].editors, NEW p \in Recalls[n].points,
             Recall(n)!RollbackMemory(e, p)
      PROVE  RecallInv(n)'
  <2>1. PICK x \in snapshot :
        /\ memoEditor[e].pc = "idle" /\ altered' = altered \ {e}
        /\ UNCHANGED <<Recall(n)!chats, memory, snapshot, learned>>
        /\ memoEditor' = [memoEditor EXCEPT ![e] =
             [pc |-> "write", op |-> "rollback", at |-> p, old |-> memory[p], new |-> x.old]]
    BY <1>6 DEF Recall!RollbackMemory
  <2>2. x.old \in SUBSET Recalls[n].texts BY DEF RecallInv, RecallStores
  <2>3. "rollback" \in {"update", "delete", "rollback"} OBVIOUS
  <2> QED BY <2>1, <2>2, <2>3, RecallEditStarts
<1> QED BY <1>1, <1>2, <1>3, <1>4, <1>5, <1>6, RecallClears DEF Recall!Next

\* Types hold, no message is forgotten and nothing that was learned is lost.
LEMMA RecallPromise ==
  ASSUME NEW n \in DOMAIN Recalls, RecallInv(n)
  PROVE  Recall(n)!TypeOK /\ Recall(n)!MessageAwaited /\ Recall(n)!NothingForgotten
<1>1. /\ said \in [Recalls[n].chats -> 0..Recalls[n].messages]
      /\ recalled \in [Recalls[n].chats -> Nat]
      /\ \A s \in Recalls[n].chats : said[s] \in Nat /\ recalled[s] \in Nat /\ recalled[s] <= said[s]
  BY DEF RecallInv, RecallChats
<1>2. \A s \in Recalls[n].chats : recalled[s] \in 0..said[s] BY <1>1
<1>3. \A j \in Recalls[n].jobs :
        job[j].pc \in {"idle", "queued", "drop", "load", "ask", "guard", "save", "add"}
  BY DEF RecallInv, Extracting
<1>4. \A e \in Recalls[n].editors : memoEditor[e].pc \in {"idle", "write", "commit"}
  BY DEF RecallInv, RecallStores, Editing
<1>5. Recall(n)!TypeOK
  BY <1>1, <1>2, <1>3, <1>4
     DEF Recall!TypeOK, Recall!SnapshotRows, RecallInv, RecallChats, RecallStores
<1>6. Recall(n)!MessageAwaited
  <2>1. ASSUME NEW s \in Recalls[n].chats, said[s] > recalled[s], s \notin neglected,
               s \notin toucher
        PROVE  \/ \E j \in Recalls[n].jobs : job[j].pc \in {"queued", "drop", "load"} /\ job[j].of = s
               \/ \E j \in Recalls[n].jobs :
                    job[j].pc = "ask" /\ job[j].of = s /\ job[j].upto = said[s]
    <3>1. PICK j \in Recalls[n].jobs : Waits(job[j], s, said[s])
      BY <1>1, <2>1 DEF RecallInv
    <3> QED BY <3>1 DEF Waits
  <2> QED BY <2>1 DEF Recall!MessageAwaited
<1>7. Recall(n)!NothingForgotten BY DEF Somewhere, Recall!NothingForgotten, RecallInv, RecallStores
<1> QED BY <1>5, <1>6, <1>7

-----------------------------------------------------------------------------
(* The tool servers: the index is the rows', up to what handlers have done to one of the two
   and not yet to the other. *)

\* Who reads rows, by what is kept of them.
Fetching(n) ==
  [pc : {"fetch", "index"}, after : {"none", "feed"}, todo : SUBSET Connectors[n].servers,
   seen : [Connectors[n].servers -> Connector(n)!ServerRows],
   got : [Connectors[n].servers -> Connector(n)!Caches],
   at : Connectors[n].servers \cup {"none"}]

Wiping(n) ==
  [pc : {"wipe", "drop"}, of : SUBSET Connectors[n].servers, then : {"keep", "delete", "source"}]

\* A request's or task's record.
Handling(n, r) ==
  /\ r.pc \in {"idle", "select", "fetch", "index", "wipe", "drop", "switch", "switched", "feed",
               "rows", "search", "chat"}
  /\ r.pc \in {"select", "feed"} => r.after \in {"none", "feed"}
  /\ r.pc \in {"fetch", "index"} =>
       /\ r \in Fetching(n)
       /\ \A s \in Connectors[n].servers :
            /\ s \in r.todo => r.seen[s].there /\ r.got[s] = r.seen[s].cache
            /\ r.got[s] # r.seen[s].cache => r.seen[s].there
  /\ r.pc = "index" => r.at \in Connectors[n].servers /\ r.seen[r.at].there /\ r.at \notin r.todo
  /\ r.pc \in {"wipe", "drop"} => r \in Wiping(n)
  /\ r.pc \in {"switch", "switched"} =>
       r.at \in Connectors[n].servers /\ r.off \in SUBSET Connectors[n].tools
  /\ r.pc = "switched" => r.cache \in Connector(n)!Caches
  /\ r.pc = "rows" => r.known \subseteq Connectors[n].sourced /\ r.remote \in BOOLEAN
  /\ r.pc = "chat" => r.tools \subseteq r.active

\* Its difference is in the index and not yet in the row; in the row, not yet in the index.
Dirty(r, s) ==
  /\ r.pc = "fetch" \/ (r.pc = "index" /\ r.at # s)
  /\ s \notin r.todo /\ r.got[s] # r.seen[s].cache
Behind(r, s) == r.pc = "switched" /\ r.at = s
Marked(r, s) == Dirty(r, s) \/ Behind(r, s)
Holding(r, s) ==
  \/ r.pc \in {"fetch", "index"} /\ r.seen[s].there
  \/ r.pc \in {"switch", "switched"} /\ r.at = s

\* What the one handler that is half through knows of the row and of its points.
Half(n, r, s, row, points) ==
  /\ Dirty(r, s) => /\ row.cache = r.seen[s].cache /\ row.off = r.seen[s].off
                    /\ points = Connector(n)!Enabled(r.got[s], row.off)
  /\ Behind(r, s) => /\ row.cache = r.cache /\ row.off = r.off
                     /\ points = Connector(n)!Enabled(r.cache, r.old)

\* The points of a server follow its row.
Kept(n, s) ==
  /\ (\A h \in Connectors[n].handlers : ~Marked(handler[h], s))
       => indexed[s] = Connector(n)!Enabled(server[s].cache, server[s].off)
  /\ \A h \in Connectors[n].handlers :
       /\ Marked(handler[h], s)
       /\ \A g \in Connectors[n].handlers \ {h} : ~Marked(handler[g], s)
       => Half(n, handler[h], s, server[s], indexed[s])
  /\ ~server[s].there =>
       server[s] = Connector(n)!NoServer /\ \A h \in Connectors[n].handlers : ~Holding(handler[h], s)

ConnectorRows(n) ==
  /\ server \in [Connectors[n].servers -> Connector(n)!ServerRows]
  /\ feed \in Connector(n)!FeedStatus
  /\ offers \in [Connectors[n].servers -> Connector(n)!Caches]
  /\ indexed \in [Connectors[n].servers -> Connector(n)!Caches]
  /\ apart \subseteq Connectors[n].servers /\ upsets \in Nat
  /\ \A s \in Connectors[n].servers : server[s].on => server[s].remote

ConnectorInv(n) ==
  /\ ConnectorRows(n)
  /\ handler = [h \in Connectors[n].handlers |-> handler[h]]
  /\ \A h \in Connectors[n].handlers : Handling(n, handler[h])
  /\ \A s \in Connectors[n].servers \ apart : Kept(n, s)

LEMMA ConnectorBounds ==
  ASSUME NEW n \in DOMAIN Connectors
  PROVE  /\ Connectors[n].sourced \subseteq Connectors[n].servers
         /\ 0 \in 0..Connectors[n].versions
         /\ Connector(n)!NoTools \in Connector(n)!Caches
         /\ Connector(n)!NoServer \in Connector(n)!ServerRows
         /\ Connector(n)!Enabled(Connector(n)!NoTools, {}) = Connector(n)!NoTools
         /\ Connector(n)!NoServer.cache = Connector(n)!NoTools /\ Connector(n)!NoServer.off = {}
         /\ ~Connector(n)!NoServer.there /\ ~Connector(n)!NoServer.on
<1>1. Connectors[n].versions \in Nat /\ Connectors[n].sourced \subseteq Connectors[n].servers
  BY AgentsAssumption
<1>2. 0 \in 0..Connectors[n].versions BY <1>1
<1>3. Connector(n)!NoTools \in Connector(n)!Caches BY <1>2 DEF Connector!NoTools, Connector!Caches
<1>4. Connector(n)!Enabled(Connector(n)!NoTools, {}) = Connector(n)!NoTools
  BY DEF Connector!NoTools, Connector!Enabled
<1> QED BY <1>1, <1>2, <1>3, <1>4 DEF Connector!NoServer, Connector!ServerRows

\* A marked handler holds the row.
LEMMA MarkedHolds ==
  ASSUME NEW n \in DOMAIN Connectors, NEW r, Handling(n, r), NEW s \in Connectors[n].servers,
         Marked(r, s)
  PROVE  Holding(r, s)
BY DEF Handling, Marked, Dirty, Behind, Holding

\* Who neither fetches nor switches has no mark and holds nothing.
LEMMA PlainIsUnmarked ==
  ASSUME NEW r, NEW s, r.pc \notin {"fetch", "index", "switch", "switched"}
  PROVE  ~Marked(r, s) /\ ~Holding(r, s)
BY DEF Marked, Dirty, Behind, Holding

LEMMA ConnectorInit ==
  ASSUME NEW n \in DOMAIN Connectors, Connector(n)!Init
  PROVE  ConnectorInv(n)
<1>1. \A h \in Connectors[n].handlers : handler[h] = [pc |-> "idle"]
  BY DEF Connector!Init, Connector!Idle
<1>2. \A h \in Connectors[n].handlers : handler[h].pc = "idle" BY <1>1
<1>3. \A h \in Connectors[n].handlers : Handling(n, handler[h]) BY <1>2 DEF Handling
<1>4. \A s \in Connectors[n].servers : server[s] = Connector(n)!NoServer
                                       /\ indexed[s] = Connector(n)!NoTools
  BY DEF Connector!Init
<1>5. ConnectorRows(n)
  BY <1>4, ConnectorBounds DEF Connector!Init, ConnectorRows, Connector!FeedStatus
<1>6. \A h \in Connectors[n].handlers, s \in Connectors[n].servers :
        ~Marked(handler[h], s) /\ ~Holding(handler[h], s)
  BY <1>2, PlainIsUnmarked
<1>7. \A s \in Connectors[n].servers : Kept(n, s) BY <1>4, <1>6, ConnectorBounds DEF Kept
<1>8. handler = [h \in Connectors[n].handlers |-> handler[h]] BY DEF Connector!Init
<1> QED BY <1>3, <1>5, <1>7, <1>8 DEF ConnectorInv

LEMMA ConnectorPut ==
  ASSUME NEW n \in DOMAIN Connectors, ConnectorInv(n), NEW h \in Connectors[n].handlers, NEW x,
         handler' = [handler EXCEPT ![h] = x], Handling(n, x), ConnectorRows(n)',
         \A s \in Connectors[n].servers \ apart' : Kept(n, s)'
  PROVE  ConnectorInv(n)'
<1>1. handler' = [g \in Connectors[n].handlers |-> handler'[g]] /\ handler'[h] = x
      /\ \A g \in Connectors[n].handlers \ {h} : handler'[g] = handler[g]
  BY DEF ConnectorInv
<1>2. \A g \in Connectors[n].handlers : Handling(n, handler'[g]) BY <1>1 DEF ConnectorInv
<1>3. \A g \in Connectors[n].handlers : Handling(n, handler[g])' 
  BY <1>2 DEF Handling, Fetching, Wiping, Connector!ServerRows, Connector!Caches
<1> QED BY <1>1, <1>3 DEF ConnectorInv

\* The points of a server follow its row as before when neither has changed and the handler
\* that goes on becomes no more and no less half through them.
LEMMA KeptStays ==
  ASSUME NEW n \in DOMAIN Connectors, ConnectorInv(n), NEW h \in Connectors[n].handlers, NEW x,
         handler' = [handler EXCEPT ![h] = x], NEW s \in Connectors[n].servers \ apart,
         server'[s].cache = server[s].cache, server'[s].off = server[s].off,
         indexed'[s] = indexed[s],
         ~server'[s].there => server'[s] = server[s] /\ (Holding(x, s) => Holding(handler[h], s)),
         Marked(x, s) <=> Marked(handler[h], s),
         Marked(x, s) /\ Half(n, handler[h], s, server[s], indexed[s])
           => Half(n, x, s, server[s], indexed[s])
  PROVE  Kept(n, s)'
<1>1. handler'[h] = x /\ \A g \in Connectors[n].handlers \ {h} : handler'[g] = handler[g]
  BY DEF ConnectorInv
<1>2. Kept(n, s) BY DEF ConnectorInv
<1>3. \A g \in Connectors[n].handlers : Marked(handler'[g], s) <=> Marked(handler[g], s)
  BY <1>1
<1>4. (\A g \in Connectors[n].handlers : ~Marked(handler'[g], s))
        => indexed'[s] = Connector(n)!Enabled(server'[s].cache, server'[s].off)
  BY <1>2, <1>3 DEF Kept
<1>5. ASSUME NEW r PROVE Half(n, r, s, server[s], indexed[s]) = Half(n, r, s, server'[s], indexed'[s])
  BY DEF Half
<1>6. ASSUME NEW g \in Connectors[n].handlers, Marked(handler'[g], s),
             \A f \in Connectors[n].handlers \ {g} : ~Marked(handler'[f], s)
      PROVE  Half(n, handler'[g], s, server'[s], indexed'[s])
  <2>1. Half(n, handler[g], s, server[s], indexed[s]) BY <1>2, <1>3, <1>6 DEF Kept
  <2>2. CASE g = h BY <1>1, <1>5, <1>6, <2>1, <2>2
  <2>3. CASE g # h BY <1>1, <1>5, <2>1, <2>3
  <2> QED BY <2>2, <2>3
<1>7. ~server'[s].there =>
        server'[s] = Connector(n)!NoServer /\ \A g \in Connectors[n].handlers : ~Holding(handler'[g], s)
  BY <1>1, <1>2 DEF Kept
<1> DEFINE K == Kept(n, s)'
<1>8. K BY <1>4, <1>6, <1>7
        DEF Kept, Marked, Dirty, Behind, Holding, Half, Connector!Enabled, Connector!NoServer,
            Connector!NoTools
<1> QED BY <1>8

\* A handler goes on: it becomes no more and no less half through anything.
LEMMA ConnectorMoves ==
  ASSUME NEW n \in DOMAIN Connectors, ConnectorInv(n), NEW h \in Connectors[n].handlers, NEW x,
         handler' = [handler EXCEPT ![h] = x], Handling(n, x), ConnectorRows(n)',
         apart \subseteq apart',
         \A s \in Connectors[n].servers \ apart' :
           /\ server'[s].cache = server[s].cache /\ server'[s].off = server[s].off
           /\ indexed'[s] = indexed[s]
           /\ ~server'[s].there =>
                server'[s] = server[s] /\ (Holding(x, s) => Holding(handler[h], s))
           /\ Marked(x, s) <=> Marked(handler[h], s)
           /\ Marked(x, s) /\ Half(n, handler[h], s, server[s], indexed[s])
                => Half(n, x, s, server[s], indexed[s])
  PROVE  ConnectorInv(n)'
BY KeptStays, ConnectorPut

\* A handler that neither fetches nor switches goes on to something of that kind.
LEMMA ConnectorPlain ==
  ASSUME NEW n \in DOMAIN Connectors, ConnectorInv(n), NEW h \in Connectors[n].handlers, NEW x,
         handler' = [handler EXCEPT ![h] = x], Handling(n, x),
         x.pc \notin {"fetch", "index", "switch", "switched"},
         ConnectorRows(n)', apart \subseteq apart',
         \A s \in Connectors[n].servers \ apart' :
           /\ ~Marked(handler[h], s)
           /\ server'[s].cache = server[s].cache /\ server'[s].off = server[s].off
           /\ indexed'[s] = indexed[s]
           /\ ~server'[s].there => server'[s] = server[s]
  PROVE  ConnectorInv(n)'
<1>1. \A s \in Connectors[n].servers : ~Marked(x, s) /\ ~Holding(x, s) BY PlainIsUnmarked
<1> QED BY <1>1, ConnectorMoves

\* The rows that no step but the one at hand touches.
LEMMA ConnectorRowsStay ==
  ASSUME NEW n \in DOMAIN Connectors, ConnectorInv(n), UNCHANGED <<server, offers, indexed>>,
         upsets' \in {upsets, upsets + 1}, feed' \in Connector(n)!FeedStatus,
         apart' \subseteq Connectors[n].servers
  PROVE  ConnectorRows(n)'
<1>1. upsets' \in Nat BY DEF ConnectorInv, ConnectorRows
<1> QED BY <1>1 DEF ConnectorInv, ConnectorRows, Connector!ServerRows, Connector!Caches,
                    Connector!FeedStatus

\* One row changes.
LEMMA ConnectorRowChanges ==
  ASSUME NEW n \in DOMAIN Connectors, ConnectorInv(n), NEW s \in Connectors[n].servers,
         NEW y \in Connector(n)!ServerRows, y.on => y.remote, server' = [server EXCEPT ![s] = y],
         UNCHANGED <<offers, indexed, upsets>>, feed' \in Connector(n)!FeedStatus,
         apart' \subseteq Connectors[n].servers
  PROVE  /\ ConnectorRows(n)' /\ server'[s] = y
         /\ \A k \in Connectors[n].servers \ {s} : server'[k] = server[k]
<1>1. server' \in [Connectors[n].servers -> Connector(n)!ServerRows] /\ server'[s] = y
      /\ \A k \in Connectors[n].servers \ {s} : server'[k] = server[k]
  BY DEF ConnectorInv, ConnectorRows
<1>2. \A k \in Connectors[n].servers : server'[k].on => server'[k].remote
  BY <1>1 DEF ConnectorInv, ConnectorRows
<1> QED BY <1>1, <1>2 DEF ConnectorInv, ConnectorRows, Connector!ServerRows, Connector!Caches,
                    Connector!FeedStatus

\* Requests that change no row: the ones that only begin something, and the ones that end.
LEMMA ConnectorPlainSteps ==
  ASSUME NEW n \in DOMAIN Connectors, ConnectorInv(n), NEW h \in Connectors[n].handlers,
         \/ \E s \in Connectors[n].servers : Connector(n)!SyncServer(h, s) \/ Connector(n)!DeleteServer(h, s)
         \/ Connector(n)!DeleteSource(h) \/ Connector(n)!SyncSource(h)
         \/ Connector(n)!FetchFeedFails(h) \/ (\E r \in BOOLEAN : Connector(n)!ReadFeed(h, r))
         \/ Connector(n)!KeyTwice(h) \/ Connector(n)!SourceGone(h)
         \/ Connector(n)!LoadPayloads(h) \/ Connector(n)!Search(h) \/ Connector(n)!ChatEnds(h)
  PROVE  ConnectorInv(n)'
<1>1. UNCHANGED <<server, offers, indexed, apart>> /\ upsets' \in {upsets, upsets + 1}
  BY DEF Connector!SyncServer, Connector!DeleteServer, Connector!DeleteSource, Connector!SyncSource,
         Connector!FetchFeedFails, Connector!ReadFeed, Connector!KeyTwice, Connector!SourceGone,
         Connector!LoadPayloads, Connector!Search, Connector!ChatEnds, Connector!Fault
<1>2. feed' \in Connector(n)!FeedStatus
  BY DEF Connector!SyncServer, Connector!DeleteServer, Connector!DeleteSource, Connector!SyncSource,
         Connector!FetchFeedFails, Connector!ReadFeed, Connector!KeyTwice, Connector!SourceGone,
         Connector!LoadPayloads, Connector!Search, Connector!ChatEnds, Connector!Ended,
         Connector!FeedStatus, ConnectorInv, ConnectorRows
<1>3. handler[h].pc \in {"idle", "feed", "rows", "search", "chat"}
  BY DEF Connector!SyncServer, Connector!DeleteServer, Connector!DeleteSource, Connector!SyncSource,
         Connector!FetchFeedFails, Connector!ReadFeed, Connector!KeyTwice, Connector!SourceGone,
         Connector!LoadPayloads, Connector!Search, Connector!ChatEnds
<1>4. ConnectorRows(n)'
  BY <1>1, <1>2, ConnectorRowsStay DEF ConnectorInv, ConnectorRows
<1>5. \A s \in Connectors[n].servers : ~Marked(handler[h], s)
  BY <1>3, PlainIsUnmarked
<1>6. \E x : /\ handler' = [handler EXCEPT ![h] = x] /\ Handling(n, x)
             /\ x.pc \notin {"fetch", "index", "switch", "switched"}
  <2>1. CASE \E s \in Connectors[n].servers : Connector(n)!SyncServer(h, s)
    <3> DEFINE x == [pc |-> "select", after |-> "none"]
    <3>1. handler' = [handler EXCEPT ![h] = x]
      BY <2>1 DEF Connector!SyncServer, Connector!StartSync
    <3>2. Handling(n, x) /\ x.pc = "select" BY DEF Handling
    <3> HIDE DEF x
    <3> QED BY <3>1, <3>2
  <2>2. CASE (\E s \in Connectors[n].servers : Connector(n)!DeleteServer(h, s))
             \/ Connector(n)!DeleteSource(h)
    <3>1. PICK S \in SUBSET Connectors[n].servers, t \in {"delete", "source"} :
            handler' = [handler EXCEPT ![h] = [pc |-> "wipe", of |-> S, then |-> t]]
      <4>1. {k \in Connectors[n].sourced : server[k].there} \subseteq Connectors[n].servers
        BY ConnectorBounds
      <4>2. \A s \in Connectors[n].servers : {s} \subseteq Connectors[n].servers OBVIOUS
      <4> QED BY <2>2, <4>1, <4>2 DEF Connector!DeleteServer, Connector!DeleteSource
    <3> DEFINE x == [pc |-> "wipe", of |-> S, then |-> t]
    <3>2. x \in Wiping(n) BY DEF Wiping
    <3>3. Handling(n, x) /\ x.pc = "wipe" BY <3>2 DEF Handling
    <3>4. handler' = [handler EXCEPT ![h] = x] BY <3>1
    <3> HIDE DEF x
    <3> QED BY <3>3, <3>4
  <2>3. CASE Connector(n)!SyncSource(h)
    <3> DEFINE x == [pc |-> "feed", after |-> "feed"]
    <3>1. handler' = [handler EXCEPT ![h] = x] BY <2>3 DEF Connector!SyncSource
    <3>2. Handling(n, x) /\ x.pc = "feed" BY DEF Handling
    <3> HIDE DEF x
    <3> QED BY <3>1, <3>2
  <2>4. CASE \/ Connector(n)!FetchFeedFails(h) \/ Connector(n)!KeyTwice(h)
             \/ Connector(n)!SourceGone(h) \/ Connector(n)!ChatEnds(h)
    <3> DEFINE x == [pc |-> "idle"]
    <3>1. handler' = [handler EXCEPT ![h] = x]
      BY <2>4 DEF Connector!FetchFeedFails, Connector!KeyTwice, Connector!SourceGone,
                  Connector!ChatEnds, Connector!Ended, Connector!Idle
    <3>2. Handling(n, x) /\ x.pc = "idle" BY DEF Handling
    <3> HIDE DEF x
    <3> QED BY <3>1, <3>2
  <2>5. CASE \E r \in BOOLEAN : Connector(n)!ReadFeed(h, r)
    <3>1. PICK r \in BOOLEAN : Connector(n)!ReadFeed(h, r) BY <2>5
    <3> DEFINE K == {s \in Connectors[n].sourced : server[s].there}
               x == [pc |-> "rows", after |-> "feed", remote |-> r, known |-> K]
    <3>2. handler' = [handler EXCEPT ![h] = x] BY <3>1 DEF Connector!ReadFeed
    <3>3. K \subseteq Connectors[n].sourced OBVIOUS
    <3> HIDE DEF K
    <3>4. Handling(n, x) /\ x.pc = "rows" BY <3>3 DEF Handling
    <3> HIDE DEF x
    <3> QED BY <3>2, <3>4
  <2>6. CASE Connector(n)!LoadPayloads(h)
    <3> DEFINE x == [pc |-> "search", active |-> Connector(n)!ActiveTools]
    <3>1. handler' = [handler EXCEPT ![h] = x] BY <2>6 DEF Connector!LoadPayloads
    <3>2. Handling(n, x) /\ x.pc = "search" BY DEF Handling
    <3> HIDE DEF x
    <3> QED BY <3>1, <3>2
  <2>7. CASE Connector(n)!Search(h)
    <3>1. PICK hits : handler' = [handler EXCEPT ![h] =
            [pc |-> "chat", tools |-> Connector(n)!Visible(hits, handler[h].active),
             active |-> handler[h].active]]
      BY <2>7 DEF Connector!Search
    <3> DEFINE x == [pc |-> "chat", tools |-> Connector(n)!Visible(hits, handler[h].active),
                     active |-> handler[h].active]
    <3>2. Connector(n)!Visible(hits, handler[h].active) \subseteq handler[h].active
      BY DEF Connector!Visible
    <3>3. Handling(n, x) /\ x.pc = "chat" BY <3>2 DEF Handling
    <3>4. handler' = [handler EXCEPT ![h] = x] BY <3>1
    <3> HIDE DEF x
    <3> QED BY <3>3, <3>4
  <2> QED BY <2>1, <2>2, <2>3, <2>4, <2>5, <2>6, <2>7
<1> QED BY <1>1, <1>4, <1>5, <1>6, ConnectorPlain

\* A row is created, updated, or named by the feed.
LEMMA ConnectorEdits ==
  ASSUME NEW n \in DOMAIN Connectors, ConnectorInv(n), NEW h \in Connectors[n].handlers,
         \/ \E s \in Connectors[n].servers, r, on \in BOOLEAN :
              Connector(n)!CreateServer(h, s, r, on) \/ Connector(n)!UpdateServer(h, s, r, on)
         \/ Connector(n)!UpsertSourced(h)
  PROVE  ConnectorInv(n)'
<1>1. UNCHANGED <<offers, indexed, upsets, feed>>
  BY DEF Connector!CreateServer, Connector!UpdateServer, Connector!UpsertSourced
<1>2. handler[h].pc \in {"idle", "rows"} /\ Handling(n, handler[h])
  BY DEF Connector!CreateServer, Connector!UpdateServer, Connector!UpsertSourced, ConnectorInv
<1>3. \A s \in Connectors[n].servers : ~Marked(handler[h], s)
  BY <1>2, PlainIsUnmarked
<1>4. PICK x : /\ handler' = [handler EXCEPT ![h] = x] /\ Handling(n, x)
               /\ x.pc \notin {"fetch", "index", "switch", "switched"}
  <2>1. CASE \E a \in {"none", "feed"} : Connector(n)!StartSync(h, a)
    <3>1. PICK a \in {"none", "feed"} : Connector(n)!StartSync(h, a) BY <2>1
    <3> DEFINE x == [pc |-> "select", after |-> a]
    <3>2. handler' = [handler EXCEPT ![h] = x] BY <3>1 DEF Connector!StartSync
    <3>3. Handling(n, x) /\ x.pc = "select" BY DEF Handling
    <3> HIDE DEF x
    <3> QED BY <3>2, <3>3
  <2>2. CASE handler' = handler
    <3> DEFINE x == handler[h]
    <3>1. handler' = [handler EXCEPT ![h] = x] BY <2>2 DEF ConnectorInv
    <3> QED BY <1>2, <3>1
  <2>3. CASE \E s \in Connectors[n].servers :
               handler' = [handler EXCEPT ![h] = [pc |-> "wipe", of |-> {s}, then |-> "keep"]]
    <3>1. PICK s \in Connectors[n].servers :
               handler' = [handler EXCEPT ![h] = [pc |-> "wipe", of |-> {s}, then |-> "keep"]]
      BY <2>3
    <3> DEFINE x == [pc |-> "wipe", of |-> {s}, then |-> "keep"]
    <3>2. x \in Wiping(n) BY DEF Wiping
    <3>3. Handling(n, x) /\ x.pc = "wipe" BY <3>2 DEF Handling
    <3>4. handler' = [handler EXCEPT ![h] = x] BY <3>1
    <3> HIDE DEF x
    <3> QED BY <3>3, <3>4
  <2> QED BY <2>1, <2>2, <2>3
          DEF Connector!CreateServer, Connector!UpdateServer, Connector!UpsertSourced
<1>5. PICK s \in Connectors[n].servers, y \in Connector(n)!ServerRows :
        /\ server' = [server EXCEPT ![s] = y] /\ y.there /\ (y.on => y.remote)
        /\ apart \subseteq apart' /\ apart' \subseteq Connectors[n].servers
        /\ server[s].there \/ server[s] = Connector(n)!NoServer \/ s \in apart
        /\ server[s].there => y.cache = server[s].cache /\ y.off = server[s].off
        /\ ~server[s].there => y.cache = Connector(n)!NoServer.cache
                               /\ y.off = Connector(n)!NoServer.off
  <2>0. server \in [Connectors[n].servers -> Connector(n)!ServerRows]
        /\ apart \subseteq Connectors[n].servers
    BY DEF ConnectorInv, ConnectorRows
  <2>1. \A s \in Connectors[n].servers :
          server[s].there \/ server[s] = Connector(n)!NoServer \/ s \in apart
    BY DEF ConnectorInv, Kept
  <2>2. ASSUME NEW s \in Connectors[n].servers, NEW r \in BOOLEAN, NEW on \in BOOLEAN,
               ~server[s].there, on => r, apart' = apart,
               server' = [server EXCEPT ![s] = [Connector(n)!NoServer EXCEPT
                            !.there = TRUE, !.remote = r, !.on = on]]
        PROVE  \E y \in Connector(n)!ServerRows :
                 /\ server' = [server EXCEPT ![s] = y] /\ y.there /\ (y.on => y.remote)
                 /\ y.cache = Connector(n)!NoServer.cache /\ y.off = Connector(n)!NoServer.off
    <3> DEFINE y == [Connector(n)!NoServer EXCEPT !.there = TRUE, !.remote = r, !.on = on]
    <3>1. y \in Connector(n)!ServerRows BY ConnectorBounds DEF Connector!ServerRows
    <3>2. y.there = TRUE /\ y.remote = r /\ y.on = on /\ y.cache = Connector(n)!NoServer.cache
          /\ y.off = Connector(n)!NoServer.off
      BY DEF Connector!NoServer
    <3>3. server' = [server EXCEPT ![s] = y] BY <2>2
    <3> HIDE DEF y
    <3> QED BY <2>2, <3>1, <3>2, <3>3
  <2>3. ASSUME NEW s \in Connectors[n].servers, NEW r \in BOOLEAN, NEW on \in BOOLEAN,
               server[s].there, on => r,
               server' = [server EXCEPT ![s].remote = r, ![s].on = on]
        PROVE  \E y \in Connector(n)!ServerRows :
                 /\ server' = [server EXCEPT ![s] = y] /\ y.there /\ (y.on => y.remote)
                 /\ y.cache = server[s].cache /\ y.off = server[s].off
    <3> DEFINE o == server[s]
               y == [[o EXCEPT !.remote = r] EXCEPT !.on = on]
    <3>1. server' = [server EXCEPT ![s] = y] BY <2>0, <2>3
    <3>2. o \in Connector(n)!ServerRows /\ o.there BY <2>0, <2>3
    <3> HIDE DEF o
    <3>3. y \in Connector(n)!ServerRows BY <3>2 DEF Connector!ServerRows
    <3>4. y.remote = r /\ y.on = on /\ y.there = o.there /\ y.cache = o.cache /\ y.off = o.off
      BY <3>2 DEF Connector!ServerRows
    <3> HIDE DEF y
    <3> QED BY <2>3, <3>1, <3>2, <3>3, <3>4 DEF o
  <2>4. CASE \E s \in Connectors[n].servers, r, on \in BOOLEAN :
               Connector(n)!CreateServer(h, s, r, on)
    <3>1. PICK s \in Connectors[n].servers, r \in BOOLEAN, on \in BOOLEAN :
            Connector(n)!CreateServer(h, s, r, on)
      BY <2>4
    <3> DEFINE o == r /\ on
    <3>2. o \in BOOLEAN /\ (o => r) OBVIOUS
    <3>3. /\ ~server[s].there /\ apart' = apart
          /\ server' = [server EXCEPT ![s] = [Connector(n)!NoServer EXCEPT
                            !.there = TRUE, !.remote = r, !.on = o]]
      BY <3>1 DEF Connector!CreateServer
    <3> HIDE DEF o
    <3> QED BY <2>0, <2>1, <2>2, <3>2, <3>3
  <2>5. CASE \E s \in Connectors[n].servers, r, on \in BOOLEAN :
               Connector(n)!UpdateServer(h, s, r, on)
    <3>1. PICK s \in Connectors[n].servers, r \in BOOLEAN, on \in BOOLEAN :
            Connector(n)!UpdateServer(h, s, r, on)
      BY <2>5
    <3> DEFINE o == r /\ on
    <3>2. o \in BOOLEAN /\ (o => r) OBVIOUS
    <3>3. server[s].there /\ apart' = apart
          /\ server' = [server EXCEPT ![s].remote = r, ![s].on = o]
      BY <3>1 DEF Connector!UpdateServer
    <3> HIDE DEF o
    <3> QED BY <2>0, <2>1, <2>3, <3>2, <3>3
  <2>6. CASE Connector(n)!UpsertSourced(h)
    <3> DEFINE r == handler[h].remote
    <3>1. handler[h].pc = "rows" BY <2>6 DEF Connector!UpsertSourced
    <3>2. r \in BOOLEAN /\ handler[h].known \subseteq Connectors[n].sourced
      BY <1>2, <3>1 DEF Handling
    <3>3. CASE \E s \in handler[h].known :
            /\ server[s].there
            /\ server' = [server EXCEPT ![s].remote = r, ![s].on = r /\ @]
            /\ apart' = IF r THEN apart ELSE apart \cup {s}
      <4>1. PICK s \in Connectors[n].servers :
            /\ server[s].there
            /\ server' = [server EXCEPT ![s].remote = r, ![s].on = r /\ @]
            /\ apart' = IF r THEN apart ELSE apart \cup {s}
        BY <3>2, <3>3, ConnectorBounds
      <4> DEFINE o == r /\ server[s].on
      <4>2. o \in BOOLEAN /\ (o => r) OBVIOUS
      <4>3. server' = [server EXCEPT ![s].remote = r, ![s].on = o] BY <2>0, <4>1
      <4>4. apart \subseteq apart' /\ apart' \subseteq Connectors[n].servers BY <2>0, <4>1
      <4> HIDE DEF o, r
      <4> QED BY <2>1, <2>3, <3>2, <4>1, <4>2, <4>3, <4>4
    <3>4. CASE \E s \in Connectors[n].sourced :
            /\ ~server[s].there /\ apart' = apart
            /\ server' = [server EXCEPT ![s] = [Connector(n)!NoServer EXCEPT
                            !.there = TRUE, !.remote = r, !.on = r]]
      <4> HIDE DEF r
      <4>1. PICK s \in Connectors[n].servers :
            /\ ~server[s].there /\ apart' = apart
            /\ server' = [server EXCEPT ![s] = [Connector(n)!NoServer EXCEPT
                            !.there = TRUE, !.remote = r, !.on = r]]
        BY <3>4, ConnectorBounds
      <4>2. \E y \in Connector(n)!ServerRows :
              /\ server' = [server EXCEPT ![s] = y] /\ y.there /\ (y.on => y.remote)
              /\ y.cache = Connector(n)!NoServer.cache /\ y.off = Connector(n)!NoServer.off
        BY <2>2, <3>2, <4>1
      <4> QED BY <2>0, <2>1, <4>1, <4>2
    <3> QED BY <2>6, <3>3, <3>4 DEF Connector!UpsertSourced
  <2> QED BY <2>4, <2>5, <2>6
<1>0. feed' \in Connector(n)!FeedStatus
  BY <1>1 DEF ConnectorInv, ConnectorRows, Connector!FeedStatus
<1>6. /\ ConnectorRows(n)' /\ server'[s] = y
      /\ \A k \in Connectors[n].servers \ {s} : server'[k] = server[k]
  BY <1>0, <1>1, <1>5, ConnectorRowChanges
<1>7. ASSUME NEW k \in Connectors[n].servers \ apart'
      PROVE  /\ server'[k].cache = server[k].cache /\ server'[k].off = server[k].off
             /\ ~server'[k].there => server'[k] = server[k]
  BY <1>5, <1>6
<1> QED BY <1>1, <1>3, <1>4, <1>5, <1>6, <1>7, ConnectorPlain

\* Points are wiped, rows dropped, the collection is missing: what that parts is apart.
LEMMA ConnectorWipes ==
  ASSUME NEW n \in DOMAIN Connectors, ConnectorInv(n), NEW h \in Connectors[n].handlers,
         Connector(n)!Wipe(h) \/ Connector(n)!DropRows(h) \/ Connector(n)!CollectionMissing(h)
  PROVE  ConnectorInv(n)'
<1>0. /\ server \in [Connectors[n].servers -> Connector(n)!ServerRows]
      /\ indexed \in [Connectors[n].servers -> Connector(n)!Caches]
      /\ feed \in Connector(n)!FeedStatus /\ apart \subseteq Connectors[n].servers /\ upsets \in Nat
  BY DEF ConnectorInv, ConnectorRows
<1>1. handler[h].pc \in {"wipe", "drop", "search"} /\ Handling(n, handler[h])
  BY DEF Connector!Wipe, Connector!DropRows, Connector!CollectionMissing, ConnectorInv
<1>2. \A s \in Connectors[n].servers : ~Marked(handler[h], s)
  BY <1>1, PlainIsUnmarked
<1> DEFINE x == [pc |-> "idle"]
<1>3. Handling(n, x) /\ x.pc = "idle" BY DEF Handling
<1> HIDE DEF x
<1>4. CASE Connector(n)!Wipe(h)
  <2> DEFINE S == handler[h].of
  <2>1. /\ handler[h] \in Wiping(n) /\ handler[h].pc = "wipe"
        /\ UNCHANGED <<server, feed, offers>>
        /\ apart' = apart \cup S
        /\ handler' = IF handler[h].then = "keep" THEN [handler EXCEPT ![h] = Connector(n)!Idle]
                      ELSE [handler EXCEPT ![h].pc = "drop"]
    BY <1>1, <1>4 DEF Connector!Wipe, Handling
  <2>2. S \subseteq Connectors[n].servers BY <2>1 DEF Wiping
  <2>3. upsets' \in Nat
        /\ (\/ indexed' = [s \in Connectors[n].servers |-> IF s \in S THEN Connector(n)!NoTools
                                                                       ELSE indexed[s]]
            \/ indexed' = indexed)
    BY <1>0, <1>4 DEF Connector!Wipe, Connector!WipeOrigin, Connector!Fault
  <2> HIDE DEF S
  <2>4. indexed' \in [Connectors[n].servers -> Connector(n)!Caches]
        /\ \A s \in Connectors[n].servers \ S : indexed'[s] = indexed[s]
    BY <1>0, <2>3, ConnectorBounds
  <2>5. ConnectorRows(n)'
    BY <1>0, <2>1, <2>2, <2>3, <2>4
       DEF ConnectorInv, ConnectorRows, Connector!ServerRows, Connector!Caches, Connector!FeedStatus
  <2>6. PICK y : /\ handler' = [handler EXCEPT ![h] = y] /\ Handling(n, y)
                 /\ y.pc \notin {"fetch", "index", "switch", "switched"}
    <3>1. CASE handler[h].then = "keep"
      <4>1. handler' = [handler EXCEPT ![h] = x] BY <2>1, <3>1 DEF Connector!Idle, x
      <4> QED BY <1>3, <4>1
    <3>2. CASE handler[h].then # "keep"
      <4> DEFINE o == handler[h]
                 y == [o EXCEPT !.pc = "drop"]
      <4>1. handler' = [handler EXCEPT ![h] = y] BY <2>1, <3>2
      <4>2. o \in Wiping(n) BY <2>1
      <4> HIDE DEF o
      <4>3. y \in Wiping(n) /\ y.pc = "drop" BY <4>2 DEF Wiping
      <4> HIDE DEF y
      <4>4. Handling(n, y) BY <4>3 DEF Handling
      <4> QED BY <4>1, <4>3, <4>4
    <3> QED BY <3>1, <3>2
  <2>7. \A s \in Connectors[n].servers \ apart' : indexed'[s] = indexed[s] BY <2>1, <2>4
  <2> QED BY <1>2, <2>1, <2>5, <2>6, <2>7, ConnectorPlain
<1>5. CASE Connector(n)!DropRows(h)
  <2> DEFINE gone == IF handler[h].then = "source"
                     THEN {s \in Connectors[n].sourced : server[s].there} ELSE handler[h].of
  <2>1. /\ handler[h] \in Wiping(n)
        /\ UNCHANGED <<offers, indexed, upsets>>
        /\ server' = [s \in Connectors[n].servers |->
                        IF s \in gone THEN Connector(n)!NoServer ELSE server[s]]
        /\ feed' = IF handler[h].then = "source" THEN "none" ELSE feed
        /\ handler' = [handler EXCEPT ![h] = x]
        /\ apart' = apart \cup gone
    BY <1>1, <1>5 DEF Connector!DropRows, Handling, Connector!Idle, x
  <2>2. gone \subseteq Connectors[n].servers BY <2>1, ConnectorBounds DEF Wiping
  <2> HIDE DEF gone
  <2>3. server' \in [Connectors[n].servers -> Connector(n)!ServerRows]
        /\ \A s \in Connectors[n].servers \ gone : server'[s] = server[s]
    BY <1>0, <2>1, ConnectorBounds
  <2>4. \A s \in Connectors[n].servers : server'[s].on => server'[s].remote
    BY <2>1, ConnectorBounds DEF ConnectorInv, ConnectorRows
  <2>5. feed' \in Connector(n)!FeedStatus BY <1>0, <2>1 DEF Connector!FeedStatus
  <2>6. ConnectorRows(n)'
    BY <1>0, <2>1, <2>2, <2>3, <2>4, <2>5
       DEF ConnectorInv, ConnectorRows, Connector!ServerRows, Connector!Caches, Connector!FeedStatus
  <2>7. \A s \in Connectors[n].servers \ apart' : server'[s] = server[s] /\ indexed'[s] = indexed[s]
    BY <2>1, <2>3
  <2> QED BY <1>2, <1>3, <2>1, <2>6, <2>7, ConnectorPlain
<1>6. CASE Connector(n)!CollectionMissing(h)
  <2>1. /\ UNCHANGED <<server, feed, offers>> /\ upsets' = upsets + 1
        /\ indexed' = [s \in Connectors[n].servers |-> Connector(n)!NoTools]
        /\ apart' = {s \in Connectors[n].servers : server[s].there} \cup apart
        /\ handler' = [handler EXCEPT ![h] = [pc |-> "select", after |-> "none"]]
    BY <1>6 DEF Connector!CollectionMissing, Connector!Fault, Connector!StartSync
  <2> DEFINE y == [pc |-> "select", after |-> "none"]
  <2>2. Handling(n, y) /\ y.pc = "select" BY DEF Handling
  <2>3. handler' = [handler EXCEPT ![h] = y] BY <2>1
  <2> HIDE DEF y
  <2>4. ConnectorRows(n)'
    BY <1>0, <2>1, ConnectorBounds
       DEF ConnectorInv, ConnectorRows, Connector!ServerRows, Connector!Caches, Connector!FeedStatus
  <2>5. ASSUME NEW s \in Connectors[n].servers \ apart' PROVE indexed'[s] = indexed[s]
    <3>1. Kept(n, s) /\ ~server[s].there BY <2>1 DEF ConnectorInv
    <3>2. \A g \in Connectors[n].handlers : ~Holding(handler[g], s) /\ Handling(n, handler[g])
      BY <3>1 DEF Kept, ConnectorInv
    <3>3. \A g \in Connectors[n].handlers : ~Marked(handler[g], s) BY <3>2, MarkedHolds
    <3>4. indexed[s] = Connector(n)!Enabled(server[s].cache, server[s].off)
          /\ server[s] = Connector(n)!NoServer
      BY <3>1, <3>3 DEF Kept
    <3>5. indexed[s] = Connector(n)!NoTools BY <3>4, ConnectorBounds
    <3> QED BY <2>1, <3>5
  <2> QED BY <1>2, <2>1, <2>2, <2>3, <2>4, <2>5, ConnectorPlain
<1> QED BY <1>4, <1>5, <1>6

\* Rows are read, fetched or not, and a synchronisation that is rolled back.
LEMMA ConnectorFetches ==
  ASSUME NEW n \in DOMAIN Connectors, ConnectorInv(n), NEW h \in Connectors[n].handlers,
         \/ Connector(n)!SelectServers(h) \/ Connector(n)!CommitFails(h)
         \/ \E s \in Connectors[n].servers : Connector(n)!FetchTools(h, s) \/ Connector(n)!FetchFails(h, s)
  PROVE  ConnectorInv(n)'
<1>0. /\ server \in [Connectors[n].servers -> Connector(n)!ServerRows]
      /\ offers \in [Connectors[n].servers -> Connector(n)!Caches]
      /\ feed \in Connector(n)!FeedStatus /\ apart \subseteq Connectors[n].servers /\ upsets \in Nat
      /\ Handling(n, handler[h])
  BY DEF ConnectorInv, ConnectorRows
<1>1. CASE Connector(n)!SelectServers(h)
  <2> DEFINE T == {s \in Connectors[n].servers : Connector(n)!Eligible(s)}
             G == [s \in Connectors[n].servers |-> server[s].cache]
             a == handler[h].after
             x == [pc |-> "fetch", after |-> a, todo |-> T, seen |-> server, got |-> G, at |-> "none"]
  <2>1. /\ handler[h].pc = "select" /\ handler' = [handler EXCEPT ![h] = x]
        /\ UNCHANGED <<server, feed, offers, indexed, upsets, apart>>
    BY <1>1 DEF Connector!SelectServers
  <2>2. a \in {"none", "feed"} BY <1>0, <2>1 DEF Handling
  <2>3. T \subseteq Connectors[n].servers /\ \A s \in T : server[s].there BY DEF Connector!Eligible
  <2>4. G \in [Connectors[n].servers -> Connector(n)!Caches]
        /\ \A s \in Connectors[n].servers : G[s] = server[s].cache
    BY <1>0 DEF Connector!ServerRows
  <2> HIDE DEF T, G, a
  <2>5. x \in Fetching(n) BY <1>0, <2>2, <2>3, <2>4 DEF Fetching
  <2>6. x.pc = "fetch" /\ x.seen = server /\ x.got = G /\ x.todo = T OBVIOUS
  <2> HIDE DEF x
  <2>7. Handling(n, x) BY <2>3, <2>4, <2>5, <2>6 DEF Handling
  <2>8. \A s \in Connectors[n].servers : ~Marked(x, s) /\ (Holding(x, s) => server[s].there)
    BY <2>4, <2>6 DEF Marked, Dirty, Behind, Holding
  <2>9. \A s \in Connectors[n].servers : ~Marked(handler[h], s) BY <2>1, PlainIsUnmarked
  <2>10. ConnectorRows(n)' BY <1>0, <2>1, ConnectorRowsStay
  <2> QED BY <2>1, <2>7, <2>8, <2>9, <2>10, ConnectorMoves
<1>2. CASE Connector(n)!CommitFails(h)
  <2> DEFINE x == [pc |-> "idle"]
  <2>1. /\ handler[h].pc = "fetch" /\ handler[h].todo = {} /\ handler' = [handler EXCEPT ![h] = x]
        /\ apart' = apart \cup Connector(n)!Changed(h) /\ feed' \in {feed, "error"}
        /\ UNCHANGED <<server, offers, indexed, upsets>>
    BY <1>2 DEF Connector!CommitFails, Connector!Ended, Connector!Idle
  <2>2. Handling(n, x) /\ x.pc = "idle" BY DEF Handling
  <2> HIDE DEF x
  <2>3. Connector(n)!Changed(h) \subseteq Connectors[n].servers BY DEF Connector!Changed
  <2>4. feed' \in Connector(n)!FeedStatus BY <1>0, <2>1 DEF Connector!FeedStatus
  <2>5. ConnectorRows(n)' BY <1>0, <2>1, <2>3, <2>4, ConnectorRowsStay
  <2>6. \A s \in Connectors[n].servers \ apart' : ~Marked(handler[h], s)
    BY <2>1 DEF Marked, Dirty, Behind, Connector!Changed
  <2> QED BY <2>1, <2>2, <2>5, <2>6, ConnectorPlain
<1>3. CASE \E s \in Connectors[n].servers : Connector(n)!FetchTools(h, s)
  <2>1. PICK s \in Connectors[n].servers : Connector(n)!FetchTools(h, s) BY <1>3
  <2> DEFINE o == handler[h]
             G == [o.got EXCEPT ![s] = offers[s]]
             x == [pc |-> "index", after |-> o.after, todo |-> o.todo \ {s}, seen |-> o.seen,
                   got |-> G, at |-> s]
  <2>2. /\ o.pc = "fetch" /\ s \in o.todo /\ handler' = [handler EXCEPT ![h] = x]
        /\ UNCHANGED <<server, feed, offers, indexed, upsets, apart>> /\ Handling(n, o)
    BY <1>0, <2>1 DEF Connector!FetchTools
  <2>3. /\ o.after \in {"none", "feed"} /\ o.todo \subseteq Connectors[n].servers
        /\ o.seen \in [Connectors[n].servers -> Connector(n)!ServerRows]
        /\ o.got \in [Connectors[n].servers -> Connector(n)!Caches]
        /\ \A k \in Connectors[n].servers :
             /\ k \in o.todo => o.seen[k].there /\ o.got[k] = o.seen[k].cache
             /\ o.got[k] # o.seen[k].cache => o.seen[k].there
    BY <2>2 DEF Handling, Fetching
  <2> HIDE DEF o
  <2>4. G \in [Connectors[n].servers -> Connector(n)!Caches]
        /\ \A k \in Connectors[n].servers \ {s} : G[k] = o.got[k]
    BY <1>0, <2>3
  <2> HIDE DEF G
  <2>5. x \in Fetching(n) BY <2>3, <2>4 DEF Fetching
  <2>6. /\ x.pc = "index" /\ x.seen = o.seen /\ x.got = G /\ x.todo = o.todo \ {s} /\ x.at = s
    OBVIOUS
  <2> HIDE DEF x
  <2>7. Handling(n, x) BY <2>2, <2>3, <2>4, <2>5, <2>6 DEF Handling
  <2>8. \A k \in Connectors[n].servers :
          /\ Marked(x, k) <=> Marked(o, k)
          /\ Holding(x, k) <=> Holding(o, k)
    BY <2>2, <2>4, <2>6 DEF Marked, Dirty, Behind, Holding
  <2>9. \A k \in Connectors[n].servers :
          Marked(x, k) /\ Half(n, o, k, server[k], indexed[k]) => Half(n, x, k, server[k], indexed[k])
    BY <2>2, <2>4, <2>6 DEF Marked, Dirty, Behind, Half
  <2>10. ConnectorRows(n)' BY <1>0, <2>2, ConnectorRowsStay
  <2>11. o = handler[h] BY DEF o
  <2> QED BY <2>2, <2>7, <2>8, <2>9, <2>10, <2>11, ConnectorMoves
<1>4. CASE \E s \in Connectors[n].servers : Connector(n)!FetchFails(h, s)
  <2>1. PICK s \in Connectors[n].servers : Connector(n)!FetchFails(h, s) BY <1>4
  <2> DEFINE o == handler[h]
             x == [o EXCEPT !.todo = o.todo \ {s}]
  <2>2. /\ o.pc = "fetch" /\ s \in o.todo /\ handler' = [handler EXCEPT ![h] = x]
        /\ UNCHANGED <<server, feed, offers, indexed, apart>> /\ Handling(n, o) /\ upsets' = upsets + 1
    BY <1>0, <2>1 DEF Connector!FetchFails, Connector!Fault
  <2>3. /\ o \in Fetching(n)
        /\ \A k \in Connectors[n].servers :
             /\ k \in o.todo => o.seen[k].there /\ o.got[k] = o.seen[k].cache
             /\ o.got[k] # o.seen[k].cache => o.seen[k].there
    BY <2>2 DEF Handling
  <2> HIDE DEF o
  <2>5. x \in Fetching(n) BY <2>3 DEF Fetching
  <2>6. x.pc = o.pc /\ x.seen = o.seen /\ x.got = o.got /\ x.todo = o.todo \ {s}
    BY <2>3 DEF Fetching
  <2> HIDE DEF x
  <2>7. Handling(n, x) BY <2>2, <2>3, <2>5, <2>6 DEF Handling
  <2>8. \A k \in Connectors[n].servers :
          /\ Marked(x, k) <=> Marked(o, k)
          /\ Holding(x, k) <=> Holding(o, k)
    BY <2>2, <2>3, <2>6 DEF Marked, Dirty, Behind, Holding
  <2>9. \A k \in Connectors[n].servers :
          Marked(x, k) /\ Half(n, o, k, server[k], indexed[k]) => Half(n, x, k, server[k], indexed[k])
    BY <2>2, <2>3, <2>6 DEF Marked, Dirty, Behind, Half
  <2>10. ConnectorRows(n)' BY <1>0, <2>2, ConnectorRowsStay
  <2>11. o = handler[h] BY DEF o
  <2> QED BY <2>2, <2>7, <2>8, <2>9, <2>10, <2>11, ConnectorMoves
<1> QED BY <1>1, <1>2, <1>3, <1>4

\* What a synchronisation does to the points of a server.
LEMMA ConnectorDelta ==
  ASSUME NEW n \in DOMAIN Connectors, ConnectorInv(n), NEW s \in Connectors[n].servers,
         NEW old \in Connector(n)!Caches, NEW new \in Connector(n)!Caches,
         Connector(n)!SyncDelta(s, old, new) \/ Connector(n)!DeltaFails(s, old, new)
  PROVE  /\ indexed' \in [Connectors[n].servers -> Connector(n)!Caches] /\ upsets' \in Nat
         /\ \A k \in Connectors[n].servers \ {s} : indexed'[k] = indexed[k]
         /\ upsets' = upsets /\ indexed[s] = old => indexed'[s] = new
<1>0. indexed \in [Connectors[n].servers -> Connector(n)!Caches] /\ upsets \in Nat
  BY DEF ConnectorInv, ConnectorRows
<1> DEFINE d == Connector(n)!ComputeDelta(old, new, indexed[s])
<1>1. d \in Connector(n)!Caches BY <1>0 DEF Connector!ComputeDelta, Connector!Caches
<1>2. indexed[s] = old => d = new
  <2>1. indexed[s] = old => d = [t \in Connectors[n].tools |-> new[t]]
    BY DEF Connector!ComputeDelta
  <2>2. new = [t \in Connectors[n].tools |-> new[t]] BY DEF Connector!Caches
  <2> QED BY <2>1, <2>2
<1>3. CASE Connector(n)!SyncDelta(s, old, new)
  <2>1. indexed' = [indexed EXCEPT ![s] = d] /\ upsets' = upsets BY <1>3 DEF Connector!SyncDelta
  <2> HIDE DEF d
  <2> QED BY <1>0, <1>1, <1>2, <2>1
<1>4. CASE Connector(n)!DeltaFails(s, old, new)
  <2> DEFINE e == [t \in Connectors[n].tools |-> IF new[t] = 0 THEN indexed[s][t] ELSE d[t]]
  <2>1. upsets' = upsets + 1 /\ (indexed' = indexed \/ indexed' = [indexed EXCEPT ![s] = e])
    BY <1>4 DEF Connector!DeltaFails, Connector!Fault
  <2> HIDE DEF d
  <2>2. e \in Connector(n)!Caches BY <1>0, <1>1 DEF Connector!Caches
  <2> HIDE DEF e
  <2> QED BY <1>0, <2>1, <2>2
<1> QED BY <1>3, <1>4

LEMMA EnabledIsCache ==
  ASSUME NEW n \in DOMAIN Connectors, NEW c \in Connector(n)!Caches, NEW off
  PROVE  Connector(n)!Enabled(c, off) \in Connector(n)!Caches
BY ConnectorBounds DEF Connector!Enabled, Connector!Caches

\* Nobody else holds the row: nobody else is half through.
LEMMA NobodyElse ==
  ASSUME NEW n \in DOMAIN Connectors, ConnectorInv(n), NEW h \in Connectors[n].handlers,
         NEW s \in Connectors[n].servers,
         \A g \in Connectors[n].handlers \ {h} : ~Connector(n)!Holds(g, s)
  PROVE  \A g \in Connectors[n].handlers \ {h} : ~Marked(handler[g], s)
<1>1. \A g \in Connectors[n].handlers : Connector(n)!Holds(g, s) <=> Holding(handler[g], s)
  BY DEF Connector!Holds, Holding
<1> QED BY <1>1, MarkedHolds DEF ConnectorInv

\* When nobody is half through any more, or the handler at work alone is.
LEMMA KeptAlone ==
  ASSUME NEW n \in DOMAIN Connectors, ConnectorInv(n), NEW h \in Connectors[n].handlers, NEW x,
         handler' = [handler EXCEPT ![h] = x], NEW s \in Connectors[n].servers,
         server'[s].there,
         \/ ~Marked(x, s) /\ indexed'[s] = Connector(n)!Enabled(server'[s].cache, server'[s].off)
         \/ Marked(x, s) /\ ((\A g \in Connectors[n].handlers \ {h} : ~Marked(handler[g], s))
                               => Half(n, x, s, server'[s], indexed'[s])),
         ~Marked(x, s) => \A g \in Connectors[n].handlers \ {h} : ~Marked(handler[g], s)
  PROVE  Kept(n, s)'
<1>1. handler'[h] = x /\ \A g \in Connectors[n].handlers \ {h} : handler'[g] = handler[g]
  BY DEF ConnectorInv
<1>2. (\A g \in Connectors[n].handlers : ~Marked(handler'[g], s))
        => indexed'[s] = Connector(n)!Enabled(server'[s].cache, server'[s].off)
  BY <1>1
<1>3. ASSUME NEW g \in Connectors[n].handlers, Marked(handler'[g], s),
             \A f \in Connectors[n].handlers \ {g} : ~Marked(handler'[f], s)
      PROVE  Half(n, handler'[g], s, server'[s], indexed'[s])
  <2>1. CASE Marked(x, s)
    <3>1. g = h BY <1>1, <1>3, <2>1
    <3> QED BY <1>1, <1>3, <2>1, <3>1
  <2>2. CASE ~Marked(x, s) BY <1>1, <1>3, <2>2
  <2> QED BY <2>1, <2>2
<1> DEFINE K == Kept(n, s)'
<1>4. K BY <1>2, <1>3
        DEF Kept, Marked, Dirty, Behind, Holding, Half, Connector!Enabled, Connector!NoServer,
            Connector!NoTools
<1> QED BY <1>4

\* A switch: the list is read, the row written, the index brought up to it.
LEMMA ConnectorReadSwitches ==
  ASSUME NEW n \in DOMAIN Connectors, ConnectorInv(n), NEW h \in Connectors[n].handlers,
         NEW s \in Connectors[n].servers, NEW t \in Connectors[n].tools, NEW e \in BOOLEAN,
         Connector(n)!ReadSwitches(h, s, t, e)
  PROVE  ConnectorInv(n)'
<1> DEFINE off == IF e THEN server[s].off \ {t} ELSE server[s].off \cup {t}
           x == [pc |-> "switch", at |-> s, old |-> server[s].off, off |-> off]
<1>0. server \in [Connectors[n].servers -> Connector(n)!ServerRows]
      /\ feed \in Connector(n)!FeedStatus /\ apart \subseteq Connectors[n].servers
  BY DEF ConnectorInv, ConnectorRows
<1>1. /\ handler[h].pc = "idle" /\ server[s].there /\ handler' = [handler EXCEPT ![h] = x]
      /\ UNCHANGED <<server, feed, offers, indexed, upsets, apart>>
  BY DEF Connector!ReadSwitches
<1>2. server[s].off \subseteq Connectors[n].tools BY <1>0 DEF Connector!ServerRows
<1>3. off \in SUBSET Connectors[n].tools BY <1>2
<1> HIDE DEF off
<1>4. Handling(n, x) /\ x.pc = "switch" /\ x.at = s BY <1>3 DEF Handling
<1> HIDE DEF x
<1>5. ConnectorRows(n)' BY <1>0, <1>1, ConnectorRowsStay
<1>6. \A k \in Connectors[n].servers : ~Marked(x, k) /\ ~Marked(handler[h], k)
  BY <1>1, <1>4 DEF Marked, Dirty, Behind
<1>7. \A k \in Connectors[n].servers : Holding(x, k) => server[k].there
  BY <1>1, <1>4 DEF Holding
<1> QED BY <1>1, <1>4, <1>5, <1>6, <1>7, ConnectorMoves

LEMMA ConnectorWriteSwitches ==
  ASSUME NEW n \in DOMAIN Connectors, ConnectorInv(n), NEW h \in Connectors[n].handlers,
         Connector(n)!WriteSwitches(h)
  PROVE  ConnectorInv(n)'
<1> DEFINE o == handler[h]
<1>s. PICK s \in Connectors[n].servers : s = o.at
  BY DEF Connector!WriteSwitches, ConnectorInv, Handling
<1>0. server \in [Connectors[n].servers -> Connector(n)!ServerRows]
      /\ feed \in Connector(n)!FeedStatus /\ apart \subseteq Connectors[n].servers
  BY DEF ConnectorInv, ConnectorRows
<1>1. /\ o.pc = "switch" /\ o.off \in SUBSET Connectors[n].tools
      /\ UNCHANGED <<feed, offers, indexed, upsets>>
  BY DEF Connector!WriteSwitches, ConnectorInv, Handling
<1>2. \A k \in Connectors[n].servers : ~Marked(o, k) BY <1>1 DEF Marked, Dirty, Behind
<1>3. CASE ~server[s].there
  <2> DEFINE x == [pc |-> "idle"]
  <2>1. handler' = [handler EXCEPT ![h] = x] /\ UNCHANGED <<server, apart>>
    BY <1>s, <1>3 DEF Connector!WriteSwitches, Connector!Idle
  <2>2. Handling(n, x) /\ x.pc = "idle" BY DEF Handling
  <2> HIDE DEF x
  <2>3. ConnectorRows(n)' BY <1>0, <1>1, <2>1, ConnectorRowsStay
  <2> QED BY <1>1, <1>2, <2>1, <2>2, <2>3, ConnectorPlain
<1>4. CASE server[s].there
  <2> DEFINE c == server[s].cache
             y == [server[s] EXCEPT !.off = o.off]
             x == [pc |-> "switched", at |-> s, old |-> o.old, off |-> o.off, cache |-> c]
  <2>1. /\ server' = [server EXCEPT ![s] = y]
        /\ apart' = IF server[s].off = o.old THEN apart ELSE apart \cup {s}
        /\ handler' = [handler EXCEPT ![h] = x]
    BY <1>s, <1>4 DEF Connector!WriteSwitches
  <2>2. /\ y \in Connector(n)!ServerRows /\ y.off = o.off /\ y.cache = c /\ y.there
        /\ y.on => y.remote
    <3>1. server[s] \in Connector(n)!ServerRows /\ (server[s].on => server[s].remote)
      BY <1>0, <1>1 DEF ConnectorInv, ConnectorRows
    <3>2. y \in Connector(n)!ServerRows BY <1>1, <3>1 DEF Connector!ServerRows
    <3>3. y.off = o.off /\ y.cache = c /\ y.there = server[s].there /\ y.on = server[s].on
          /\ y.remote = server[s].remote
      BY <3>1 DEF Connector!ServerRows
    <3> QED BY <1>4, <3>1, <3>2, <3>3
  <2>3. c \in Connector(n)!Caches BY <1>0, <1>1 DEF Connector!ServerRows
  <2> HIDE DEF y
  <2>4. apart \subseteq apart' /\ apart' \subseteq Connectors[n].servers BY <1>0, <1>1, <2>1
  <2>5. /\ ConnectorRows(n)' /\ server'[s] = y
        /\ \A k \in Connectors[n].servers \ {s} : server'[k] = server[k]
    BY <1>0, <1>1, <2>1, <2>2, <2>4, ConnectorRowChanges
  <2>6. /\ x.pc = "switched" /\ x.at = s /\ x.old = o.old /\ x.off = o.off /\ x.cache = c
    OBVIOUS
  <2> HIDE DEF x
  <2>7. Handling(n, x) BY <1>1, <2>3, <2>6 DEF Handling
  <2>8. ASSUME s \notin apart' PROVE Kept(n, s)'
    <3>1. s \notin apart /\ server[s].off = o.old BY <2>1, <2>8
    <3>2. Kept(n, s) BY <1>1, <3>1 DEF ConnectorInv
    <3>3. (\A g \in Connectors[n].handlers \ {h} : ~Marked(handler[g], s))
            => indexed[s] = Connector(n)!Enabled(c, o.old)
      BY <1>1, <1>2, <3>1, <3>2 DEF Kept
    <3>4. Marked(x, s) /\ ~Dirty(x, s) BY <2>6 DEF Marked, Dirty, Behind
    <3>5. (\A g \in Connectors[n].handlers \ {h} : ~Marked(handler[g], s))
            => Half(n, x, s, server'[s], indexed'[s])
      BY <1>1, <2>2, <2>5, <2>6, <3>3, <3>4 DEF Half
    <3>6. server'[s].there BY <2>2, <2>5
    <3>7. handler' = [handler EXCEPT ![h] = x] BY <2>1
    <3> HIDE DEF c
    <3> QED BY <3>4, <3>5, <3>6, <3>7, KeptAlone
  <2>9. ASSUME NEW k \in Connectors[n].servers \ apart', k # s PROVE Kept(n, k)'
    <3>1. ~Marked(x, k) /\ ~Holding(x, k) BY <2>6, <2>9 DEF Marked, Dirty, Behind, Holding
    <3>2. k \in Connectors[n].servers \ apart /\ server'[k] = server[k] /\ indexed'[k] = indexed[k]
      BY <1>1, <2>4, <2>5, <2>9
    <3> QED BY <1>2, <2>1, <3>1, <3>2, KeptStays
  <2> QED BY <2>1, <2>5, <2>7, <2>8, <2>9, ConnectorPut
<1> QED BY <1>3, <1>4

LEMMA ConnectorIndexSwitched ==
  ASSUME NEW n \in DOMAIN Connectors, ConnectorInv(n), NEW h \in Connectors[n].handlers,
         Connector(n)!IndexSwitched(h)
  PROVE  ConnectorInv(n)'
<1>s. PICK s \in Connectors[n].servers : s = handler[h].at
  BY DEF Connector!IndexSwitched, ConnectorInv, Handling
<1> DEFINE o == handler[h]
           old == Connector(n)!Enabled(o.cache, o.old)
           new == Connector(n)!Enabled(o.cache, o.off)
           x == [pc |-> "idle"]
<1>1. /\ o.pc = "switched" /\ o.cache \in Connector(n)!Caches
      /\ UNCHANGED <<server, feed, offers>> /\ handler' = [handler EXCEPT ![h] = x]
      /\ Connector(n)!SyncDelta(s, old, new) \/ Connector(n)!DeltaFails(s, old, new)
  BY <1>s DEF Connector!IndexSwitched, Connector!Idle, ConnectorInv, Handling
<1>2. apart \subseteq apart' /\ apart' \subseteq apart \cup {s}
      /\ (s \notin apart' => /\ upsets' = upsets /\ server[s].there
                             /\ server[s].cache = o.cache /\ server[s].off = o.off
                             /\ \A g \in Connectors[n].handlers \ {h} : ~Connector(n)!Holds(g, s))
  BY <1>s DEF Connector!IndexSwitched, Connector!Eligible
<1>3. old \in Connector(n)!Caches /\ new \in Connector(n)!Caches BY <1>1, EnabledIsCache
<1>4. Handling(n, x) /\ x.pc = "idle" BY DEF Handling
<1> HIDE DEF x
<1>5. /\ indexed' \in [Connectors[n].servers -> Connector(n)!Caches] /\ upsets' \in Nat
      /\ \A k \in Connectors[n].servers \ {s} : indexed'[k] = indexed[k]
      /\ upsets' = upsets /\ indexed[s] = old => indexed'[s] = new
  <2> HIDE DEF old, new
  <2> QED BY <1>1, <1>3, ConnectorDelta
<1>6. ConnectorRows(n)'
  BY <1>1, <1>2, <1>5
     DEF ConnectorInv, ConnectorRows, Connector!ServerRows, Connector!Caches, Connector!FeedStatus
<1>7. \A k \in Connectors[n].servers : ~Marked(x, k) /\ ~Holding(x, k) BY <1>4, PlainIsUnmarked
<1>8. ASSUME s \notin apart' PROVE Kept(n, s)'
  <2>1. \A g \in Connectors[n].handlers \ {h} : ~Marked(handler[g], s) BY <1>1, <1>2, <1>8, NobodyElse
  <2>2. Kept(n, s) BY <1>1, <1>2, <1>8 DEF ConnectorInv
  <2>3. Behind(o, s) /\ Marked(o, s) BY <1>s, <1>1 DEF Behind, Marked
  <2>4. Half(n, o, s, server[s], indexed[s]) BY <2>1, <2>2, <2>3 DEF Kept
  <2>5. indexed[s] = old BY <2>3, <2>4 DEF Half
  <2>6. indexed'[s] = new BY <1>2, <1>5, <1>8, <2>5
  <2>7. indexed'[s] = Connector(n)!Enabled(server'[s].cache, server'[s].off)
    BY <1>1, <1>2, <1>8, <2>6
  <2> QED BY <1>1, <1>2, <1>7, <1>8, <2>1, <2>7, KeptAlone
<1>9. ASSUME NEW k \in Connectors[n].servers \ apart', k # s PROVE Kept(n, k)'
  <2>1. ~Marked(o, k) BY <1>s, <1>1, <1>9 DEF Marked, Dirty, Behind
  <2>2. k \in Connectors[n].servers \ apart /\ server'[k] = server[k] /\ indexed'[k] = indexed[k]
    BY <1>1, <1>2, <1>5, <1>9
  <2> QED BY <1>1, <1>7, <2>1, <2>2, KeptStays
<1> QED BY <1>1, <1>4, <1>6, <1>8, <1>9, ConnectorPut

\* The points are brought up to what was fetched.
LEMMA ConnectorIndexFetched ==
  ASSUME NEW n \in DOMAIN Connectors, ConnectorInv(n), NEW h \in Connectors[n].handlers,
         Connector(n)!IndexFetched(h)
  PROVE  ConnectorInv(n)'
<1>s. PICK s \in Connectors[n].servers : s = handler[h].at
  BY DEF Connector!IndexFetched, ConnectorInv, Handling
<1> DEFINE o == handler[h]
           seen == o.seen[s]
           old == Connector(n)!Enabled(seen.cache, seen.off)
           new == Connector(n)!Enabled(o.got[s], seen.off)
           x == [o EXCEPT !.pc = "fetch"]
<1>0. Handling(n, o) /\ o.pc = "index" BY DEF ConnectorInv, Connector!IndexFetched
<1>1. /\ o \in Fetching(n) /\ s \notin o.todo
      /\ UNCHANGED <<server, feed, offers>> /\ handler' = [handler EXCEPT ![h] = x]
      /\ Connector(n)!SyncDelta(s, old, new) \/ Connector(n)!DeltaFails(s, old, new)
  BY <1>s, <1>0 DEF Connector!IndexFetched, Handling
<1>2. apart \subseteq apart' /\ apart' \subseteq apart \cup {s}
      /\ (s \notin apart' => /\ upsets' = upsets /\ server[s].there
                             /\ server[s].cache = seen.cache /\ server[s].off = seen.off
                             /\ \A g \in Connectors[n].handlers \ {h} : ~Connector(n)!Holds(g, s))
  BY <1>s DEF Connector!IndexFetched, Connector!Moved, Connector!Eligible
<1>3. old \in Connector(n)!Caches /\ new \in Connector(n)!Caches
  <2>1. seen.cache \in Connector(n)!Caches /\ o.got[s] \in Connector(n)!Caches
    BY <1>1 DEF Fetching, Connector!ServerRows
  <2> QED BY <2>1, EnabledIsCache
<1>4. x \in Fetching(n) /\ x.pc = "fetch" /\ x.seen = o.seen /\ x.got = o.got /\ x.todo = o.todo
  <2> HIDE DEF o
  <2> QED BY <1>1 DEF Fetching
<1> HIDE DEF x
<1>5. Handling(n, x) BY <1>0, <1>4 DEF Handling
<1>6. /\ indexed' \in [Connectors[n].servers -> Connector(n)!Caches] /\ upsets' \in Nat
      /\ \A k \in Connectors[n].servers \ {s} : indexed'[k] = indexed[k]
      /\ upsets' = upsets /\ indexed[s] = old => indexed'[s] = new
  <2> HIDE DEF old, new
  <2> QED BY <1>1, <1>3, ConnectorDelta
<1>7. ConnectorRows(n)'
  BY <1>1, <1>2, <1>6
     DEF ConnectorInv, ConnectorRows, Connector!ServerRows, Connector!Caches, Connector!FeedStatus
<1>8. ASSUME s \notin apart' PROVE Kept(n, s)'
  <2>1. \A g \in Connectors[n].handlers \ {h} : ~Marked(handler[g], s) BY <1>2, <1>8, NobodyElse
  <2>2. Kept(n, s) BY <1>2, <1>8 DEF ConnectorInv
  <2>3. ~Marked(o, s) BY <1>s, <1>0 DEF Marked, Dirty, Behind
  <2>4. indexed[s] = old BY <1>2, <1>8, <2>1, <2>2, <2>3 DEF Kept
  <2>5. indexed'[s] = Connector(n)!Enabled(x.got[s], server'[s].off)
    BY <1>1, <1>2, <1>4, <1>6, <1>8, <2>4
  <2>6. server'[s].there /\ server'[s].cache = x.seen[s].cache /\ server'[s].off = x.seen[s].off
    BY <1>1, <1>2, <1>4, <1>8
  <2>7. Marked(x, s) <=> x.got[s] # x.seen[s].cache
    BY <1>1, <1>4 DEF Marked, Dirty, Behind
  <2>8. ~Behind(x, s) BY <1>4 DEF Behind
  <2>9. CASE Marked(x, s)
    <3>1. Half(n, x, s, server'[s], indexed'[s]) BY <2>5, <2>6, <2>8 DEF Half
    <3> QED BY <1>1, <2>6, <2>9, <3>1, KeptAlone
  <2>10. CASE ~Marked(x, s)
    <3>1. indexed'[s] = Connector(n)!Enabled(server'[s].cache, server'[s].off)
      BY <2>5, <2>6, <2>7, <2>10
    <3> QED BY <1>1, <2>1, <2>6, <2>10, <3>1, KeptAlone
  <2> QED BY <2>9, <2>10
<1>9. ASSUME NEW k \in Connectors[n].servers \ apart', k # s PROVE Kept(n, k)'
  <2>1. (Marked(x, k) <=> Marked(o, k)) /\ (Holding(x, k) <=> Holding(o, k))
    BY <1>s, <1>0, <1>4, <1>9 DEF Marked, Dirty, Behind, Holding
  <2>2. k \in Connectors[n].servers \ apart /\ server'[k] = server[k] /\ indexed'[k] = indexed[k]
    BY <1>1, <1>2, <1>6, <1>9
  <2>3. Half(n, o, k, server[k], indexed[k]) /\ Marked(x, k) => Half(n, x, k, server[k], indexed[k])
    BY <1>s, <1>0, <1>4, <1>9 DEF Half, Dirty, Behind, Marked
  <2> QED BY <1>1, <2>1, <2>2, <2>3, KeptStays
<1> QED BY <1>1, <1>5, <1>7, <1>8, <1>9, ConnectorPut

\* The caches that were fetched are written.
LEMMA ConnectorCommits ==
  ASSUME NEW n \in DOMAIN Connectors, ConnectorInv(n), NEW h \in Connectors[n].handlers,
         Connector(n)!CommitCaches(h)
  PROVE  ConnectorInv(n)'
<1> DEFINE o == handler[h]
           C == Connector(n)!Changed(h)
           x == [pc |-> "idle"]
<1>0. /\ server \in [Connectors[n].servers -> Connector(n)!ServerRows]
      /\ feed \in Connector(n)!FeedStatus /\ apart \subseteq Connectors[n].servers
      /\ Handling(n, o)
  BY DEF ConnectorInv, ConnectorRows
<1>1. /\ o.pc = "fetch" /\ o.todo = {} /\ \A s \in C : server[s].there
      /\ server' = [s \in Connectors[n].servers |->
                      IF s \in C THEN [server[s] EXCEPT !.cache = o.got[s]] ELSE server[s]]
      /\ apart' = apart \cup {s \in C : Connector(n)!Moved(h, s)}
      /\ handler' = [handler EXCEPT ![h] = x] /\ feed' \in {feed, "active"}
      /\ UNCHANGED <<offers, indexed, upsets>>
  BY DEF Connector!CommitCaches, Connector!Ended, Connector!Idle
<1>2. C \subseteq Connectors[n].servers
      /\ \A s \in Connectors[n].servers : s \in C <=> o.got[s] # o.seen[s].cache
  BY DEF Connector!Changed
<1>3. o \in Fetching(n) BY <1>0, <1>1 DEF Handling
<1>4. \A s \in Connectors[n].servers : Marked(o, s) <=> s \in C
  BY <1>1, <1>2 DEF Marked, Dirty, Behind
<1>c. \A s \in C : Connector(n)!Moved(h, s) =>
        s \in apart'
  BY <1>1
<1> HIDE DEF C
<1>5. Handling(n, x) /\ x.pc = "idle" BY DEF Handling
<1> HIDE DEF x
<1>6. \A s \in Connectors[n].servers : ~Marked(x, s) /\ ~Holding(x, s) BY <1>5, PlainIsUnmarked
<1>7. ASSUME NEW s \in C
      PROVE  /\ server'[s] \in Connector(n)!ServerRows /\ server'[s].cache = o.got[s]
             /\ server'[s].off = server[s].off /\ server'[s].there
             /\ server'[s].on = server[s].on /\ server'[s].remote = server[s].remote
  <2> DEFINE r == server[s]
             g == o.got[s]
             y == [r EXCEPT !.cache = g]
  <2>1. s \in Connectors[n].servers /\ server'[s] = y BY <1>1, <1>2
  <2>2. r \in Connector(n)!ServerRows /\ g \in Connector(n)!Caches /\ r.there
    BY <1>0, <1>1, <1>3, <2>1 DEF Fetching
  <2> HIDE DEF r, g
  <2>3. y \in Connector(n)!ServerRows /\ y.cache = g /\ y.off = r.off /\ y.there = r.there
        /\ y.on = r.on /\ y.remote = r.remote
    BY <2>2 DEF Connector!ServerRows
  <2> HIDE DEF y
  <2> QED BY <2>1, <2>2, <2>3 DEF r, g
<1>8. \A s \in Connectors[n].servers \ C : server'[s] = server[s] BY <1>1
<1>9. server' \in [Connectors[n].servers -> Connector(n)!ServerRows]
  <2>1. \A s \in Connectors[n].servers : server'[s] \in Connector(n)!ServerRows
    BY <1>0, <1>7, <1>8
  <2>2. server' = [s \in Connectors[n].servers |-> server'[s]] BY <1>1
  <2> QED BY <2>1, <2>2
<1>10. ConnectorRows(n)'
  <2>1. \A s \in Connectors[n].servers : server'[s].on => server'[s].remote
    BY <1>7, <1>8 DEF ConnectorInv, ConnectorRows
  <2>2. apart' \subseteq Connectors[n].servers BY <1>0, <1>1, <1>2
  <2>3. feed' \in Connector(n)!FeedStatus BY <1>0, <1>1 DEF Connector!FeedStatus
  <2> QED BY <1>1, <1>9, <2>1, <2>2, <2>3
          DEF ConnectorInv, ConnectorRows, Connector!ServerRows, Connector!Caches,
              Connector!FeedStatus
<1>11. ASSUME NEW s \in C, s \notin apart' PROVE Kept(n, s)'
  <2>1. /\ server[s].cache = o.seen[s].cache /\ server[s].off = o.seen[s].off
        /\ \A g \in Connectors[n].handlers \ {h} : ~Connector(n)!Holds(g, s)
    BY <1>c, <1>11 DEF Connector!Moved
  <2>2. s \in Connectors[n].servers BY <1>2
  <2>3. \A g \in Connectors[n].handlers \ {h} : ~Marked(handler[g], s) BY <2>1, <2>2, NobodyElse
  <2>4. Kept(n, s) BY <1>1, <1>11, <2>2 DEF ConnectorInv
  <2>5. Marked(o, s) /\ Dirty(o, s) BY <1>1, <1>4, <2>2 DEF Marked, Behind
  <2>6. Half(n, o, s, server[s], indexed[s]) BY <2>3, <2>4, <2>5 DEF Kept
  <2>7. indexed[s] = Connector(n)!Enabled(o.got[s], server[s].off) BY <2>5, <2>6 DEF Half
  <2>8. indexed'[s] = Connector(n)!Enabled(server'[s].cache, server'[s].off)
    BY <1>1, <1>7, <2>7
  <2>9. server'[s].there BY <1>7
  <2> QED BY <1>1, <1>6, <2>2, <2>3, <2>8, <2>9, KeptAlone
<1>12. ASSUME NEW s \in Connectors[n].servers \ apart', s \notin C PROVE Kept(n, s)'
  <2>1. s \in Connectors[n].servers \ apart /\ server'[s] = server[s] /\ indexed'[s] = indexed[s]
        /\ ~Marked(o, s) /\ ~Marked(x, s) /\ ~Holding(x, s)
    BY <1>1, <1>4, <1>6, <1>8, <1>12
  <2> QED BY <1>1, <2>1, KeptStays
<1> QED BY <1>1, <1>5, <1>10, <1>11, <1>12, ConnectorPut

\* A subscription begins, a server's own tools change: no row of these and no point does.
LEMMA ConnectorOutside ==
  ASSUME NEW n \in DOMAIN Connectors, ConnectorInv(n),
         \/ Connector(n)!CreateSource
         \/ \E s \in Connectors[n].servers, t \in Connectors[n].tools, v \in 0..Connectors[n].versions :
              Connector(n)!UpstreamChanges(s, t, v)
  PROVE  ConnectorInv(n)'
<1>1. UNCHANGED <<server, indexed, handler, upsets, apart>> /\ feed' \in {feed, "active"}
  BY DEF Connector!CreateSource, Connector!UpstreamChanges
<1>2. offers' \in [Connectors[n].servers -> Connector(n)!Caches]
  <2>0. offers \in [Connectors[n].servers -> Connector(n)!Caches]
    BY DEF ConnectorInv, ConnectorRows
  <2>1. CASE Connector(n)!CreateSource
    <3>1. offers' = offers BY <2>1 DEF Connector!CreateSource
    <3> QED BY <2>0, <3>1 DEF Connector!Caches
  <2>2. CASE \E s \in Connectors[n].servers, t \in Connectors[n].tools, v \in 0..Connectors[n].versions :
               Connector(n)!UpstreamChanges(s, t, v)
    <3>1. PICK s \in Connectors[n].servers, t \in Connectors[n].tools, v \in 0..Connectors[n].versions :
            Connector(n)!UpstreamChanges(s, t, v)
      BY <2>2
    <3> DEFINE o == offers[s]
               c == [o EXCEPT ![t] = v]
    <3>2. offers' = [offers EXCEPT ![s] = c] BY <3>1 DEF Connector!UpstreamChanges
    <3>3. o \in Connector(n)!Caches BY <2>0
    <3> HIDE DEF o
    <3>4. c \in Connector(n)!Caches BY <3>3 DEF Connector!Caches
    <3> HIDE DEF c
    <3> QED BY <2>0, <3>2, <3>4 DEF Connector!Caches
  <2> QED BY <2>1, <2>2
<1>3. ConnectorRows(n)'
  BY <1>1, <1>2
     DEF ConnectorInv, ConnectorRows, Connector!ServerRows, Connector!Caches, Connector!FeedStatus
<1>4. \A h \in Connectors[n].handlers : Handling(n, handler[h])'
  BY <1>1 DEF ConnectorInv, Handling, Fetching, Wiping, Connector!ServerRows, Connector!Caches
<1>5. ASSUME NEW s \in Connectors[n].servers \ apart' PROVE Kept(n, s)'
  <2>1. Kept(n, s) BY <1>1 DEF ConnectorInv
  <2> DEFINE K == Kept(n, s)'
  <2>2. K BY <1>1, <2>1
          DEF Kept, Connector!Enabled, Connector!NoServer, Connector!NoTools
  <2> QED BY <2>2
<1> QED BY <1>1, <1>3, <1>4, <1>5 DEF ConnectorInv

LEMMA ConnectorStep ==
  ASSUME NEW n \in DOMAIN Connectors, ConnectorInv(n), Connector(n)!Next
  PROVE  ConnectorInv(n)'
<1>1. CASE \/ Connector(n)!CreateSource
           \/ \E s \in Connectors[n].servers, t \in Connectors[n].tools, v \in 0..Connectors[n].versions :
                Connector(n)!UpstreamChanges(s, t, v)
  BY <1>1, ConnectorOutside
<1>2. CASE \E h \in Connectors[n].handlers :
             \/ Connector(n)!HandlerStep(h)
             \/ Connector(n)!DeleteSource(h) \/ Connector(n)!SyncSource(h)
             \/ Connector(n)!LoadPayloads(h)
             \/ \E s \in Connectors[n].servers :
                  \/ Connector(n)!SyncServer(h, s) \/ Connector(n)!DeleteServer(h, s)
                  \/ \E r, on \in BOOLEAN : \/ Connector(n)!CreateServer(h, s, r, on)
                                            \/ Connector(n)!UpdateServer(h, s, r, on)
                  \/ \E t \in Connectors[n].tools, e \in BOOLEAN :
                       Connector(n)!ReadSwitches(h, s, t, e)
  <2>1. PICK h \in Connectors[n].handlers :
             \/ Connector(n)!HandlerStep(h)
             \/ Connector(n)!DeleteSource(h) \/ Connector(n)!SyncSource(h)
             \/ Connector(n)!LoadPayloads(h)
             \/ \E s \in Connectors[n].servers :
                  \/ Connector(n)!SyncServer(h, s) \/ Connector(n)!DeleteServer(h, s)
                  \/ \E r, on \in BOOLEAN : \/ Connector(n)!CreateServer(h, s, r, on)
                                            \/ Connector(n)!UpdateServer(h, s, r, on)
                  \/ \E t \in Connectors[n].tools, e \in BOOLEAN :
                       Connector(n)!ReadSwitches(h, s, t, e)
    BY <1>2
  <2>2. CASE Connector(n)!HandlerStep(h)
    BY <2>2, ConnectorPlainSteps, ConnectorEdits, ConnectorWipes, ConnectorFetches,
       ConnectorWriteSwitches, ConnectorIndexSwitched, ConnectorIndexFetched, ConnectorCommits
       DEF Connector!HandlerStep
  <2>3. CASE \E s \in Connectors[n].servers, t \in Connectors[n].tools, e \in BOOLEAN :
               Connector(n)!ReadSwitches(h, s, t, e)
    BY <2>3, ConnectorReadSwitches
  <2> QED BY <2>1, <2>2, <2>3, ConnectorPlainSteps, ConnectorEdits
<1> QED BY <1>1, <1>2 DEF Connector!Next

LEMMA ConnectorPromise ==
  ASSUME NEW n \in DOMAIN Connectors, ConnectorInv(n)
  PROVE  Connector(n)!TypeOK /\ Connector(n)!OfferedWasActive /\ Connector(n)!IndexFollowsRows
<1>1. Connector(n)!TypeOK BY DEF ConnectorInv, ConnectorRows, Connector!TypeOK
<1>2. Connector(n)!OfferedWasActive BY DEF ConnectorInv, Handling, Connector!OfferedWasActive
<1>3. Connector(n)!IndexFollowsRows
  <2> SUFFICES ASSUME Connector(n)!Quiet, NEW s \in Connectors[n].servers \ apart
               PROVE  indexed[s] = Connector(n)!Enabled(server[s].cache, server[s].off)
    BY DEF Connector!IndexFollowsRows
  <2>1. \A h \in Connectors[n].handlers : ~Marked(handler[h], s)
    BY PlainIsUnmarked DEF Connector!Quiet
  <2>2. Kept(n, s) BY DEF ConnectorInv
  <2> QED BY <2>1, <2>2 DEF Kept
<1> QED BY <1>1, <1>2, <1>3

\* The switches of a row change only when the user's request writes them.
LEMMA ConnectorSwitches ==
  ASSUME NEW n \in DOMAIN Connectors, ConnectorInv(n), Connector(n)!Next
  PROVE  Connector(n)!SwitchStep
<1> SUFFICES ASSUME NEW s \in Connectors[n].servers, server[s].there, server'[s].there,
                    server'[s].off # server[s].off
             PROVE  \E h \in Connectors[n].handlers : handler[h].pc = "switch" /\ handler[h].at = s
  BY DEF Connector!SwitchStep
<1>0. server \in [Connectors[n].servers -> Connector(n)!ServerRows] BY DEF ConnectorInv, ConnectorRows
<1>1. server' # server OBVIOUS
<1>2. PICK h \in Connectors[n].handlers :
        \/ \E k \in Connectors[n].servers, r, on \in BOOLEAN :
             Connector(n)!CreateServer(h, k, r, on) \/ Connector(n)!UpdateServer(h, k, r, on)
        \/ Connector(n)!UpsertSourced(h) \/ Connector(n)!CommitCaches(h)
        \/ Connector(n)!DropRows(h) \/ Connector(n)!WriteSwitches(h)
  <2>1. ~Connector(n)!CreateSource
        /\ ~\E k \in Connectors[n].servers, t \in Connectors[n].tools, v \in 0..Connectors[n].versions :
              Connector(n)!UpstreamChanges(k, t, v)
    BY <1>1 DEF Connector!CreateSource, Connector!UpstreamChanges
  <2>2. \A h \in Connectors[n].handlers :
          /\ ~Connector(n)!SelectServers(h) /\ ~Connector(n)!IndexFetched(h)
          /\ ~Connector(n)!CommitFails(h) /\ ~Connector(n)!Wipe(h)
          /\ ~Connector(n)!IndexSwitched(h) /\ ~Connector(n)!FetchFeedFails(h)
          /\ ~Connector(n)!KeyTwice(h) /\ ~Connector(n)!SourceGone(h) /\ ~Connector(n)!Search(h)
          /\ ~Connector(n)!CollectionMissing(h) /\ ~Connector(n)!ChatEnds(h)
          /\ ~Connector(n)!DeleteSource(h) /\ ~Connector(n)!SyncSource(h)
          /\ ~Connector(n)!LoadPayloads(h)
          /\ \A r : ~Connector(n)!ReadFeed(h, r)
          /\ \A k : /\ ~Connector(n)!FetchTools(h, k) /\ ~Connector(n)!FetchFails(h, k)
                    /\ ~Connector(n)!SyncServer(h, k) /\ ~Connector(n)!DeleteServer(h, k)
                    /\ \A t, e : ~Connector(n)!ReadSwitches(h, k, t, e)
    BY <1>1 DEF Connector!SelectServers, Connector!IndexFetched, Connector!CommitFails,
                Connector!Wipe, Connector!IndexSwitched, Connector!FetchFeedFails,
                Connector!KeyTwice, Connector!SourceGone, Connector!Search,
                Connector!CollectionMissing, Connector!ChatEnds, Connector!DeleteSource,
                Connector!SyncSource, Connector!LoadPayloads, Connector!ReadFeed,
                Connector!FetchTools, Connector!FetchFails, Connector!SyncServer,
                Connector!DeleteServer, Connector!ReadSwitches
  <2> QED BY <2>1, <2>2 DEF Connector!Next, Connector!HandlerStep
<1>3. CASE Connector(n)!WriteSwitches(h)
  <2>1. handler[h].pc = "switch" BY <1>3 DEF Connector!WriteSwitches
  <2>2. \A k \in Connectors[n].servers \ {handler[h].at} : server'[k] = server[k]
    BY <1>0, <1>3 DEF Connector!WriteSwitches
  <2> QED BY <2>1, <2>2
<1>4. CASE \E k \in Connectors[n].servers, r, on \in BOOLEAN :
             Connector(n)!CreateServer(h, k, r, on)
  BY <1>0, <1>4 DEF Connector!CreateServer
<1>5. CASE Connector(n)!DropRows(h)
  <2>1. server'[s] = Connector(n)!NoServer \/ server'[s] = server[s]
    BY <1>5 DEF Connector!DropRows
  <2> QED BY <2>1, ConnectorBounds
<1>7. CASE Connector(n)!CommitCaches(h)
  <2> DEFINE r == server[s]
             c == handler[h].got[s]
  <2>1. server'[s] = r \/ server'[s] = [r EXCEPT !.cache = c]
    BY <1>7 DEF Connector!CommitCaches
  <2>2. r \in Connector(n)!ServerRows BY <1>0
  <2> HIDE DEF r, c
  <2>3. [r EXCEPT !.cache = c].off = r.off BY <2>2 DEF Connector!ServerRows
  <2>4. server'[s].off = r.off BY <2>1, <2>3
  <2> QED BY <2>4 DEF r
<1>8. ASSUME NEW k \in Connectors[n].servers, NEW a, NEW b,
             server' = [server EXCEPT ![k].remote = a, ![k].on = b]
      PROVE  server'[s].off = server[s].off
  <2> DEFINE r == server[k]
             y == [[r EXCEPT !.remote = a] EXCEPT !.on = b]
  <2>1. server' = [server EXCEPT ![k] = y] BY <1>0, <1>8
  <2>2. r \in Connector(n)!ServerRows BY <1>0
  <2> HIDE DEF r
  <2>3. y.off = r.off BY <2>2 DEF Connector!ServerRows
  <2> HIDE DEF y
  <2>4. CASE s = k BY <1>0, <2>1, <2>3, <2>4 DEF r
  <2>5. CASE s # k BY <1>0, <2>1, <2>5
  <2> QED BY <2>4, <2>5
<1>9. CASE \E k \in Connectors[n].servers, r, on \in BOOLEAN : Connector(n)!UpdateServer(h, k, r, on)
  <2>1. PICK k \in Connectors[n].servers, r \in BOOLEAN, on \in BOOLEAN :
          Connector(n)!UpdateServer(h, k, r, on)
    BY <1>9
  <2>2. server' = [server EXCEPT ![k].remote = r, ![k].on = r /\ on]
    BY <2>1 DEF Connector!UpdateServer
  <2> QED BY <1>8, <2>2
<1>10. CASE Connector(n)!UpsertSourced(h)
  <2> DEFINE r == handler[h].remote
  <2>0. handler[h].pc = "rows" /\ Handling(n, handler[h])
    BY <1>10 DEF Connector!UpsertSourced, ConnectorInv
  <2>1. handler[h].known \subseteq Connectors[n].servers BY <2>0, ConnectorBounds DEF Handling
  <2>2. CASE \E k \in handler[h].known :
               server' = [server EXCEPT ![k].remote = r, ![k].on = r /\ @]
    <3>1. PICK k \in Connectors[n].servers :
            server' = [server EXCEPT ![k].remote = r, ![k].on = r /\ @]
      BY <2>1, <2>2
    <3>2. server' = [server EXCEPT ![k].remote = r, ![k].on = r /\ server[k].on] BY <1>0, <3>1
    <3> QED BY <1>8, <3>2
  <2>3. CASE \E k \in Connectors[n].sourced : \E y :
               ~server[k].there /\ server' = [server EXCEPT ![k] = y]
    BY <1>0, <2>3
  <2> QED BY <1>10, <2>2, <2>3 DEF Connector!UpsertSourced
<1> QED BY <1>2, <1>3, <1>4, <1>5, <1>7, <1>9, <1>10

-----------------------------------------------------------------------------
(* The components together. *)

\* A component whose variables rest keeps its invariant, whatever the others do.
LEMMA UpstreamRests ==
  ASSUME NEW n \in DOMAIN Upstreams, UpstreamInv(n), UNCHANGED upstream PROVE UpstreamInv(n)'
BY DEF UpstreamInv, upstream, Evident, CallRow

\* Likewise the streams.
LEMMA RelayRests ==
  ASSUME NEW n \in DOMAIN Relays, RelayInv(n), UNCHANGED streams PROVE RelayInv(n)'
BY DEF RelayInv, streams

\* Likewise the catalogue.
LEMMA CatalogRests ==
  ASSUME NEW n \in DOMAIN Catalogs, CatalogInv(n), UNCHANGED catalog
  PROVE  CatalogInv(n)' /\ Catalog(n)!SyncStep
<1> USE DEF catalog
<1>1. CatalogRows(n)' BY DEF CatalogInv, CatalogRows
<1>2. CatalogTypes(n)' BY DEF CatalogInv, CatalogTypes, Routing
<1>3. Catalog(n)!StaleIsExplained' /\ LoadedIsExplained(n)'
  <2>1. \A v : Catalog(n)!View(v)' = Catalog(n)!View(v)
    BY DEF Catalog!View
  <2> QED BY <2>1 DEF CatalogInv, Catalog!StaleIsExplained, LoadedIsExplained, Catalog!Key
<1>4. Catalog(n)!SyncStep BY DEF Catalog!SyncStep
<1> QED BY <1>1, <1>2, <1>3, <1>4 DEF CatalogInv

\* Likewise what is remembered.
LEMMA RecallRests ==
  ASSUME NEW n \in DOMAIN Recalls, RecallInv(n), UNCHANGED memories PROVE RecallInv(n)'
<1>1. UNCHANGED <<memory, snapshot, memoEditor, altered, learned>> BY DEF memories
<1>2. RecallStores(n)' BY <1>1, RecallStoresStay
<1>3. UNCHANGED Recall(n)!chats BY DEF memories, Recall!chats
<1> QED BY <1>2, <1>3, RecallEditsPut

\* Likewise the tool servers.
LEMMA ConnectorRests ==
  ASSUME NEW n \in DOMAIN Connectors, ConnectorInv(n), UNCHANGED mcp
  PROVE  ConnectorInv(n)' /\ Connector(n)!SwitchStep
<1> USE DEF mcp
<1>1. ConnectorRows(n)' BY DEF ConnectorInv, ConnectorRows
<1>2. \A h \in Connectors[n].handlers : Handling(n, handler[h])'
  BY DEF ConnectorInv, Handling, Fetching, Wiping
<1>3. ASSUME NEW s \in Connectors[n].servers \ apart' PROVE Kept(n, s)'
  <2>1. Kept(n, s) BY DEF ConnectorInv
  <2>2. handler' = handler /\ server' = server /\ indexed' = indexed OBVIOUS
  <2>3. \A h : /\ Marked(handler[h], s)' <=> Marked(handler[h], s)
               /\ Holding(handler[h], s)' <=> Holding(handler[h], s)
    BY <2>2 DEF Marked, Dirty, Behind, Holding
  <2>4. \A h : Half(n, handler[h], s, server[s], indexed[s])
               => Half(n, handler[h], s, server[s], indexed[s])'
    BY <2>2 DEF Half, Dirty, Behind, Connector!Enabled
  <2>5. Connector(n)!Enabled(server[s].cache, server[s].off)'
          = Connector(n)!Enabled(server[s].cache, server[s].off)
    BY <2>2 DEF Connector!Enabled
  <2> QED BY <2>1, <2>2, <2>3, <2>4, <2>5 DEF Kept
<1>4. Connector(n)!SwitchStep BY DEF Connector!SwitchStep
<1> QED BY <1>1, <1>2, <1>3, <1>4 DEF ConnectorInv

\* Likewise the status streams.
LEMMA StatusRests ==
  ASSUME NEW n \in DOMAIN Viewers, StatusInv(n), UNCHANGED status PROVE StatusInv(n)'
BY DEF StatusInv, status

\* The invariant of the subject.
AgentsInv ==
  /\ \A n \in DOMAIN Upstreams : subject = n => UpstreamInv(n)
  /\ \A n \in DOMAIN Relays : subject = n => RelayInv(n)
  /\ \A n \in DOMAIN Catalogs : subject = n => CatalogInv(n)
  /\ \A n \in DOMAIN Recalls : subject = n => RecallInv(n)
  /\ \A n \in DOMAIN Connectors : subject = n => ConnectorInv(n)
  /\ \A n \in DOMAIN Viewers : subject = n => StatusInv(n)

\* The subject starts with the constants of its own row of the table.
LEMMA AgentsInit == Init => AgentsInv
<1> SUFFICES ASSUME Init PROVE AgentsInv OBVIOUS
<1>1. ASSUME NEW n \in DOMAIN Upstreams, subject = n PROVE UpstreamInv(n)
  <2>1. Upstream(n)!Init BY <1>1 DEF Init, Starts
  <2> QED BY <2>1, UpstreamInit
<1>2. ASSUME NEW n \in DOMAIN Relays, subject = n PROVE RelayInv(n)
  <2>1. Relay(n)!Init BY <1>2 DEF Init, Starts
  <2> QED BY <2>1, RelayInit
<1>3. ASSUME NEW n \in DOMAIN Catalogs, subject = n PROVE CatalogInv(n)
  <2>1. Catalog(n)!Init BY <1>3 DEF Init, Starts
  <2> QED BY <2>1, CatalogInit
<1>4. ASSUME NEW n \in DOMAIN Recalls, subject = n PROVE RecallInv(n)
  <2>1. Recall(n)!Init BY <1>4 DEF Init, Starts
  <2> QED BY <2>1, RecallInit
<1>5. ASSUME NEW n \in DOMAIN Connectors, subject = n PROVE ConnectorInv(n)
  <2>1. Connector(n)!Init BY <1>5 DEF Init, Starts
  <2> QED BY <2>1, ConnectorInit
<1>6. ASSUME NEW n \in DOMAIN Viewers, subject = n PROVE StatusInv(n)
  <2>1. Status(n)!Init BY <1>6 DEF Init, Starts
  <2> QED BY <2>1, StatusInit
<1> QED BY <1>1, <1>2, <1>3, <1>4, <1>5, <1>6 DEF AgentsInv

\* The subject moves by a step of its own, or its variables rest.
LEMMA OneMoves ==
  ASSUME [Next]_agentVars
  PROVE  /\ subject' = subject
         /\ \A n \in DOMAIN Upstreams : subject = n => Upstream(n)!Next \/ UNCHANGED upstream
         /\ \A n \in DOMAIN Relays : subject = n => Relay(n)!Next \/ UNCHANGED streams
         /\ \A n \in DOMAIN Catalogs : subject = n => Catalog(n)!Next \/ UNCHANGED catalog
         /\ \A n \in DOMAIN Recalls : subject = n => Recall(n)!Next \/ UNCHANGED memories
         /\ \A n \in DOMAIN Connectors : subject = n => Connector(n)!Next \/ UNCHANGED mcp
         /\ \A n \in DOMAIN Viewers : subject = n => Status(n)!Next \/ UNCHANGED status
<1> USE DEF Next, agentVars, UpstreamMoves, StreamsMove, CatalogMoves, AgentMoves, PlansMove,
            SandboxesMove, CodeMoves, MemoriesMove, McpMoves, StatusMoves
<1>1. subject' = subject OBVIOUS
<1>2. \A n \in DOMAIN Upstreams : subject = n => Upstream(n)!Next \/ UNCHANGED upstream OBVIOUS
<1>3. \A n \in DOMAIN Relays : subject = n => Relay(n)!Next \/ UNCHANGED streams OBVIOUS
<1>4. \A n \in DOMAIN Catalogs : subject = n => Catalog(n)!Next \/ UNCHANGED catalog OBVIOUS
<1>5. \A n \in DOMAIN Recalls : subject = n => Recall(n)!Next \/ UNCHANGED memories OBVIOUS
<1>6. \A n \in DOMAIN Connectors : subject = n => Connector(n)!Next \/ UNCHANGED mcp OBVIOUS
<1>7. \A n \in DOMAIN Viewers : subject = n => Status(n)!Next \/ UNCHANGED status OBVIOUS
<1> QED BY <1>1, <1>2, <1>3, <1>4, <1>5, <1>6, <1>7

\* Each component keeps its invariant when it moves, and rests when another does.
LEMMA AgentsStep == AgentsInv /\ [Next]_agentVars => AgentsInv'
<1> SUFFICES ASSUME AgentsInv, [Next]_agentVars PROVE AgentsInv' OBVIOUS
<1>1. subject' = subject BY OneMoves
<1>2. ASSUME NEW n \in DOMAIN Upstreams, subject = n PROVE UpstreamInv(n)'
  BY <1>2, OneMoves, UpstreamStep, UpstreamRests DEF AgentsInv
<1>3. ASSUME NEW n \in DOMAIN Relays, subject = n PROVE RelayInv(n)'
  BY <1>3, OneMoves, RelayStep, RelayRests DEF AgentsInv
<1>4. ASSUME NEW n \in DOMAIN Catalogs, subject = n PROVE CatalogInv(n)'
  BY <1>4, OneMoves, CatalogStep, CatalogRests DEF AgentsInv
<1>5. ASSUME NEW n \in DOMAIN Recalls, subject = n PROVE RecallInv(n)'
  BY <1>5, OneMoves, RecallStep, RecallRests DEF AgentsInv
<1>6. ASSUME NEW n \in DOMAIN Connectors, subject = n PROVE ConnectorInv(n)'
  BY <1>6, OneMoves, ConnectorStep, ConnectorRests DEF AgentsInv
<1>7. ASSUME NEW n \in DOMAIN Viewers, subject = n PROVE StatusInv(n)'
  BY <1>7, OneMoves, StatusStep, StatusRests DEF AgentsInv
<1> QED BY <1>1, <1>2, <1>3, <1>4, <1>5, <1>6, <1>7 DEF AgentsInv

\* In every state of every behaviour the invariant of the subject holds.
THEOREM AgentsHold == Spec => []AgentsInv
BY AgentsInit, AgentsStep, PTL DEF Spec

\* What the gateway believes is so, for any number of requests, proxies, look-ups, tasks,
\* points, edits, servers and chats, however they interleave and fail: the breaker opens on
\* failures that happened, a stream is settled once and tried through another proxy each
\* time, a stale view has a known cause, a message is read or awaited, what was learned is
\* kept, tools offered were active and indexed as the rows say, and no workflow runs on
\* without its stream.
THEOREM WhatIsBelievedIsSo == Spec => []BeliefsAreSound
<1>1. AgentsInv => BeliefsAreSound
  <2> SUFFICES ASSUME AgentsInv PROVE BeliefsAreSound OBVIOUS
  <2>1. \A n \in DOMAIN Upstreams : subject = n => Upstream(n)!OpensOnEvidence
    BY UpstreamPromise DEF AgentsInv
  <2>2. \A n \in DOMAIN Relays :
          subject = n => Relay(n)!SettledOnce /\ Relay(n)!OtherProxyEachTime
    BY RelayPromise DEF AgentsInv
  <2>3. \A n \in DOMAIN Catalogs : subject = n => Catalog(n)!StaleIsExplained
    BY CatalogPromise DEF AgentsInv
  <2>4. \A n \in DOMAIN Recalls :
          subject = n => Recall(n)!MessageAwaited /\ Recall(n)!NothingForgotten
    BY RecallPromise DEF AgentsInv
  <2>5. \A n \in DOMAIN Connectors :
          subject = n => Connector(n)!OfferedWasActive /\ Connector(n)!IndexFollowsRows
    BY ConnectorPromise DEF AgentsInv
  <2>6. \A n \in DOMAIN Viewers : subject = n => Status(n)!NoneRunsOn
    BY StatusPromise DEF AgentsInv
  <2> QED BY <2>1, <2>2, <2>3, <2>4, <2>5, <2>6 DEF BeliefsAreSound
<1> QED BY <1>1, AgentsHold, PTL

\* A synchronisation that ends late changes neither the models the user has switched off or
\* added nor the switches of tools.
THEOREM SettingsStayTheUsers == Spec => SettingsAreTheUsers
<1>1. AgentsInv /\ [Next]_agentVars =>
        [ /\ \A n \in DOMAIN Catalogs : subject = n => Catalog(n)!SyncStep
          /\ \A n \in DOMAIN Connectors : subject = n => Connector(n)!SwitchStep ]_agentVars
  <2> SUFFICES ASSUME AgentsInv, [Next]_agentVars
               PROVE  /\ \A n \in DOMAIN Catalogs : subject = n => Catalog(n)!SyncStep
                      /\ \A n \in DOMAIN Connectors : subject = n => Connector(n)!SwitchStep
    OBVIOUS
  <2>1. \A n \in DOMAIN Catalogs : subject = n => Catalog(n)!SyncStep
    BY OneMoves, CatalogSync, CatalogRests DEF AgentsInv
  <2>2. \A n \in DOMAIN Connectors : subject = n => Connector(n)!SwitchStep
    BY OneMoves, ConnectorSwitches, ConnectorRests DEF AgentsInv
  <2> QED BY <2>1, <2>2
<1> QED BY <1>1, AgentsHold, PTL DEF Spec, SettingsAreTheUsers

=============================================================================
