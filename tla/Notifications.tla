--------------------------- MODULE Notifications ----------------------------
(***************************************************************************)
(* Notifications to users: a row, a receipt of it for each user, and the   *)
(* websocket that shows new ones. Beside them the outer channels of one    *)
(* user (chat bots, webhooks, mail), tried in the order of their priority, *)
(* and the Celery task that alerts the user through them: of a monitor's   *)
(* result, its suspension, or a dead letter.                               *)
(***************************************************************************)
EXTENDS Integers, Sequences

CONSTANTS
  Notes,         \* notifications
  Readers,       \* users
  Online,        \* the users among them who open their inbox
  Posters,       \* Celery workers that deliver notifications
  MaxFaulty,     \* bound: crashes and lost messages
  ChannelOrder,  \* the user's channels in the order of their priority
  AlertRetries   \* RETRY_MAX of the notification worker

VARIABLES
  notice,   \* notice[n]: "none", or the readers it is for
  outbox,   \* notifications whose delivery task is on its way
  poster,   \* poster[p]: the notification it delivers, readers left, the open batch
  receipt,  \* receipt[n][u]: created_at (0: no receipt), read, archived
  wall,     \* stamps given to receipts so far
  socket,   \* socket[u]: the websocket of a reader
  restRead, \* restRead[u]: what a REST call reported as read
  faulty,   \* faults so far
  channel,  \* channel[c]: "none", "on" or "off"
  alert     \* the alert's task: channels left, offered, and what they answered

inboxVars == <<notice, outbox, poster, receipt, wall, socket, restRead, faulty>>
channelVars == <<channel, alert>>
notificationVars == <<inboxVars, channelVars>>

NoNote == "none"
\* A row of notification: the readers it is for; of notification_receipt: at is 0
\* when there is none.
NoticeRows == SUBSET Readers
ReceiptRows == [at : Nat, read : BOOLEAN, archived : BOOLEAN]
NoReceipt == [at |-> 0, read |-> FALSE, archived |-> FALSE]
Resting == [note |-> NoNote, left |-> {}, batch |-> {}, stamp |-> 0]
Closed == [on |-> FALSE, cursor |-> 0, shown |-> {}, marks |-> {}, acked |-> {}]

Channels == {ChannelOrder[i] : i \in DOMAIN ChannelOrder}
\* The row of user_notification_channel: absent, active or switched off.
ChannelRows == {"none", "on", "off"}
NoAlert == [at |-> "idle", left |-> {}, offered |-> {}, sent |-> {}, refused |-> {},
            all |-> FALSE, tries |-> 0]

Init ==
  /\ notice = [n \in Notes |-> {}]
  /\ outbox = {}
  /\ poster = [p \in Posters |-> Resting]
  /\ receipt = [n \in Notes |-> [u \in Readers |-> NoReceipt]]
  /\ wall = 0
  /\ socket = [u \in Readers |-> Closed]
  /\ restRead = [u \in Readers |-> {}]
  /\ faulty = 0
  /\ channel = [c \in Channels |-> "none"]
  /\ alert = NoAlert

Faulty == faulty < MaxFaulty /\ faulty' = faulty + 1

-----------------------------------------------------------------------------
(* Publishing *)

\* publish_to_user and publish_to_all: the row is committed, and the hook after the
\* commit sends the task, unless the process dies in between.
Publish(n, readers) ==
  /\ notice[n] = {}
  /\ notice' = [notice EXCEPT ![n] = readers]
  /\ \/ outbox' = outbox \cup {n} /\ UNCHANGED faulty
     \/ Faulty /\ UNCHANGED outbox
  /\ UNCHANGED <<poster, receipt, wall, socket, restRead>>

StartDelivery(p, n) ==
  /\ poster[p] = Resting
  /\ n \in outbox
  /\ outbox' = outbox \ {n}
  /\ poster' = [poster EXCEPT ![p] = [Resting EXCEPT !.note = n, !.left = notice[n]]]
  /\ UNCHANGED <<notice, receipt, wall, socket, restRead, faulty>>

\* _insert_receipts of one batch; created_at is the time of the insertion.
InsertBatch(p, u) ==
  /\ u \in poster[p].left
  /\ poster[p].batch = {}
  /\ wall' = wall + 1
  /\ poster' = [poster EXCEPT ![p].batch = {u}, ![p].stamp = wall + 1]
  /\ UNCHANGED <<notice, outbox, receipt, socket, restRead, faulty>>

\* Mutant of CommitBatch: the first batch is all that is delivered.
CommitOnlyBatch(p) ==
  LET n == poster[p].note IN
  /\ poster[p].batch # {}
  /\ receipt' = [receipt EXCEPT ![n] = [u \in Readers |->
       IF u \in poster[p].batch /\ @[u] = NoReceipt THEN [NoReceipt EXCEPT !.at = poster[p].stamp]
                                                    ELSE @[u]]]
  /\ poster' = [poster EXCEPT ![p] = Resting]
  /\ UNCHANGED <<notice, outbox, wall, socket, restRead, faulty>>

\* Its commit; a reader who has a receipt keeps it (ON CONFLICT DO NOTHING).
CommitBatch(p) ==
  LET n == poster[p].note
      rest == poster[p].left \ poster[p].batch
  IN
  /\ poster[p].batch # {}
  /\ receipt' = [receipt EXCEPT ![n] = [u \in Readers |->
       IF u \in poster[p].batch /\ @[u] = NoReceipt THEN [NoReceipt EXCEPT !.at = poster[p].stamp]
                                                    ELSE @[u]]]
  /\ poster' = [poster EXCEPT ![p] =
       IF rest = {} THEN Resting ELSE [@ EXCEPT !.left = rest, !.batch = {}, !.stamp = 0]]
  /\ UNCHANGED <<notice, outbox, wall, socket, restRead, faulty>>

\* The task raises or its worker dies: the batches committed stay, nothing retries.
DeliveryFails(p) ==
  /\ poster[p] # Resting
  /\ Faulty
  /\ poster' = [poster EXCEPT ![p] = Resting]
  /\ UNCHANGED <<notice, outbox, receipt, wall, socket, restRead>>

-----------------------------------------------------------------------------
(* The inbox *)

\* Receipts that reader u has, as a transaction sees them.
Inbox(u) == {n \in Notes : receipt[n][u].at # 0 /\ ~receipt[n][u].archived}

Latest(u, ns) == LET at == {receipt[n][u].at : n \in ns} IN
  CHOOSE t \in at \cup {0} : \A s \in at : s <= t

\* notifications_ws accepts and sends the snapshot; its cursor is the last receipt.
Connect(u) ==
  /\ ~socket[u].on
  /\ socket' = [socket EXCEPT ![u] =
       [Closed EXCEPT !.on = TRUE, !.shown = Inbox(u), !.cursor = Latest(u, Inbox(u))]]
  /\ UNCHANGED <<notice, outbox, poster, receipt, wall, restRead, faulty>>

\* fetch_since: later receipts than the cursor; without a cursor, none.
Poll(u) ==
  LET new == {n \in Inbox(u) : socket[u].cursor # 0 /\ receipt[n][u].at > socket[u].cursor} IN
  /\ socket[u].on
  /\ new # {}
  /\ socket' = [socket EXCEPT ![u].shown = @ \cup new, ![u].cursor = Latest(u, new)]
  /\ UNCHANGED <<notice, outbox, poster, receipt, wall, restRead, faulty>>

\* mark_read over the websocket: an UPDATE in its transaction, acknowledged.
SocketMark(u, n) ==
  /\ socket[u].on
  /\ n \in socket[u].shown
  /\ socket' = [socket EXCEPT ![u].marks = @ \cup {n}, ![u].acked = @ \cup {n}]
  /\ UNCHANGED <<notice, outbox, poster, receipt, wall, restRead, faulty>>

\* The session ends without a commit.
Disconnect(u) ==
  /\ socket[u].on
  /\ socket' = [socket EXCEPT ![u] = [Closed EXCEPT !.acked = socket[u].acked]]
  /\ UNCHANGED <<notice, outbox, poster, receipt, wall, restRead, faulty>>

\* The REST calls for one and for all commit; they wait while the websocket's
\* transaction has a row of theirs locked.
RestMark(u, ns) ==
  /\ ns \cap socket[u].marks = {}
  /\ receipt' = [n \in Notes |-> IF n \in ns THEN [receipt[n] EXCEPT ![u].read = TRUE] ELSE receipt[n]]
  /\ restRead' = [restRead EXCEPT ![u] = @ \cup ns]
  /\ UNCHANGED <<notice, outbox, poster, wall, socket, faulty>>

\* clear_all archives.
Clear(u) ==
  /\ Inbox(u) # {}
  /\ Inbox(u) \cap socket[u].marks = {}
  /\ receipt' = [n \in Notes |-> IF n \in Inbox(u) THEN [receipt[n] EXCEPT ![u].archived = TRUE]
                                                   ELSE receipt[n]]
  /\ UNCHANGED <<notice, outbox, poster, wall, socket, restRead, faulty>>

-----------------------------------------------------------------------------
(* Alerts over the outer channels *)

\* create_channel (one of each kind), update_channel and delete_channel.
SetChannel(c, state) ==
  /\ channel[c] # state
  /\ (channel[c] = "none") => state = "on"
  /\ channel' = [channel EXCEPT ![c] = state]
  /\ UNCHANGED alert

On(c) == channel[c] = "on"

\* notification_task: the active channels by priority; with channel_ids every one
\* of them gets the message, else the first that takes it.
Offer(all, tries) ==
  LET active == {c \in Channels : On(c)} IN
  alert' = [NoAlert EXCEPT !.at = "sending", !.left = active, !.offered = active,
                           !.all = all, !.tries = tries]

Notify(all) ==
  /\ alert.at \in {"idle", "done", "dead"}
  /\ Offer(all, 0)
  /\ UNCHANGED channel

\* c is the one with the highest priority of those that are left.
First(c) ==
  /\ c \in alert.left
  /\ \E i \in DOMAIN ChannelOrder :
       ChannelOrder[i] = c /\ \A j \in 1..(i - 1) : ChannelOrder[j] \notin alert.left

\* One sender's answer: stop at the first success, fall back after a refusal.
SendNext(c, ok) ==
  /\ alert.at = "sending"
  /\ First(c)
  /\ alert' = [alert EXCEPT
       !.sent = IF ok THEN @ \cup {c} ELSE @,
       !.refused = IF ok THEN @ ELSE @ \cup {c},
       !.left = IF ok /\ ~alert.all THEN {} ELSE @ \ {c}]
  /\ UNCHANGED channel

AlertDone ==
  /\ alert.at = "sending"
  /\ alert.left = {}
  /\ alert' = [alert EXCEPT !.at = "done"]
  /\ UNCHANGED channel

\* Mutant of AlertRaises: one attempt too many.
AlertRaisesAgain ==
  /\ alert.at = "sending"
  /\ IF alert.tries <= AlertRetries THEN Offer(alert.all, alert.tries + 1)
                                    ELSE alert' = [alert EXCEPT !.at = "dead"]
  /\ UNCHANGED channel

\* A secret or a commit raises: Celery runs the task again from the start, and
\* after the last attempt it becomes a dead letter.
AlertRaises ==
  /\ alert.at = "sending"
  /\ IF alert.tries < AlertRetries THEN Offer(alert.all, alert.tries + 1)
                                   ELSE alert' = [alert EXCEPT !.at = "dead"]
  /\ UNCHANGED channel

-----------------------------------------------------------------------------
Deliver(p) ==
  \/ \E n \in Notes : StartDelivery(p, n)
  \/ CommitBatch(p)
  \/ \E u \in Readers : InsertBatch(p, u)

InboxNext ==
  \/ \E n \in Notes, u \in Readers : Publish(n, Readers) \/ Publish(n, {u})
  \/ \E p \in Posters : Deliver(p) \/ DeliveryFails(p)
  \/ \E u \in Online :
       \/ Connect(u) \/ Poll(u) \/ Disconnect(u) \/ Clear(u) \/ RestMark(u, Inbox(u))
       \/ \E n \in Notes : SocketMark(u, n) \/ (n \in Inbox(u) /\ RestMark(u, {n}))

ChannelNext ==
  \/ \E c \in Channels, state \in ChannelRows : SetChannel(c, state)
  \/ \E all \in BOOLEAN : Notify(all)
  \/ \E c \in Channels, ok \in BOOLEAN : SendNext(c, ok)
  \/ AlertDone \/ AlertRaises

\* The inbox and the channels have nothing in common.
Next ==
  \/ InboxNext /\ UNCHANGED channelVars
  \/ ChannelNext /\ UNCHANGED inboxVars

\* Tasks are run, and a websocket polls every two seconds.
Fairness ==
  /\ \A p \in Posters : WF_inboxVars(Deliver(p))
  /\ \A u \in Online : WF_inboxVars(Poll(u))

Spec == Init /\ [][Next]_notificationVars /\ Fairness

-----------------------------------------------------------------------------
\* Notifications, receipts, sockets, channels and the alert stay in range.
TypeOK ==
  /\ notice \in [Notes -> NoticeRows]
  /\ outbox \subseteq Notes
  /\ receipt \in [Notes -> [Readers -> ReceiptRows]]
  /\ \A u \in Readers : socket[u].shown \cup socket[u].marks \cup restRead[u] \subseteq Notes
  /\ channel \in [Channels -> ChannelRows]
  /\ alert.at \in {"idle", "sending", "done", "dead"}
  /\ alert.sent \cup alert.refused \subseteq alert.offered
  /\ alert.tries \in 0..AlertRetries

\* What a REST call reported as read is read in the database.
ReportedIsRead == \A u \in Readers, n \in Notes : n \in restRead[u] => receipt[n][u].read

\* An alert that reached nobody was refused by every channel that was on when it
\* was sent, and one for named channels was offered to all of them (notify_user).
TriedEverything ==
  alert.at = "done" => /\ alert.sent = {} => alert.refused = alert.offered
                       /\ alert.all => alert.sent \cup alert.refused = alert.offered

\* Unless a process fails, a notification reaches everybody it is for, in whatever
\* batches (publish_notification_to_all_users_task).
EverybodyGetsIt ==
  \A n \in Notes : []<>(faulty > 0 \/ \A u \in notice[n] : receipt[n][u].at # 0)

\* What the websocket acknowledged as read is read once the connection is over.
\* Not so: its session ends without a commit.
AcknowledgedIsRead ==
  \A u \in Readers, n \in Notes : (~socket[u].on /\ n \in socket[u].acked) => receipt[n][u].read

\* A notification that arrives while its reader stays connected is shown to him.
\* Not so: with an empty inbox the cursor is empty, and nothing is later than that.
ShownWhileConnected ==
  \A u \in Readers, n \in Notes :
    <>[](socket[u].on) => [](n \in Inbox(u) => <>(n \in socket[u].shown \/ n \notin Inbox(u)))
=============================================================================
