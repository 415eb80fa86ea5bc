----------------------------- MODULE Recharges -----------------------------
(***************************************************************************)
(* Recharges paid with Alipay, and the administrators' adjustments, as the *)
(* database keeps them: the order, the transaction with its unique trace   *)
(* id, and the balance of one tenant (its Redis hash is QuotaLedger's).    *)
(* Alipay notifies until it is answered "success"; the user may ask for    *)
(* the status with refresh, which queries the trade; both settle the order *)
(* with the same code, in any number of handlers at a time.                *)
(*                                                                         *)
(* A handler's session flushes only when it is told to or commits, and     *)
(* writes only the columns that differ from what it loaded. get_or_create  *)
(* commits whatever the session holds when it has to create the quota row  *)
(* or to reset it for a new day. An order is paid as a whole, so its       *)
(* amount is 1 and it is worth the policy's credits per unit. The order is *)
(* committed before its pay_url is returned, so a notification finds it.   *)
(***************************************************************************)
EXTENDS Integers, FiniteSets, FiniteSetsExt

CONSTANTS
  Orders,       \* out_trade_no's
  Handlers,     \* requests being handled
  Rates,        \* credits per unit the policy may set
  MaxDays,      \* bound on the days that begin
  MaxAdjusts,   \* bound on the adjustments, each by 1
  MaxCrashes    \* bound on handlers that die

VARIABLES
  policy,       \* credit_per_unit
  trade,        \* trade[o]: the trade at Alipay
  acked,        \* orders whose notification was answered "success"
  order,        \* order[o]: the row
  txn,          \* txn[o]: the recharge's transaction
  quota,        \* the tenant's quota row
  handler,      \* handler[h]
  adjusted,     \* adjustments started so far, their transactions, and those without one
  days, crashes

rechargeVars == <<policy, trade, acked, order, txn, quota, handler, adjusted, days, crashes>>

Order == [status : {"absent", "PENDING", "SUCCESS", "FAILED"}, credit : {0} \cup Rates,
          settled : BOOLEAN]
NoOrder == [status |-> "absent", credit |-> 0, settled |-> FALSE]

\* paid: the balance was raised for it (the statement that does is committed with it).
Txn == [status : {"absent", "PENDING", "COMMITTED"}, amount : {0} \cup Rates, paid : BOOLEAN]
NoTxn == [status |-> "absent", amount |-> 0, paid |-> FALSE]

Handler == [at : {"idle", "query", "apply", "lookup", "open", "insert", "reopen", "credit",
                  "finish", "settle", "deduct", "write", "book"},
            kind : {"none", "notify", "refresh", "raise", "lower"},
            order : Orders \cup {"none"}, saw : {"none", "wait", "paid", "closed"},
            loaded : Order, rate : {0} \cup Rates, version : Int]
Idle == [at |-> "idle", kind |-> "none", order |-> "none", saw |-> "none", loaded |-> NoOrder,
         rate |-> 0, version |-> 0]

Init ==
  /\ policy \in Rates
  /\ trade = [o \in Orders |-> "wait"]
  /\ acked = {}
  /\ order = [o \in Orders |-> NoOrder]
  /\ txn = [o \in Orders |-> NoTxn]
  /\ quota = [today |-> FALSE, balance |-> 0, version |-> 0]
  /\ handler = [h \in Handlers |-> Idle]
  /\ adjusted = [started |-> 0, booked |-> 0, unbooked |-> 0, sum |-> 0]
  /\ days = 0 /\ crashes = 0

At(h, s) == handler[h].at = s
Goes(h, s) == handler' = [handler EXCEPT ![h].at = s]
Ends(h) == handler' = [handler EXCEPT ![h] = Idle]

Alipay == <<policy, trade>>
Bounds == <<days, crashes>>

-----------------------------------------------------------------------------
(* The order, and what happens at Alipay *)

CreateOrder(o) ==
  /\ order[o] = NoOrder
  /\ order' = [order EXCEPT ![o] = [@ EXCEPT !.status = "PENDING", !.credit = policy]]
  /\ UNCHANGED <<Alipay, acked, txn, quota, handler, adjusted, Bounds>>

Pay(o) ==
  /\ order[o] # NoOrder /\ trade[o] = "wait"
  /\ trade' = [trade EXCEPT ![o] = "paid"]
  /\ UNCHANGED <<policy, acked, order, txn, quota, handler, adjusted, Bounds>>

Close(o) ==
  /\ order[o] # NoOrder /\ trade[o] = "wait"
  /\ trade' = [trade EXCEPT ![o] = "closed"]
  /\ UNCHANGED <<policy, acked, order, txn, quota, handler, adjusted, Bounds>>

SetPolicy ==
  /\ policy' \in Rates \ {policy}
  /\ UNCHANGED <<trade, acked, order, txn, quota, handler, adjusted, Bounds>>

NewDay ==
  /\ days < MaxDays
  /\ days' = days + 1
  /\ quota' = [quota EXCEPT !.today = FALSE]
  /\ UNCHANGED <<Alipay, acked, order, txn, handler, adjusted, crashes>>

-----------------------------------------------------------------------------
(* Notification and status query *)

\* A notification Alipay signed, for this application, of a successful trade and its
\* amount: any other is answered at once.
Genuine(o) == trade[o] = "paid"

Notify(h, o) ==
  /\ At(h, "idle") /\ Genuine(o) /\ o \notin acked
  /\ handler' = [handler EXCEPT ![h] = [Idle EXCEPT !.at = "apply", !.kind = "notify",
                   !.order = o, !.saw = "paid", !.loaded = order[o]]]
  /\ UNCHANGED <<Alipay, acked, order, txn, quota, adjusted, Bounds>>

Refresh(h, o) ==
  /\ At(h, "idle") /\ order[o].status \in {"PENDING", "FAILED"}
  /\ handler' = [handler EXCEPT ![h] = [Idle EXCEPT !.at = "query", !.kind = "refresh",
                   !.order = o, !.loaded = order[o]]]
  /\ UNCHANGED <<Alipay, acked, order, txn, quota, adjusted, Bounds>>

\* query_trade; an error is noted in the order's row, whose status stays.
QueryTrade(h) ==
  /\ At(h, "query")
  /\ \/ handler' = [handler EXCEPT ![h].at = "apply", ![h].saw = trade[handler[h].order]]
     \/ Ends(h)
  /\ UNCHANGED <<Alipay, acked, order, txn, quota, adjusted, Bounds>>

StatusOf(saw) == CASE saw = "paid" -> "SUCCESS" [] saw = "closed" -> "FAILED" [] OTHER -> "PENDING"

\* The columns of the order that the handler has changed since it loaded it.
Flushed(h, settled) ==
  LET l == handler[h].loaded
      s == StatusOf(handler[h].saw)
      c == IF handler[h].rate = 0 THEN l.credit ELSE handler[h].rate IN
  [order EXCEPT ![handler[h].order] =
     [status  |-> IF s # l.status THEN s ELSE @.status,
      credit  |-> IF c # l.credit THEN c ELSE @.credit,
      settled |-> @.settled \/ settled]]

\* _apply_alipay_order_update: what is not paid is written and done with; for what is,
\* the policy is read.
Apply(h) ==
  /\ At(h, "apply")
  /\ IF StatusOf(handler[h].saw) # "SUCCESS"
     THEN Ends(h) /\ order' = Flushed(h, FALSE)
     ELSE /\ handler' = [handler EXCEPT ![h].at = "lookup", ![h].rate = policy]
          /\ UNCHANGED order
  /\ UNCHANGED <<Alipay, acked, txn, quota, adjusted, Bounds>>

-----------------------------------------------------------------------------
(* recharge *)

LookUp(h) ==
  /\ At(h, "lookup")
  /\ Goes(h, IF txn[handler[h].order] = NoTxn THEN "open" ELSE "settle")
  /\ UNCHANGED <<Alipay, acked, order, txn, quota, adjusted, Bounds>>

\* get_or_create commits only if it changes the quota row.
OpenQuota(h) ==
  /\ At(h, "open")
  /\ Goes(h, "insert")
  /\ quota' = [quota EXCEPT !.today = TRUE]
  /\ order' = IF quota.today THEN order ELSE Flushed(h, FALSE)
  /\ UNCHANGED <<Alipay, acked, txn, adjusted, Bounds>>

\* The orders whose trace id some session has inserted and not committed.
Inserting == {handler[k].order : k \in {k \in Handlers : handler[k].at \in {"reopen", "credit"}}}

\* Mutant of Insert: trace_id is not unique.
InsertAnyway(h) ==
  /\ At(h, "insert")
  /\ Goes(h, "reopen")
  /\ UNCHANGED <<Alipay, acked, order, txn, quota, adjusted, Bounds>>

\* The flush: it waits for a session that inserts the same trace id, and fails if that
\* one commits (the IntegrityError ends the request, unanswered).
Insert(h) ==
  /\ At(h, "insert") /\ handler[h].order \notin Inserting
  /\ IF txn[handler[h].order] = NoTxn THEN Goes(h, "reopen") ELSE Ends(h)
  /\ UNCHANGED <<Alipay, acked, order, txn, quota, adjusted, Bounds>>

\* get_or_create of add_balance: it commits the PENDING transaction on a new day.
Reopen(h) ==
  LET o == handler[h].order IN
  /\ At(h, "reopen")
  /\ Goes(h, "credit")
  /\ quota' = [quota EXCEPT !.today = TRUE]
  /\ IF quota.today
     THEN UNCHANGED <<order, txn>>
     ELSE /\ order' = Flushed(h, FALSE)
          /\ txn' = [txn EXCEPT ![o] = [status |-> "PENDING", amount |-> handler[h].rate,
                                        paid |-> FALSE]]
  /\ UNCHANGED <<Alipay, acked, adjusted, Bounds>>

\* add_balance: the balance, the transaction and the order in one commit.
Credit(h) ==
  LET o == handler[h].order IN
  /\ At(h, "credit")
  /\ Goes(h, "finish")
  /\ quota' = [quota EXCEPT !.balance = @ + handler[h].rate, !.version = @ + 1]
  /\ txn' = [txn EXCEPT ![o] = [status |-> "PENDING", amount |-> handler[h].rate, paid |-> TRUE]]
  /\ order' = Flushed(h, FALSE)
  /\ UNCHANGED <<Alipay, acked, adjusted, Bounds>>

Finish(h) ==
  /\ At(h, "finish")
  /\ Goes(h, "settle")
  /\ txn' = [txn EXCEPT ![handler[h].order].status = "COMMITTED"]
  /\ UNCHANGED <<Alipay, acked, order, quota, adjusted, Bounds>>

\* A transaction found, PENDING or COMMITTED, settles the order as well. Alipay is
\* answered.
Settle(h) ==
  /\ At(h, "settle")
  /\ order' = Flushed(h, TRUE)
  /\ acked' = IF handler[h].kind = "notify" THEN acked \cup {handler[h].order} ELSE acked
  /\ Ends(h)
  /\ UNCHANGED <<Alipay, txn, quota, adjusted, Bounds>>

-----------------------------------------------------------------------------
(* adjust_balance *)

\* add_balance, or check_and_deduct, which reads the row first.
Adjust(h) ==
  /\ At(h, "idle") /\ adjusted.started < MaxAdjusts
  /\ \/ handler' = [handler EXCEPT ![h].at = "write", ![h].kind = "raise"]
     \/ handler' = [handler EXCEPT ![h].at = "deduct", ![h].kind = "lower"]
  /\ adjusted' = [adjusted EXCEPT !.started = @ + 1]
  /\ UNCHANGED <<Alipay, acked, order, txn, quota, Bounds>>

CheckAndDeduct(h) ==
  /\ At(h, "deduct")
  /\ handler' = [handler EXCEPT ![h].at = "write", ![h].version = quota.version]
  /\ UNCHANGED <<Alipay, acked, order, txn, quota, adjusted, Bounds>>

Change(h) == IF handler[h].kind = "raise" THEN 1 ELSE -1

\* The deduction is for the version that was read; if it has changed, it starts again.
WriteBalance(h) ==
  /\ At(h, "write")
  /\ IF handler[h].kind = "lower" /\ handler[h].version # quota.version
     THEN Goes(h, "deduct") /\ UNCHANGED <<quota, adjusted>>
     ELSE /\ Goes(h, "book")
          /\ quota' = [quota EXCEPT !.balance = @ + Change(h), !.version = @ + 1]
          /\ adjusted' = [adjusted EXCEPT !.unbooked = @ + Change(h)]
  /\ UNCHANGED <<Alipay, acked, order, txn, Bounds>>

BookAdjustment(h) ==
  /\ At(h, "book")
  /\ Ends(h)
  /\ adjusted' = [adjusted EXCEPT !.unbooked = @ - Change(h), !.sum = @ + Change(h),
                                  !.booked = @ + 1]
  /\ UNCHANGED <<Alipay, acked, order, txn, quota, Bounds>>

-----------------------------------------------------------------------------
\* A handler dies: what its session has not committed is gone.
Die(h) ==
  /\ ~At(h, "idle") /\ crashes < MaxCrashes
  /\ crashes' = crashes + 1
  /\ Ends(h)
  /\ UNCHANGED <<Alipay, acked, order, txn, quota, adjusted, days>>

HandlerStep(h) ==
  \/ QueryTrade(h) \/ Apply(h) \/ LookUp(h) \/ OpenQuota(h) \/ Insert(h) \/ Reopen(h)
  \/ Credit(h) \/ Finish(h) \/ Settle(h) \/ CheckAndDeduct(h) \/ WriteBalance(h)
  \/ BookAdjustment(h)

Next ==
  \/ \E o \in Orders : CreateOrder(o) \/ Pay(o) \/ Close(o)
  \/ SetPolicy \/ NewDay
  \/ \E h \in Handlers :
       \/ \E o \in Orders : Notify(h, o) \/ Refresh(h, o)
       \/ Adjust(h) \/ HandlerStep(h) \/ Die(h)

\* Requests run on; Alipay repeats a notification until it is answered.
Spec ==
  /\ Init /\ [][Next]_rechargeVars
  /\ \A h \in Handlers : WF_rechargeVars(HandlerStep(h))
  /\ \A o \in Orders : SF_rechargeVars(\E h \in Handlers : Notify(h, o))

-----------------------------------------------------------------------------
\* Types: what Alipay, the tables and the handlers of a recharge hold.
TypeOK ==
  /\ policy \in Rates
  /\ trade \in [Orders -> {"wait", "paid", "closed"}]
  /\ acked \subseteq Orders
  /\ order \in [Orders -> Order]
  /\ txn \in [Orders -> Txn]
  /\ quota \in [today : BOOLEAN, balance : Int, version : Nat]
  /\ handler \in [Handlers -> Handler]
  /\ adjusted \in [started : 0..MaxAdjusts, booked : 0..MaxAdjusts, unbooked : Int, sum : Int]
  /\ days \in 0..MaxDays /\ crashes \in 0..MaxCrashes

\* However often Alipay notifies and the user refreshes, and whoever dies between two
\* commits, the balance is what the transactions say: every paid order is credited once,
\* at the rate its transaction records, and every adjustment once (one whose handler has
\* not come to its transaction, or died before it, is not in the books).
BalanceIsBooks ==
  quota.balance = MapThenSumSet(LAMBDA o : IF txn[o].paid THEN txn[o].amount ELSE 0, Orders)
                    + adjusted.sum + adjusted.unbooked

\* An order that is settled stays settled, and is so for a trade that was paid: a query
\* answered before the payment does not take it back.
SettledStays ==
  [][\A o \in Orders : /\ order[o].settled => order'[o].settled /\ order'[o].status = "SUCCESS"
                       /\ order'[o].status = "SUCCESS" => trade[o] = "paid"]_rechargeVars

\* Whoever pays gets the credits.
PaidIsCredited == \A o \in Orders : []<>(trade[o] = "paid" => txn[o].paid)

\* An order shown as SUCCESS is credited. Not so: get_or_create commits the status
\* before the credit.
SuccessIsCredited == \A o \in Orders : order[o].status = "SUCCESS" => txn[o].paid

\* The amount shown as credited is the transaction's. Not so: a repeated notification
\* writes the policy of that moment into the order.
ShownIsCredited ==
  \A o \in Orders : order[o].settled /\ txn[o].paid => order[o].credit = txn[o].amount

=============================================================================
