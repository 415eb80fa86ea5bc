---------------------------- MODULE QuotaLedger ----------------------------
(***************************************************************************)
(* The balance and the request counters of one tenant, kept twice: in a    *)
(* Redis hash that Lua scripts update atomically, and in the row           *)
(* tenant_quota of the database.  The writers are                          *)
(*   proxy    a credits-proxy request: quota_precheck, the upstream call,  *)
(*            record_and_adjust;                                           *)
(*   gateway  a request of the gateway workflow, whose quota_check finds   *)
(*            no pricing and prechecks an estimate of 0;                   *)
(*   stream   a streamed gateway request, which creates a PENDING          *)
(*            transaction before its stream ends;                          *)
(*   direct   BillingRepository.deduct (a purchase, a degraded precheck);  *)
(*   recharge BillingRepository.recharge;                                  *)
(* and the periodic task that copies the hash to the row.                  *)
(*                                                                         *)
(* A request is a sequence of stages; every await between two accesses to  *)
(* Redis or to the database ends a stage, so the stages of different       *)
(* requests interleave as their coroutines and processes may.  Amounts are *)
(* counted in the smallest unit of the Decimal columns, Unit of them to    *)
(* one credit.  Left out: the version counter (no decision of these paths  *)
(* reads it), changes of the limits, and running without Redis.            *)
(***************************************************************************)
EXTENDS Integers, FiniteSets, FiniteSetsExt

CONSTANTS
  Work,         \* Work[r]: request, purchase or recharge r of the tenant
  Opening,      \* the balance of the row at the start
  CreditLimit,  \* tenant_quota.credit_limit
  Limit,        \* Limit[w]: daily_quota and monthly_quota
  Unit,         \* smallest units in one credit
  LastDay,      \* bound on the days that pass
  DaysPerMonth, \* bound: how many of them make a month
  Cold,         \* TRUE: the hash does not exist at the start
  MayFail,      \* TRUE: upstream calls, commits and Redis writes may fail
  MayExpire,    \* TRUE: the hash and the warming lock may expire
  NoOne,        \* nobody holds the lock
  NoHash        \* the hash does not exist

Kinds == {"proxy", "gateway", "stream", "direct", "recharge"}
Windows == {"daily", "monthly"}
Requests == DOMAIN Work
Kind == [r \in Requests |-> Work[r].kind]         \* which of the writers r is
Trace == [r \in Requests |-> Work[r].trace]       \* its trace_id, the idempotency key
Estimate == [r \in Requests |-> Work[r].estimate] \* estimate_cost(pricing, max_tokens)
Amount == [r \in Requests |-> Work[r].amount]     \* what r really costs, or credits
Traces == {Trace[r] : r \in Requests}

ASSUME LedgerAssumption ==
  /\ IsFiniteSet(Requests)
  /\ NoOne \notin Requests
  /\ Kind \in [Requests -> Kinds]
  /\ Estimate \in [Requests -> Nat]
  /\ Amount \in [Requests -> Nat]
  /\ Opening \in Nat
  /\ CreditLimit \in Nat
  /\ Limit \in [Windows -> Nat]
  /\ Unit \in Nat \ {0}
  /\ LastDay \in Nat
  /\ DaysPerMonth \in Nat \ {0}
  /\ {Cold, MayFail, MayExpire} \subseteq BOOLEAN

\* The columns of tenant_quota, and the fields of the hash.
Row == [balance : Int, used : [Windows -> Nat], period : [Windows -> Nat]]

ASSUME NoHashAssumption == NoHash \notin Row

Stages == {"idle", "warm", "waiting", "warming", "refresh", "warmed", "deduct",
           "upstream", "pend", "lookup", "open", "insert", "probe", "fill",
           "adjust", "commit", "resync", "credit", "hset", "finish",
           "done", "refused", "failed", "unbilled"}

\* A request has ended: served and billed, refused, failed upstream, or served
\* without a record.
Ends == {"done", "refused", "failed", "unbilled"}

VARIABLES
  day,     \* date.today()
  redis,   \* the hash gw:quota:tenant:{id}
  db,      \* the committed row
  tx,      \* tx[t]: the committed billing_transaction of trace t; delta is its
           \* effect on the balance
  dirty,   \* dirty[t]: the session with an uncommitted insert of trace t
  lock,    \* holder of the key :warming
  idem,    \* traces whose billing_deduct_idempotency key is set
  sync,    \* the hash the running sync task has read, NoHash when none runs
  stage,   \* stage[r]: where request r is
  seen     \* seen[r]: the row that r's session holds

vars == <<day, redis, db, tx, dirty, lock, idem, sync, stage, seen>>

-----------------------------------------------------------------------------
(* The values of the two calendars, the scripts and the row's resets *)

\* _today_str() and _month_str()
Now == [w \in Windows |-> IF w = "daily" THEN day ELSE day \div DaysPerMonth]

\* The script starts a window again when its date is not today's.
InWindow(h) == [w \in Windows |-> IF h.period[w] # Now[w] THEN 0 ELSE h.used[w]]

\* Mutant of Admits: compares the balance with zero, not with the amount.
AdmitsWhilePositive(h, amount) ==
  /\ h.balance + CreditLimit > 0
  /\ \A w \in Windows : InWindow(h)[w] + 1 <= Limit[w]

\* quota_deduct.lua accepts the amount (allow_negative is 0 on these paths).
Admits(h, amount) ==
  /\ h.balance + CreditLimit >= amount
  /\ \A w \in Windows : InWindow(h)[w] + 1 <= Limit[w]

\* Mutants of Deducted: the counter runs the wrong way; the request is not counted.
DeductedCountdown(h, amount) ==
  [balance |-> h.balance - amount,
   used    |-> [w \in Windows |-> InWindow(h)[w] - 1],
   period  |-> Now]
DeductedUncounted(h, amount) ==
  [balance |-> h.balance - amount, used |-> InWindow(h), period |-> Now]

\* quota_deduct.lua: the hash after the deduction.
Deducted(h, amount) ==
  [balance |-> h.balance - amount,
   used    |-> [w \in Windows |-> InWindow(h)[w] + 1],
   period  |-> Now]

\* A Lua number in a reply becomes an integer: its fraction is cut off, towards
\* zero.
Replied(b) == IF b >= 0 THEN (b \div Unit) * Unit ELSE -(((-b) \div Unit) * Unit)

\* _maybe_reset_quotas: the row with the windows begun before period p reset.
ResetTo(row, p) ==
  [balance |-> row.balance,
   used    |-> [w \in Windows |-> IF row.period[w] < p[w] THEN 0 ELSE row.used[w]],
   period  |-> [w \in Windows |-> IF row.period[w] < p[w] THEN p[w] ELSE row.period[w]]]

\* The script of adjust_redis_balance; it leaves a missing hash alone.
Adjusted(h, diff) == IF h = NoHash THEN h ELSE [h EXCEPT !.balance = @ - diff]

\* What quota_precheck, or deduct, takes from the hash.
Charge(r) == CASE Kind[r] = "proxy"  -> Estimate[r]
               [] Kind[r] = "direct" -> Amount[r]
               [] OTHER              -> 0

Delta(r) == IF Kind[r] = "recharge" THEN Amount[r] ELSE -Amount[r]

Absent == [status |-> "none", delta |-> 0]

-----------------------------------------------------------------------------
Init ==
  /\ day = 0
  /\ db = [balance |-> Opening, used |-> [w \in Windows |-> 0], period |-> Now]
  /\ redis = IF Cold THEN NoHash ELSE db
  /\ tx = [t \in Traces |-> Absent]
  /\ dirty = [t \in Traces |-> NoOne]
  /\ lock = NoOne
  /\ idem = {}
  /\ sync = NoHash
  /\ stage = [r \in Requests |-> "idle"]
  /\ seen = [r \in Requests |-> db]

\* r moves from stage s to stage n.
Moves(r, s, n) == stage[r] = s /\ stage' = [stage EXCEPT ![r] = n]

(* quota_precheck and _warm_quota_cache *)

\* quota_precheck: does the hash exist?
Arrive(r) ==
  /\ Kind[r] \in {"proxy", "gateway", "stream"}
  /\ Moves(r, "idle", IF redis = NoHash THEN "warm" ELSE "deduct")
  /\ UNCHANGED <<day, redis, db, tx, dirty, lock, idem, sync, seen>>

\* SET key:warming NX EX 5; the loser sleeps.
TryLock(r) ==
  /\ Moves(r, "warm", IF lock = NoOne THEN "warming" ELSE "waiting")
  /\ lock' = IF lock = NoOne THEN r ELSE lock
  /\ UNCHANGED <<day, redis, db, tx, dirty, idem, sync, seen>>

\* Mutant of Wake: the loser polls until the hash exists.
WakeWhenWarm(r) ==
  /\ redis # NoHash
  /\ Moves(r, "waiting", "deduct")
  /\ UNCHANGED <<day, redis, db, tx, dirty, lock, idem, sync, seen>>

\* The sleeps of the loser end, whether or not the hash exists by then.
Wake(r) ==
  /\ Moves(r, "waiting", "deduct")
  /\ UNCHANGED <<day, redis, db, tx, dirty, lock, idem, sync, seen>>

\* get_or_create(commit=True): resets the windows that are over and commits; only
\* then does it write the hash.
Open(r, from, next) ==
  /\ Moves(r, from, IF ResetTo(db, Now) = db THEN next ELSE "refresh")
  /\ db' = ResetTo(db, Now)
  /\ seen' = [seen EXCEPT ![r] = db']
  /\ UNCHANGED <<day, redis, tx, dirty, lock, idem, sync>>

WarmRead(r) == Open(r, "warming", "warmed")

\* _sync_redis_hash after the commit of _maybe_reset_quotas
Refresh(r) ==
  /\ Moves(r, "refresh", IF Kind[r] = "recharge" THEN "insert" ELSE "warmed")
  /\ redis' = seen[r]
  /\ UNCHANGED <<day, db, tx, dirty, lock, idem, sync, seen>>

\* The holder writes the hash and deletes the lock, its own or not.
WarmWrite(r) ==
  /\ Moves(r, "warmed", "deduct")
  /\ redis' = seen[r]
  /\ lock' = NoOne
  /\ UNCHANGED <<day, db, tx, dirty, idem, sync, seen>>

\* EVALSHA quota_deduct.  A refused purchase frees its idempotency key and rolls
\* its transaction back; an accepted one takes the reply for the new row.
Deduct(r) ==
  /\ LET ok == redis # NoHash /\ Admits(redis, Charge(r))
         direct == Kind[r] = "direct"
         row == Deducted(redis, Charge(r))
     IN /\ Moves(r, "deduct", IF ~ok THEN "refused"
                              ELSE IF direct THEN "commit" ELSE "upstream")
        /\ redis' = IF ok THEN row ELSE redis
        /\ seen' = IF ok /\ direct
                   THEN [seen EXCEPT ![r] = [balance |-> Replied(row.balance),
                                             used    |-> row.used,
                                             period  |-> ResetTo(db, Now).period]]
                   ELSE seen
        /\ idem' = IF ~ok /\ direct THEN idem \ {Trace[r]} ELSE idem
        /\ dirty' = IF ~ok /\ direct THEN [dirty EXCEPT ![Trace[r]] = NoOne] ELSE dirty
  /\ UNCHANGED <<day, db, tx, lock, sync>>

-----------------------------------------------------------------------------
(* The upstream call, and record_and_adjust *)

\* Mutant of Settling: settles only what differs from the estimate.
SettlingDifferences(r) == IF Amount[r] = Estimate[r] THEN "done" ELSE "lookup"

\* record_and_adjust returns early when the request cost nothing.
Settling(r) == IF Amount[r] = 0 THEN "done" ELSE "lookup"

Serve(r) ==
  /\ Moves(r, "upstream", IF Kind[r] = "stream" THEN "pend" ELSE Settling(r))
  /\ UNCHANGED <<day, redis, db, tx, dirty, lock, idem, sync, seen>>

\* An HTTP error or a time-out: the handler raises, nothing else is called.
UpstreamFails(r) ==
  /\ MayFail
  /\ Moves(r, "upstream", "failed")
  /\ UNCHANGED <<day, redis, db, tx, dirty, lock, idem, sync, seen>>

\* BillingStep._create_pending_for_stream, and its commit; then the stream ends
\* and stream_billing_callback settles.
CreatePending(r) ==
  /\ Moves(r, "pend", Settling(r))
  /\ IF tx[Trace[r]].status = "none"
     THEN /\ tx' = [tx EXCEPT ![Trace[r]] = [status |-> "pending", delta |-> 0]]
          /\ db' = ResetTo(db, Now)
     ELSE UNCHANGED <<tx, db>>
  /\ UNCHANGED <<day, redis, dirty, lock, idem, sync, seen>>

\* get_by_trace_id: what a known transaction means to each caller.
WhenCommitted(r) == IF Kind[r] \in {"direct", "recharge"} THEN "done" ELSE "adjust"
WhenPending(r) == IF Kind[r] \in {"direct", "recharge"} THEN "refused" ELSE "unbilled"

LookUp(r) ==
  /\ Moves(r, "lookup",
           CASE tx[Trace[r]].status = "none"      -> IF Kind[r] = "recharge" THEN "open" ELSE "insert"
             [] tx[Trace[r]].status = "committed" -> WhenCommitted(r)
             [] tx[Trace[r]].status = "pending"   -> WhenPending(r))
  /\ UNCHANGED <<day, redis, db, tx, dirty, lock, idem, sync, seen>>

\* Mutant of Insert: trace_id is not unique.
InsertAnyway(r) ==
  /\ Moves(r, "insert", IF Kind[r] = "direct" THEN "probe"
                        ELSE IF Kind[r] = "recharge" THEN "credit" ELSE "adjust")
  /\ dirty' = [dirty EXCEPT ![Trace[r]] = r]
  /\ seen' = [seen EXCEPT ![r] = ResetTo(db, Now)]
  /\ UNCHANGED <<day, redis, db, tx, lock, idem, sync>>

\* INSERT INTO billing_transaction: waits for another session's uncommitted row
\* of the same trace, and raises IntegrityError when that one has been committed.
Insert(r) ==
  /\ dirty[Trace[r]] = NoOne
  /\ LET taken == tx[Trace[r]].status # "none"
     IN /\ Moves(r, "insert",
                 IF taken THEN WhenPending(r)
                 ELSE CASE Kind[r] = "direct"   -> "probe"
                        [] Kind[r] = "recharge" -> "credit"
                        [] OTHER                -> "adjust")
        /\ dirty' = IF taken THEN dirty ELSE [dirty EXCEPT ![Trace[r]] = r]
        /\ idem' = IF taken /\ Kind[r] = "direct" THEN idem \ {Trace[r]} ELSE idem
        /\ seen' = [seen EXCEPT ![r] = ResetTo(db, Now)]
  /\ UNCHANGED <<day, redis, db, tx, lock, sync>>

\* Mutant of Adjust: deducts the whole cost on top of the estimate.
AdjustWhole(r) ==
  /\ Moves(r, "adjust", "commit")
  /\ redis' = Adjusted(redis, Amount[r])
  /\ UNCHANGED <<day, db, tx, dirty, lock, idem, sync, seen>>

\* adjust_redis_balance(total_cost - estimated_cost)
Adjust(r) ==
  /\ Moves(r, "adjust", "commit")
  /\ redis' = Adjusted(redis, Amount[r] - Estimate[r])
  /\ UNCHANGED <<day, db, tx, dirty, lock, idem, sync, seen>>

\* The session's commit: the inserted transaction, and the row as the session
\* has changed it (reset windows; after deduct, the values of the script's reply).
Commit(r) ==
  /\ Moves(r, "commit", IF Kind[r] = "direct" THEN "resync" ELSE "done")
  /\ db' = IF Kind[r] = "direct" THEN seen[r] ELSE ResetTo(db, seen[r].period)
  /\ tx' = IF dirty[Trace[r]] = r
           THEN [tx EXCEPT ![Trace[r]] = [status |-> "committed", delta |-> Delta(r)]] ELSE tx
  /\ dirty' = IF dirty[Trace[r]] = r THEN [dirty EXCEPT ![Trace[r]] = NoOne] ELSE dirty
  /\ UNCHANGED <<day, redis, lock, idem, sync, seen>>

\* The commit fails: logged, rolled back, and Redis stays as it is.
CommitFails(r) ==
  /\ MayFail
  /\ Moves(r, "commit", "unbilled")
  /\ dirty' = IF dirty[Trace[r]] = r THEN [dirty EXCEPT ![Trace[r]] = NoOne] ELSE dirty
  /\ UNCHANGED <<day, redis, db, tx, lock, idem, sync, seen>>

-----------------------------------------------------------------------------
(* BillingRepository.deduct *)

\* SET billing_deduct_idempotency NX; a second caller gets the committed
\* transaction or DuplicateTransactionError.
Claim(r) ==
  /\ Kind[r] = "direct"
  /\ Moves(r, "idle", IF Trace[r] \notin idem THEN "lookup"
                      ELSE IF tx[Trace[r]].status = "committed" THEN "done" ELSE "refused")
  /\ idem' = idem \cup {Trace[r]}
  /\ UNCHANGED <<day, redis, db, tx, dirty, lock, sync, seen>>

\* _deduct_quota_redis: the hash exists, or is filled from the session's row.
Probe(r) ==
  /\ Moves(r, "probe", IF redis = NoHash THEN "fill" ELSE "deduct")
  /\ seen' = [seen EXCEPT ![r] = ResetTo(db, Now)]
  /\ UNCHANGED <<day, redis, db, tx, dirty, lock, idem, sync>>

Fill(r) ==
  /\ Moves(r, "fill", "deduct")
  /\ redis' = seen[r]
  /\ UNCHANGED <<day, db, tx, dirty, lock, idem, sync, seen>>

\* The task created by the after_commit hook writes the session's row over the hash.
Resync(r) ==
  /\ Moves(r, "resync", "done")
  /\ redis' = seen[r]
  /\ UNCHANGED <<day, db, tx, dirty, lock, idem, sync, seen>>

-----------------------------------------------------------------------------
(* BillingRepository.recharge *)

StartRecharge(r) ==
  /\ Kind[r] = "recharge"
  /\ Moves(r, "idle", "lookup")
  /\ UNCHANGED <<day, redis, db, tx, dirty, lock, idem, sync, seen>>

OpenRecharge(r) == Open(r, "open", "insert")

\* add_balance: UPDATE ... balance + amount, and a commit that also commits the
\* transaction as PENDING.
Credit(r) ==
  /\ Moves(r, "credit", "hset")
  /\ db' = [ResetTo(db, seen[r].period) EXCEPT !.balance = @ + Amount[r]]
  /\ seen' = [seen EXCEPT ![r] = db']
  /\ tx' = [tx EXCEPT ![Trace[r]] = [status |-> "pending", delta |-> Amount[r]]]
  /\ dirty' = [dirty EXCEPT ![Trace[r]] = NoOne]
  /\ UNCHANGED <<day, redis, lock, idem, sync>>

\* _sync_redis_hash(updated); an error is logged and swallowed.
WriteHash(r) ==
  /\ Moves(r, "hset", "finish")
  /\ redis' = seen[r]
  /\ UNCHANGED <<day, db, tx, dirty, lock, idem, sync, seen>>

WriteHashFails(r) ==
  /\ MayFail
  /\ Moves(r, "hset", "finish")
  /\ UNCHANGED <<day, redis, db, tx, dirty, lock, idem, sync, seen>>

\* transaction.status = COMMITTED, and the second commit
Finish(r) ==
  /\ Moves(r, "finish", "done")
  /\ tx' = [tx EXCEPT ![Trace[r]].status = "committed"]
  /\ UNCHANGED <<day, redis, db, dirty, lock, idem, sync, seen>>

-----------------------------------------------------------------------------
(* The sync task, the calendar and the expiry of keys *)

\* sync_quota_from_redis_to_db reads the hash ...
SyncRead ==
  /\ sync = NoHash
  /\ redis # NoHash
  /\ sync' = redis
  /\ UNCHANGED <<day, redis, db, tx, dirty, lock, idem, stage, seen>>

\* Mutant of SyncWrite: forgets the counters.
SyncWriteBalance ==
  /\ sync # NoHash
  /\ db' = [db EXCEPT !.balance = sync.balance]
  /\ sync' = NoHash
  /\ UNCHANGED <<day, redis, tx, dirty, lock, idem, stage, seen>>

\* ... and _sync_quota_row overwrites the row where they differ, dates excepted.
SyncWrite ==
  /\ sync # NoHash
  /\ db' = [db EXCEPT !.balance = sync.balance, !.used = sync.used]
  /\ sync' = NoHash
  /\ UNCHANGED <<day, redis, tx, dirty, lock, idem, stage, seen>>

Midnight ==
  /\ day < LastDay
  /\ day' = day + 1
  /\ UNCHANGED <<redis, db, tx, dirty, lock, idem, sync, stage, seen>>

\* EXPIRE 86400, set when the hash is written and not by the scripts
HashExpires ==
  /\ MayExpire
  /\ redis # NoHash
  /\ redis' = NoHash
  /\ UNCHANGED <<day, db, tx, dirty, lock, idem, sync, stage, seen>>

\* EX 5 of the warming lock
LockExpires ==
  /\ MayExpire
  /\ lock # NoOne
  /\ lock' = NoOne
  /\ UNCHANGED <<day, redis, db, tx, dirty, idem, sync, stage, seen>>

Precheck(r) == Arrive(r) \/ TryLock(r) \/ Wake(r) \/ WarmRead(r) \/ Refresh(r)
               \/ WarmWrite(r) \/ Deduct(r)
Settle(r) == Serve(r) \/ CreatePending(r) \/ LookUp(r) \/ Insert(r) \/ Adjust(r) \/ Commit(r)
Purchase(r) == Claim(r) \/ Probe(r) \/ Fill(r) \/ Resync(r)
Recharge(r) == StartRecharge(r) \/ OpenRecharge(r) \/ Credit(r) \/ WriteHash(r) \/ Finish(r)
Faults(r) == UpstreamFails(r) \/ CommitFails(r) \/ WriteHashFails(r)
Progress(r) == Precheck(r) \/ Settle(r) \/ Purchase(r) \/ Recharge(r)

Next == \/ \E r \in Requests : Progress(r) \/ Faults(r)
        \/ SyncRead \/ SyncWrite \/ Midnight \/ HashExpires \/ LockExpires

\* Coroutines are resumed and upstream calls time out after 120 s; the sync task
\* is on the beat schedule every five minutes.
Fairness == /\ \A r \in Requests : WF_vars(Progress(r))
            /\ WF_vars(SyncRead) /\ WF_vars(SyncWrite)

Spec == Init /\ [][Next]_vars /\ Fairness

-----------------------------------------------------------------------------
(* Properties *)

\* Types: the hash and the row of the tenant, its transactions, the locks and keys, and
\* what the sync task and the requests hold.
TypeOK ==
  /\ day \in 0 .. LastDay
  /\ redis \in Row \cup {NoHash}
  /\ db \in Row
  /\ tx \in [Traces -> [status : {"none", "pending", "committed"}, delta : Int]]
  /\ dirty \in [Traces -> Requests \cup {NoOne}]
  /\ lock \in Requests \cup {NoOne}
  /\ idem \subseteq Traces
  /\ sync \in Row \cup {NoHash}
  /\ stage \in [Requests -> Stages]
  /\ seen \in [Requests -> Row]

\* No request costs more than its estimate (prompt and answer within max_tokens).
WithinEstimates ==
  \A r \in Requests : Kind[r] \in {"proxy", "gateway", "stream"} => Amount[r] <= Estimate[r]

Solvent(row) == row = NoHash \/ row.balance + CreditLimit >= 0

\* quota_deduct.lua refuses an amount that exceeds balance + credit_limit.  However
\* the deductions, refunds, warm-ups, resyncs, recharges and sync runs interleave,
\* and whatever fails or expires, neither store ever shows a tenant further in debt
\* than the credit limit.
NeverOverdrawn ==
  WithinEstimates => Solvent(redis) /\ Solvent(db) /\ Solvent(sync)

\* What the requests have taken from the hash and not yet recorded.
Held ==
  [r \in Requests |->
    CASE stage[r] \in {"upstream", "pend", "lookup", "insert", "adjust"}
           -> IF Kind[r] \in {"direct", "recharge"} THEN 0 ELSE Charge(r)
      [] stage[r] = "commit" -> Amount[r]
      [] stage[r] = "finish" -> -Amount[r]
      [] OTHER -> 0]

\* What the books say of the traces.
Booked == [t \in Traces |-> IF tx[t].status = "committed" THEN tx[t].delta ELSE 0]

\* "Redis is authoritative" (quota_sync.py): the balance of the hash is the opening
\* balance plus the committed transactions, less what the requests in flight hold.
BooksBalance ==
  redis # NoHash => redis.balance = Opening + SumFunction(Booked) - SumFunction(Held)

\* The requests of today that were admitted are all counted: the hash counts every
\* request that got past the precheck since the last midnight of a one-day run.
AdmittedCounted ==
  (redis # NoHash /\ LastDay = 0) =>
    redis.used["daily"] = Cardinality({r \in Requests :
      stage[r] \in {"upstream", "pend", "lookup", "insert", "adjust", "commit", "done",
                    "failed", "unbilled"}})

\* A request that was served to its end is in the books at its real cost.
ServedIsRecorded ==
  \A r \in Requests :
    (stage[r] \in {"done", "unbilled"} /\ Amount[r] > 0) =>
       tx[Trace[r]] = [status |-> "committed", delta |-> Delta(r)]

\* The books never change what they say of a trace: a committed transaction stays
\* as it is, and a trace has one.
BooksAreFinal ==
  [][\A t \in Traces : tx[t].status = "committed" => tx'[t] = tx[t]]_vars

\* The sync task makes the row agree with the hash again and again: it cannot be
\* kept from it by the other writers, nor undo itself.
StoresConverge == []<>(redis = NoHash \/ (db.balance = redis.balance /\ db.used = redis.used))

\* Every request ends: no waiter of the warming lock, and no session blocked by
\* another's insert, waits for ever.
EveryRequestEnds == \A r \in Requests : <>(stage[r] \in Ends)

(***************************************************************************)
(* Scenarios for TLC: who is at work on one tenant's balance.  One credit  *)
(* is ten units.                                                           *)
(***************************************************************************)
Req(kind, trace, estimate, amount) ==
  [kind |-> kind, trace |-> trace, estimate |-> estimate, amount |-> amount]

\* Three proxy requests, of which the balance and the daily quota admit two.
ThreeProxies ==
  [p1 |-> Req("proxy", "t1", 10, 6), p2 |-> Req("proxy", "t2", 10, 10),
   p3 |-> Req("proxy", "t3", 8, 3)]

\* A proxy request next to a streamed one; a purchase that only the recharge makes
\* possible, next to the recharge, which is delivered twice.
ProxyAndStream == [p1 |-> Req("proxy", "t1", 8, 5), s1 |-> Req("stream", "t2", 10, 6)]
PurchaseAndRecharges ==
  [d1 |-> Req("direct", "t1", 0, 13), c1 |-> Req("recharge", "t2", 0, 10),
   c2 |-> Req("recharge", "t2", 0, 10)]

\* The scenario of ledger_cold_start.
TwoProxies == [p1 |-> Req("proxy", "t1", 10, 6), p2 |-> Req("proxy", "t2", 10, 6)]

\* Two requests a day, and three a month.
Limits == [w \in Windows |-> IF w = "daily" THEN 2 ELSE 3]
=============================================================================
