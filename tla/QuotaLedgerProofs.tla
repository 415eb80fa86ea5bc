------------------------- MODULE QuotaLedgerProofs -------------------------
(***************************************************************************)
(* Proofs about QuotaLedger.  TypeOK, NeverOverdrawn and BooksAreFinal     *)
(* hold of every ledger.  The other three properties need hypotheses, each *)
(* named where it is used:                                                 *)
(*   ServedIsRecorded  PlainBilling: distinct trace_ids, commits succeed,  *)
(*                     no streamed request;                                *)
(*   AdmittedCounted   KeptHash: nobody writes the row over the hash;      *)
(*   BooksBalance      PlainTenant: both, and only proxy requests that     *)
(*                     cost something.                                     *)
(* Each is proved from an inductive invariant of its own: where every      *)
(* request and its trace stand (InsertInv, BookInv), what the counter      *)
(* counts (CountInv), and what the two sums of the balance add up to       *)
(* (BalanceInv), which needs that a sum over a finite set changes by as    *)
(* much as the one term that changes (SumOfChange).                        *)
(***************************************************************************)
EXTENDS QuotaLedger, FiniteSetTheorems, TLAPS

(* The calendar, the scripts and the row's resets *)

\* The two periods are natural numbers.
LEMMA NowType == TypeOK => Now \in [Windows -> Nat]
<1>1. ASSUME NEW d \in Nat PROVE d \div DaysPerMonth \in Nat
  BY LedgerAssumption, Z3
<1>2. TypeOK => day \in Nat BY LedgerAssumption DEF TypeOK
<1> QED BY <1>1, <1>2 DEF Now

\* The counters of the running windows are natural numbers.
LEMMA InWindowType == ASSUME NEW h \in Row PROVE InWindow(h) \in [Windows -> Nat]
  BY DEF InWindow, Row

\* The script writes a hash, and takes the amount from its balance.
LEMMA DeductedType ==
  ASSUME TypeOK, NEW h \in Row, NEW a \in Nat
  PROVE  Deducted(h, a) \in Row /\ Deducted(h, a).balance = h.balance - a
<1>1. \A w \in Windows : InWindow(h)[w] + 1 \in Nat BY InWindowType
<1> QED BY <1>1, NowType DEF Deducted, Row

\* The reset of a row is a row with the same balance.
LEMMA ResetType ==
  ASSUME NEW row \in Row, NEW p \in [Windows -> Nat]
  PROVE  ResetTo(row, p) \in Row /\ ResetTo(row, p).balance = row.balance
  BY DEF ResetTo, Row

\* The adjustment of a hash is a hash.
LEMMA AdjustedType ==
  ASSUME NEW h \in Row \cup {NoHash}, NEW d \in Int
  PROVE  Adjusted(h, d) \in Row \cup {NoHash}
<1>1. CASE h = NoHash BY <1>1 DEF Adjusted
<1>2. CASE h # NoHash
  <2>1. h \in Row /\ h.balance - d \in Int BY <1>2 DEF Row
  <2>2. [h EXCEPT !.balance = @ - d] \in Row BY <2>1 DEF Row
  <2> QED BY <1>2, <2>2 DEF Adjusted
<1> QED BY <1>1, <1>2

\* Cutting the fraction of a balance off never leads below the credit limit.
LEMMA RepliedSound ==
  ASSUME NEW b \in Int
  PROVE  /\ Replied(b) \in Int
         /\ b + CreditLimit >= 0 => Replied(b) + CreditLimit >= 0
<1>1. ASSUME NEW n \in Nat
      PROVE  (n \div Unit) * Unit \in Nat /\ (n \div Unit) * Unit <= n
  BY LedgerAssumption, Z3
<1>2. CASE b >= 0 BY <1>1, <1>2, LedgerAssumption DEF Replied
<1>3. CASE b < 0
  <2>1. -b \in Nat BY <1>3
  <2> QED BY <1>1, <2>1, <1>3, LedgerAssumption DEF Replied
<1> QED BY <1>2, <1>3

-----------------------------------------------------------------------------
(* Types *)

LEMMA TypeInit == Init => TypeOK
<1> SUFFICES ASSUME Init PROVE TypeOK OBVIOUS
<1>1. day \in 0 .. LastDay BY LedgerAssumption DEF Init
<1>2. Now \in [Windows -> Nat]
  <2>1. 0 \div DaysPerMonth \in Nat BY LedgerAssumption, Z3
  <2> QED BY <2>1 DEF Init, Now
<1>3. db \in Row BY <1>2, LedgerAssumption DEF Init, Row
<1>4. redis \in Row \cup {NoHash} BY <1>3 DEF Init
<1>5. tx \in [Traces -> [status : {"none", "pending", "committed"}, delta : Int]]
  BY DEF Init, Absent
<1>6. stage \in [Requests -> Stages] BY DEF Init, Stages
<1>7. seen \in [Requests -> Row] BY <1>3 DEF Init
<1> QED BY <1>1, <1>3, <1>4, <1>5, <1>6, <1>7 DEF Init, TypeOK

\* A request's trace is one of the traces; what it takes is a natural number.
LEMMA RequestTypes ==
  ASSUME NEW r \in Requests
  PROVE  /\ Trace[r] \in Traces /\ Charge(r) \in Nat /\ Amount[r] \in Nat
         /\ Estimate[r] \in Nat /\ Delta(r) \in Int
<1>1. Trace[r] \in Traces BY DEF Traces
<1>2. Amount[r] \in Nat /\ Estimate[r] \in Nat BY LedgerAssumption
<1> QED BY <1>1, <1>2 DEF Charge, Delta

\* A move to a known stage keeps the stages typed.
LEMMA MovesType ==
  ASSUME TypeOK, NEW r \in Requests, NEW s, NEW n \in Stages, Moves(r, s, n)
  PROVE  stage' \in [Requests -> Stages]
  BY DEF TypeOK, Moves

\* Every step of the precheck keeps the types.
LEMMA TypePrecheck ==
  ASSUME TypeOK, NEW r \in Requests, Precheck(r)
  PROVE  TypeOK'
<1> USE RequestTypes
<1>1. CASE Arrive(r)
  <2>1. stage' \in [Requests -> Stages] BY <1>1, MovesType DEF Arrive, Stages
  <2> QED BY <1>1, <2>1 DEF Arrive, TypeOK
<1>2. CASE TryLock(r)
  <2>1. stage' \in [Requests -> Stages] BY <1>2, MovesType DEF TryLock, Stages
  <2> QED BY <1>2, <2>1 DEF TryLock, TypeOK
<1>3. CASE Wake(r)
  <2>1. stage' \in [Requests -> Stages] BY <1>3, MovesType DEF Wake, Stages
  <2> QED BY <1>3, <2>1 DEF Wake, TypeOK
<1>4. CASE WarmRead(r)
  <2>1. stage' \in [Requests -> Stages] BY <1>4, MovesType DEF WarmRead, Open, Stages
  <2>2. db' \in Row BY <1>4, ResetType, NowType DEF WarmRead, Open, TypeOK
  <2> QED BY <1>4, <2>1, <2>2 DEF WarmRead, Open, TypeOK
<1>5. CASE Refresh(r)
  <2>1. stage' \in [Requests -> Stages] BY <1>5, MovesType DEF Refresh, Stages
  <2> QED BY <1>5, <2>1 DEF Refresh, TypeOK
<1>6. CASE WarmWrite(r)
  <2>1. stage' \in [Requests -> Stages] BY <1>6, MovesType DEF WarmWrite, Stages
  <2> QED BY <1>6, <2>1 DEF WarmWrite, TypeOK
<1>7. CASE Deduct(r)
  <2> DEFINE row == Deducted(redis, Charge(r))
  <2>1. stage' \in [Requests -> Stages] BY <1>7, MovesType DEF Deduct, Stages
  <2>2. redis # NoHash => row \in Row BY DeductedType DEF TypeOK
  <2>3. redis' \in Row \cup {NoHash} BY <1>7, <2>2 DEF Deduct, TypeOK
  <2>4. redis # NoHash => [balance |-> Replied(row.balance), used |-> row.used,
                           period |-> ResetTo(db, Now).period] \in Row
    BY <2>2, RepliedSound, ResetType, NowType DEF TypeOK, Row
  <2>5. seen' \in [Requests -> Row] BY <1>7, <2>4 DEF Deduct, TypeOK
  <2>6. idem' \subseteq Traces /\ dirty' \in [Traces -> Requests \cup {NoOne}]
    BY <1>7 DEF Deduct, TypeOK
  <2> QED BY <1>7, <2>1, <2>3, <2>5, <2>6 DEF Deduct, TypeOK
<1> QED BY <1>1, <1>2, <1>3, <1>4, <1>5, <1>6, <1>7 DEF Precheck

\* Every step of the settlement keeps the types.
LEMMA TypeSettle ==
  ASSUME TypeOK, NEW r \in Requests, Settle(r)
  PROVE  TypeOK'
<1> USE RequestTypes
<1>1. CASE Serve(r)
  <2>1. stage' \in [Requests -> Stages] BY <1>1, MovesType DEF Serve, Settling, Stages
  <2> QED BY <1>1, <2>1 DEF Serve, TypeOK
<1>2. CASE CreatePending(r)
  <2>1. stage' \in [Requests -> Stages] BY <1>2, MovesType DEF CreatePending, Settling, Stages
  <2>2. db' \in Row BY <1>2, ResetType, NowType DEF CreatePending, TypeOK
  <2> QED BY <1>2, <2>1, <2>2 DEF CreatePending, TypeOK
<1>3. CASE LookUp(r)
  <2>1. tx[Trace[r]].status \in {"none", "pending", "committed"} BY DEF TypeOK
  <2>2. stage' \in [Requests -> Stages]
    BY <1>3, <2>1, MovesType DEF LookUp, WhenCommitted, WhenPending, Stages
  <2> QED BY <1>3, <2>2 DEF LookUp, TypeOK
<1>4. CASE Insert(r)
  <2>1. stage' \in [Requests -> Stages] BY <1>4, MovesType DEF Insert, WhenPending, Stages
  <2>2. ResetTo(db, Now) \in Row BY ResetType, NowType DEF TypeOK
  <2> QED BY <1>4, <2>1, <2>2 DEF Insert, TypeOK
<1>5. CASE Adjust(r)
  <2>1. stage' \in [Requests -> Stages] BY <1>5, MovesType DEF Adjust, Stages
  <2>2. Amount[r] - Estimate[r] \in Int BY LedgerAssumption
  <2>3. redis \in Row \cup {NoHash} BY DEF TypeOK
  <2>4. Adjusted(redis, Amount[r] - Estimate[r]) \in Row \cup {NoHash}
    BY <2>2, <2>3, AdjustedType
  <2>5. redis' \in Row \cup {NoHash} BY <1>5, <2>4 DEF Adjust
  <2> QED BY <1>5, <2>1, <2>5 DEF Adjust, TypeOK
<1>6. CASE Commit(r)
  <2>1. stage' \in [Requests -> Stages] BY <1>6, MovesType DEF Commit, Stages
  <2>2. seen[r] \in Row /\ seen[r].period \in [Windows -> Nat] BY DEF TypeOK, Row
  <2>3. db' \in Row BY <1>6, <2>2, ResetType DEF Commit, TypeOK
  <2>4. tx' \in [Traces -> [status : {"none", "pending", "committed"}, delta : Int]]
    BY <1>6 DEF Commit, TypeOK
  <2>5. dirty' \in [Traces -> Requests \cup {NoOne}] BY <1>6 DEF Commit, TypeOK
  <2> QED BY <1>6, <2>1, <2>3, <2>4, <2>5 DEF Commit, TypeOK
<1> QED BY <1>1, <1>2, <1>3, <1>4, <1>5, <1>6 DEF Settle

\* Every step of a purchase or a recharge keeps the types.
LEMMA TypePurchaseRecharge ==
  ASSUME TypeOK, NEW r \in Requests, Purchase(r) \/ Recharge(r)
  PROVE  TypeOK'
<1> USE RequestTypes
<1>1. CASE Claim(r)
  <2>1. stage' \in [Requests -> Stages] BY <1>1, MovesType DEF Claim, Stages
  <2> QED BY <1>1, <2>1 DEF Claim, TypeOK
<1>2. CASE Probe(r)
  <2>1. stage' \in [Requests -> Stages] BY <1>2, MovesType DEF Probe, Stages
  <2>2. ResetTo(db, Now) \in Row BY ResetType, NowType DEF TypeOK
  <2> QED BY <1>2, <2>1, <2>2 DEF Probe, TypeOK
<1>3. CASE Fill(r)
  <2>1. stage' \in [Requests -> Stages] BY <1>3, MovesType DEF Fill, Stages
  <2> QED BY <1>3, <2>1 DEF Fill, TypeOK
<1>4. CASE Resync(r)
  <2>1. stage' \in [Requests -> Stages] BY <1>4, MovesType DEF Resync, Stages
  <2> QED BY <1>4, <2>1 DEF Resync, TypeOK
<1>5. CASE StartRecharge(r)
  <2>1. stage' \in [Requests -> Stages] BY <1>5, MovesType DEF StartRecharge, Stages
  <2> QED BY <1>5, <2>1 DEF StartRecharge, TypeOK
<1>6. CASE OpenRecharge(r)
  <2>1. stage' \in [Requests -> Stages] BY <1>6, MovesType DEF OpenRecharge, Open, Stages
  <2>2. db' \in Row BY <1>6, ResetType, NowType DEF OpenRecharge, Open, TypeOK
  <2> QED BY <1>6, <2>1, <2>2 DEF OpenRecharge, Open, TypeOK
<1>7. CASE Credit(r)
  <2>1. stage' \in [Requests -> Stages] BY <1>7, MovesType DEF Credit, Stages
  <2>2. seen[r] \in Row /\ seen[r].period \in [Windows -> Nat] BY DEF TypeOK, Row
  <2>3. ResetTo(db, seen[r].period) \in Row BY <2>2, ResetType DEF TypeOK
  <2>4. db' \in Row BY <1>7, <2>3 DEF Credit, Row
  <2>5. seen' \in [Requests -> Row] BY <1>7, <2>4 DEF Credit, TypeOK
  <2>6. tx' \in [Traces -> [status : {"none", "pending", "committed"}, delta : Int]]
    BY <1>7 DEF Credit, TypeOK
  <2>7. dirty' \in [Traces -> Requests \cup {NoOne}] BY <1>7 DEF Credit, TypeOK
  <2> QED BY <1>7, <2>1, <2>4, <2>5, <2>6, <2>7 DEF Credit, TypeOK
<1>8. CASE WriteHash(r)
  <2>1. stage' \in [Requests -> Stages] BY <1>8, MovesType DEF WriteHash, Stages
  <2> QED BY <1>8, <2>1 DEF WriteHash, TypeOK
<1>9. CASE Finish(r)
  <2>1. stage' \in [Requests -> Stages] BY <1>9, MovesType DEF Finish, Stages
  <2> QED BY <1>9, <2>1 DEF Finish, TypeOK
<1> QED BY <1>1, <1>2, <1>3, <1>4, <1>5, <1>6, <1>7, <1>8, <1>9 DEF Purchase, Recharge

\* So do the faults, and the steps nobody's request takes.
LEMMA TypeFaults ==
  ASSUME TypeOK, NEW r \in Requests, Faults(r)
  PROVE  TypeOK'
<1> USE RequestTypes
<1>1. CASE UpstreamFails(r)
  <2>1. stage' \in [Requests -> Stages] BY <1>1, MovesType DEF UpstreamFails, Stages
  <2> QED BY <1>1, <2>1 DEF UpstreamFails, TypeOK
<1>2. CASE CommitFails(r)
  <2>1. stage' \in [Requests -> Stages] BY <1>2, MovesType DEF CommitFails, Stages
  <2> QED BY <1>2, <2>1 DEF CommitFails, TypeOK
<1>3. CASE WriteHashFails(r)
  <2>1. stage' \in [Requests -> Stages] BY <1>3, MovesType DEF WriteHashFails, Stages
  <2> QED BY <1>3, <2>1 DEF WriteHashFails, TypeOK
<1> QED BY <1>1, <1>2, <1>3 DEF Faults

LEMMA TypeStep == TypeOK /\ [Next]_vars => TypeOK'
<1> SUFFICES ASSUME TypeOK, [Next]_vars PROVE TypeOK' OBVIOUS
<1>1. ASSUME NEW r \in Requests, Progress(r) \/ Faults(r) PROVE TypeOK'
  BY <1>1, TypePrecheck, TypeSettle, TypePurchaseRecharge, TypeFaults DEF Progress
<1>2. CASE SyncRead BY <1>2 DEF SyncRead, TypeOK
<1>3. CASE SyncWrite
  <2>1. db' \in Row BY <1>3 DEF SyncWrite, TypeOK, Row
  <2> QED BY <1>3, <2>1 DEF SyncWrite, TypeOK
<1>4. CASE Midnight
  <2>1. day' \in 0 .. LastDay BY <1>4, LedgerAssumption DEF Midnight, TypeOK
  <2> QED BY <1>4, <2>1 DEF Midnight, TypeOK
<1>5. CASE HashExpires BY <1>5 DEF HashExpires, TypeOK
<1>6. CASE LockExpires BY <1>6 DEF LockExpires, TypeOK
<1>7. CASE UNCHANGED vars BY <1>7 DEF vars, TypeOK
<1> QED BY <1>1, <1>2, <1>3, <1>4, <1>5, <1>6, <1>7 DEF Next

\* The hash, the row, the books and the stages of the requests keep their types in
\* every behaviour, for any number of requests, days and amounts.
THEOREM LedgerTypes == Spec => []TypeOK
  BY TypeInit, TypeStep, PTL DEF Spec

-----------------------------------------------------------------------------
(* The inductive invariant *)

Prechecked == {"proxy", "gateway", "stream"}

\* The stages that the requests of each kind go through.
StagesOf(k) ==
  CASE k = "direct"   -> {"idle", "lookup", "insert", "probe", "fill", "deduct", "commit", "resync",
                          "done", "refused", "unbilled"}
    [] k = "recharge" -> {"idle", "lookup", "open", "refresh", "insert", "credit", "hset", "finish",
                          "done", "refused"}
    [] OTHER          -> {"idle", "warm", "waiting", "warming", "refresh", "warmed", "deduct",
                          "upstream", "pend", "lookup", "insert", "adjust", "commit",
                          "done", "refused", "failed", "unbilled"}

StageInv == \A r \in Requests : stage[r] \in StagesOf(Kind[r])

\* The sessions' rows are as solvent as the stores they are written to.
SolventInv == /\ Solvent(redis) /\ Solvent(db) /\ Solvent(sync)
              /\ \A r \in Requests : Solvent(seen[r])

\* Who has inserted and not committed: the books do not yet show the trace as
\* committed.
Inserted(r) == \/ stage[r] = "credit"
               \/ Kind[r] = "direct" /\ stage[r] \in {"probe", "fill", "deduct", "commit"}

InsertInv ==
  /\ \A r \in Requests : Inserted(r) => dirty[Trace[r]] = r
  /\ \A t \in Traces : dirty[t] # NoOne => tx[t].status # "committed"
  /\ \A r \in Requests : stage[r] \in {"hset", "finish"} =>
       dirty[Trace[r]] = NoOne /\ tx[Trace[r]].status # "none"

-----------------------------------------------------------------------------
(* Every kind of request keeps to its stages *)

LEMMA StageInit == Init => StageInv
<1> SUFFICES ASSUME Init, NEW r \in Requests PROVE stage[r] \in StagesOf(Kind[r])
  BY DEF StageInv
<1>1. Kind[r] \in Kinds BY LedgerAssumption
<1> QED BY <1>1 DEF Init, StagesOf, Kinds

\* A move within the stages of the request's kind keeps StageInv.
LEMMA MovesStage ==
  ASSUME TypeOK, StageInv, NEW r \in Requests, NEW s, NEW n \in StagesOf(Kind[r]), Moves(r, s, n)
  PROVE  StageInv'
  BY DEF TypeOK, StageInv, Moves

LEMMA StageStep == TypeOK /\ StageInv /\ [Next]_vars => StageInv'
<1> SUFFICES ASSUME TypeOK, StageInv, [Next]_vars PROVE StageInv' OBVIOUS
<1>1. ASSUME NEW r \in Requests, Progress(r) \/ Faults(r) PROVE StageInv'
  <2>1. Kind[r] \in Kinds /\ stage[r] \in StagesOf(Kind[r])
    BY LedgerAssumption DEF StageInv
  <2>2. tx[Trace[r]].status \in {"none", "pending", "committed"}
    BY RequestTypes DEF TypeOK
  <2> USE <2>1, MovesStage DEF StagesOf, Kinds
  <2>3. CASE Precheck(r)
    <3>1. CASE Arrive(r) BY <3>1 DEF Arrive
    <3>2. CASE TryLock(r) BY <3>2 DEF TryLock, Moves
    <3>3. CASE Wake(r) BY <3>3 DEF Wake, Moves
    <3>4. CASE WarmRead(r) BY <3>4 DEF WarmRead, Open, Moves
    <3>5. CASE Refresh(r) BY <3>5 DEF Refresh, Moves
    <3>6. CASE WarmWrite(r) BY <3>6 DEF WarmWrite, Moves
    <3>7. CASE Deduct(r) BY <3>7 DEF Deduct, Moves
    <3> QED BY <2>3, <3>1, <3>2, <3>3, <3>4, <3>5, <3>6, <3>7 DEF Precheck
  <2>4. CASE Settle(r)
    <3>1. CASE Serve(r) BY <3>1 DEF Serve, Settling, Moves
    <3>2. CASE CreatePending(r) BY <3>2 DEF CreatePending, Settling, Moves
    <3>3. CASE LookUp(r) BY <3>3, <2>2 DEF LookUp, WhenCommitted, WhenPending, Moves
    <3>4. CASE Insert(r) BY <3>4 DEF Insert, WhenPending, Moves
    <3>5. CASE Adjust(r) BY <3>5 DEF Adjust, Moves
    <3>6. CASE Commit(r) BY <3>6 DEF Commit, Moves
    <3> QED BY <2>4, <3>1, <3>2, <3>3, <3>4, <3>5, <3>6 DEF Settle
  <2>5. CASE Purchase(r)
    <3>1. CASE Claim(r) BY <3>1 DEF Claim
    <3>2. CASE Probe(r) BY <3>2 DEF Probe, Moves
    <3>3. CASE Fill(r) BY <3>3 DEF Fill, Moves
    <3>4. CASE Resync(r) BY <3>4 DEF Resync, Moves
    <3> QED BY <2>5, <3>1, <3>2, <3>3, <3>4 DEF Purchase
  <2>6. CASE Recharge(r)
    <3>1. CASE StartRecharge(r) BY <3>1 DEF StartRecharge
    <3>2. CASE OpenRecharge(r) BY <3>2 DEF OpenRecharge, Open, Moves
    <3>3. CASE Credit(r) BY <3>3 DEF Credit, Moves
    <3>4. CASE WriteHash(r) BY <3>4 DEF WriteHash, Moves
    <3>5. CASE Finish(r) BY <3>5 DEF Finish, Moves
    <3> QED BY <2>6, <3>1, <3>2, <3>3, <3>4, <3>5 DEF Recharge
  <2>7. CASE Faults(r)
    <3>1. CASE UpstreamFails(r) BY <3>1 DEF UpstreamFails, Moves
    <3>2. CASE CommitFails(r) BY <3>2 DEF CommitFails, Moves
    <3>3. CASE WriteHashFails(r) BY <3>3 DEF WriteHashFails, Moves
    <3> QED BY <2>7, <3>1, <3>2, <3>3 DEF Faults
  <2> QED BY <1>1, <2>3, <2>4, <2>5, <2>6, <2>7 DEF Progress
<1>2. CASE UNCHANGED stage BY <1>2 DEF StageInv
<1> QED BY <1>1, <1>2 DEF Next, SyncRead, SyncWrite, Midnight, HashExpires, LockExpires, vars

-----------------------------------------------------------------------------
(* Solvency *)

LEMMA SolventInit == Init => SolventInv
<1>1. Opening + CreditLimit >= 0 BY LedgerAssumption
<1> QED BY <1>1 DEF Init, SolventInv, Solvent

\* Resetting the windows of a row leaves it as solvent as it was.
LEMMA ResetSolvent ==
  ASSUME NEW row \in Row, NEW p \in [Windows -> Nat], Solvent(row)
  PROVE  Solvent(ResetTo(row, p))
<1>1. ResetTo(row, p).balance = row.balance BY ResetType
<1>2. row # NoHash BY NoHashAssumption
<1> QED BY <1>1, <1>2 DEF Solvent

\* The script admits no amount that would overdraw the hash, and its truncated
\* reply is solvent too.
LEMMA DeductSolvent ==
  ASSUME TypeOK, WithinEstimates, SolventInv, NEW r \in Requests, Deduct(r)
  PROVE  SolventInv'
<1> DEFINE row == Deducted(redis, Charge(r))
<1>1. CASE redis # NoHash /\ Admits(redis, Charge(r))
  <2>1. redis \in Row BY <1>1 DEF TypeOK
  <2>2. row \in Row /\ row.balance = redis.balance - Charge(r)
    BY <2>1, DeductedType, RequestTypes
  <2>3. redis.balance \in Int /\ Charge(r) \in Nat BY <2>1, RequestTypes DEF Row
  <2>4. row.balance \in Int /\ row.balance + CreditLimit >= 0
    BY <1>1, <2>2, <2>3, LedgerAssumption DEF Admits
  <2>5. Replied(row.balance) + CreditLimit >= 0 BY <2>4, RepliedSound
  <2>6. Solvent(redis') BY <1>1, <2>4 DEF Deduct, Solvent
  <2>7. \A q \in Requests : Solvent(seen'[q])
    BY <1>1, <2>5 DEF Deduct, SolventInv, Solvent, TypeOK
  <2> QED BY <2>6, <2>7 DEF Deduct, SolventInv, Solvent
<1>2. CASE ~(redis # NoHash /\ Admits(redis, Charge(r)))
  BY <1>2 DEF Deduct, SolventInv, Solvent
<1> QED BY <1>1, <1>2

\* Only a request that was prechecked is adjusted, and never by more than its
\* estimate covers.
LEMMA AdjustSolvent ==
  ASSUME TypeOK, StageInv, WithinEstimates, SolventInv, NEW r \in Requests, Adjust(r)
  PROVE  SolventInv'
<1>1. Kind[r] \in Prechecked
  BY LedgerAssumption DEF Adjust, Moves, StageInv, StagesOf, Kinds, Prechecked
<1>2. Amount[r] \in Nat /\ Estimate[r] \in Nat /\ Amount[r] - Estimate[r] <= 0
  BY <1>1, RequestTypes DEF WithinEstimates, Prechecked
<1>3. Solvent(redis')
  <2>1. CASE redis = NoHash BY <2>1 DEF Adjust, Adjusted, Solvent
  <2>2. CASE redis # NoHash
    <3>1. redis \in Row /\ redis.balance \in Int /\ redis.balance + CreditLimit >= 0
      BY <2>2 DEF TypeOK, Row, SolventInv, Solvent
    <3>2. redis'.balance = redis.balance - (Amount[r] - Estimate[r])
      BY <2>2, <3>1 DEF Adjust, Adjusted, Row
    <3> QED BY <1>2, <3>1, <3>2, LedgerAssumption DEF Solvent
  <2> QED BY <2>1, <2>2
<1> QED BY <1>3 DEF Adjust, SolventInv, Solvent

\* A recharge only adds.
LEMMA CreditSolvent ==
  ASSUME TypeOK, SolventInv, NEW r \in Requests, Credit(r)
  PROVE  SolventInv'
<1> DEFINE row == ResetTo(db, seen[r].period)
<1>1. seen[r].period \in [Windows -> Nat] BY DEF TypeOK, Row
<1>2. db \in Row /\ db # NoHash BY NoHashAssumption DEF TypeOK
<1>3. row \in Row /\ row.balance = db.balance BY <1>1, <1>2, ResetType
<1>4. db.balance \in Int /\ db.balance + CreditLimit >= 0 BY <1>2 DEF Row, SolventInv, Solvent
<1>5. db'.balance = db.balance + Amount[r] BY <1>3 DEF Credit, Row
<1>6. Solvent(db') BY <1>4, <1>5, RequestTypes, LedgerAssumption DEF Solvent
<1>7. \A q \in Requests : Solvent(seen'[q]) BY <1>6 DEF Credit, SolventInv, TypeOK
<1> QED BY <1>6, <1>7 DEF Credit, SolventInv, Solvent

LEMMA SolventStep ==
  TypeOK /\ StageInv /\ WithinEstimates /\ SolventInv /\ [Next]_vars => SolventInv'
<1> SUFFICES ASSUME TypeOK, StageInv, WithinEstimates, SolventInv, [Next]_vars
             PROVE  SolventInv'
  OBVIOUS
<1>1. ASSUME NEW r \in Requests, Progress(r) \/ Faults(r) PROVE SolventInv'
  <2> DEFINE row == ResetTo(db, Now)
  <2>1. Solvent(row) /\ Solvent(ResetTo(db, seen[r].period))
    BY ResetSolvent, NowType DEF SolventInv, TypeOK, Row
  <2>2. CASE Refresh(r) \/ WarmWrite(r) \/ Fill(r) \/ Resync(r) \/ WriteHash(r)
    BY <2>2 DEF Refresh, WarmWrite, Fill, Resync, WriteHash, SolventInv, Solvent
  <2>3. CASE WarmRead(r) \/ OpenRecharge(r) \/ Insert(r) \/ Probe(r)
    <3>1. \A q \in Requests : Solvent(seen'[q])
      BY <2>1, <2>3 DEF WarmRead, OpenRecharge, Open, Insert, Probe, SolventInv, TypeOK
    <3> QED BY <2>1, <2>3, <3>1 DEF WarmRead, OpenRecharge, Open, Insert, Probe, SolventInv, Solvent
  <2>4. CASE Commit(r) \/ CreatePending(r)
    BY <2>1, <2>4 DEF Commit, CreatePending, SolventInv, Solvent
  <2>5. CASE Arrive(r) \/ TryLock(r) \/ Wake(r) \/ Serve(r) \/ LookUp(r) \/ Claim(r)
             \/ StartRecharge(r) \/ Finish(r) \/ Faults(r)
    BY <2>5 DEF Arrive, TryLock, Wake, Serve, LookUp, Claim, StartRecharge, Finish, Faults,
                UpstreamFails, CommitFails, WriteHashFails, SolventInv, Solvent
  <2> QED BY <1>1, <2>2, <2>3, <2>4, <2>5, DeductSolvent, AdjustSolvent, CreditSolvent
          DEF Progress, Precheck, Settle, Purchase, Recharge
<1>2. CASE SyncRead BY <1>2 DEF SyncRead, SolventInv, Solvent
<1>3. CASE SyncWrite
  <2>1. sync \in Row /\ sync.balance + CreditLimit >= 0
    BY <1>3 DEF SyncWrite, TypeOK, SolventInv, Solvent
  <2>2. db'.balance = sync.balance BY <1>3 DEF SyncWrite, TypeOK, Row
  <2> QED BY <1>3, <2>1, <2>2 DEF SyncWrite, SolventInv, Solvent
<1>4. CASE HashExpires \/ LockExpires \/ Midnight \/ UNCHANGED vars
  BY <1>4 DEF HashExpires, LockExpires, Midnight, vars, SolventInv, Solvent
<1> QED BY <1>1, <1>2, <1>3, <1>4 DEF Next

\* Neither the hash nor the row ever shows a debt beyond credit_limit, for any mix of
\* requests, purchases and recharges, however their awaits interleave and whatever
\* fails or expires, if no request costs more than its estimate.
THEOREM CreditLimitHolds == Spec => []NeverOverdrawn
<1> DEFINE IInv == TypeOK /\ StageInv /\ (WithinEstimates => SolventInv)
<1>1. Init => IInv BY TypeInit, StageInit, SolventInit
<1>2. WithinEstimates' <=> WithinEstimates BY DEF WithinEstimates
<1>3. IInv /\ [Next]_vars => IInv' BY <1>2, TypeStep, StageStep, SolventStep
<1>4. IInv => NeverOverdrawn BY DEF NeverOverdrawn, SolventInv
<1> QED BY <1>1, <1>3, <1>4, PTL DEF Spec

-----------------------------------------------------------------------------
(* The books *)

LEMMA InsertInit == Init => InsertInv
  BY RequestTypes DEF Init, InsertInv, Inserted, Absent

\* What a move changes.
LEMMA MovesOnly ==
  ASSUME TypeOK, NEW r \in Requests, NEW s, NEW n, Moves(r, s, n)
  PROVE  stage[r] = s /\ stage'[r] = n /\ \A q \in Requests \ {r} : stage'[q] = stage[q]
  BY DEF TypeOK, Moves

\* A step that touches neither the books nor the uncommitted inserts keeps InsertInv
\* when the request does not enter a stage InsertInv speaks of.
LEMMA QuietStep ==
  ASSUME InsertInv, NEW r \in Requests, UNCHANGED <<tx, dirty>>,
         \A q \in Requests \ {r} : stage'[q] = stage[q],
         stage'[r] \notin {"credit", "hset"},
         stage'[r] = "finish" => stage[r] = "hset",
         (Kind[r] = "direct" /\ stage'[r] \in {"probe", "fill", "deduct", "commit"}) =>
            stage[r] \in {"probe", "fill", "deduct"}
  PROVE  InsertInv'
<1>1. \A q \in Requests : Inserted(q)' => Inserted(q) BY DEF Inserted
<1> QED BY <1>1 DEF InsertInv

\* The steps that leave the books and the uncommitted inserts alone.
LEMMA InsertQuiet ==
  ASSUME TypeOK, StageInv, InsertInv, NEW r \in Requests,
         \/ Arrive(r) \/ TryLock(r) \/ Wake(r) \/ WarmRead(r) \/ Refresh(r) \/ WarmWrite(r)
         \/ Serve(r) \/ LookUp(r) \/ Adjust(r)
         \/ Purchase(r) \/ StartRecharge(r) \/ OpenRecharge(r) \/ WriteHash(r)
         \/ UpstreamFails(r) \/ WriteHashFails(r)
  PROVE  InsertInv'
<1>1. stage[r] \in StagesOf(Kind[r]) /\ Kind[r] \in Kinds BY LedgerAssumption DEF StageInv
<1>2. tx[Trace[r]].status \in {"none", "pending", "committed"} BY RequestTypes DEF TypeOK
<1> USE <1>1, MovesOnly DEF StagesOf, Kinds
<1>3. CASE Arrive(r) BY <1>3, QuietStep DEF Arrive
<1>4. CASE TryLock(r) BY <1>4, QuietStep DEF TryLock
<1>5. CASE Wake(r) BY <1>5, QuietStep DEF Wake
<1>6. CASE WarmRead(r) BY <1>6, QuietStep DEF WarmRead, Open
<1>7. CASE Refresh(r) BY <1>7, QuietStep DEF Refresh
<1>8. CASE WarmWrite(r) BY <1>8, QuietStep DEF WarmWrite
<1>9. CASE Serve(r) BY <1>9, QuietStep DEF Serve, Settling
<1>10. CASE LookUp(r) BY <1>10, <1>2, QuietStep DEF LookUp, WhenCommitted, WhenPending
<1>11. CASE Adjust(r) BY <1>11, QuietStep DEF Adjust
<1>12. CASE Claim(r) BY <1>12, QuietStep DEF Claim
<1>13. CASE Probe(r) BY <1>13, QuietStep DEF Probe
<1>14. CASE Fill(r) BY <1>14, QuietStep DEF Fill
<1>15. CASE Resync(r) BY <1>15, QuietStep DEF Resync
<1>16. CASE StartRecharge(r) BY <1>16, QuietStep DEF StartRecharge
<1>17. CASE OpenRecharge(r) BY <1>17, QuietStep DEF OpenRecharge, Open
<1>18. CASE WriteHash(r) BY <1>18, QuietStep DEF WriteHash
<1>19. CASE UpstreamFails(r) BY <1>19, QuietStep DEF UpstreamFails
<1>20. CASE WriteHashFails(r) BY <1>20, QuietStep DEF WriteHashFails
<1> QED BY <1>3, <1>4, <1>5, <1>6, <1>7, <1>8, <1>9, <1>10, <1>11, <1>12, <1>13, <1>14, <1>15,
           <1>16, <1>17, <1>18, <1>19, <1>20 DEF Purchase

\* The steps that write them.
LEMMA InsertLoud ==
  ASSUME TypeOK, StageInv, InsertInv, NEW r \in Requests,
         \/ Deduct(r) \/ CreatePending(r) \/ Insert(r) \/ Commit(r) \/ CommitFails(r)
         \/ Credit(r) \/ Finish(r)
  PROVE  InsertInv'
<1>1. stage[r] \in StagesOf(Kind[r]) /\ Kind[r] \in Kinds BY LedgerAssumption DEF StageInv
<1>2. /\ \A q \in Requests : Trace[q] \in Traces
      /\ r # NoOne
  BY RequestTypes, LedgerAssumption
<1> USE <1>2
<1>3. CASE Deduct(r)
  <2>1. Kind[r] = "direct" => dirty[Trace[r]] = r
    BY <1>3 DEF Deduct, Moves, InsertInv, Inserted
  <2>2. \A q \in Requests \ {r} : stage'[q] = stage[q] BY <1>3 DEF Deduct, Moves, TypeOK
  <2>3. stage'[r] \in {"refused", "commit", "upstream"} BY <1>3 DEF Deduct, Moves, TypeOK
  <2>4. Inserted(r)' => dirty' = dirty /\ Inserted(r)
    BY <1>3, <2>3 DEF Deduct, Moves, Inserted, TypeOK
  <2>5. \A q \in Requests \ {r} : Inserted(q)' => Inserted(q) BY <2>2 DEF Inserted
  <2>6. dirty' = dirty \/ (dirty[Trace[r]] = r /\ dirty' = [dirty EXCEPT ![Trace[r]] = NoOne])
    BY <1>3, <2>1 DEF Deduct
  <2>7. tx' = tx BY <1>3 DEF Deduct
  <2> QED BY <2>2, <2>3, <2>4, <2>5, <2>6, <2>7 DEF InsertInv, TypeOK
<1>4. CASE CreatePending(r)
  <2>1. stage[r] = "pend" /\ stage'[r] \in {"done", "lookup"}
    BY <1>4 DEF CreatePending, Settling, Moves, TypeOK
  <2>2. \A q \in Requests \ {r} : stage'[q] = stage[q] BY <1>4 DEF CreatePending, Moves, TypeOK
  <2>3. \A q \in Requests : Inserted(q)' => Inserted(q) BY <2>1, <2>2 DEF Inserted
  <2>4. dirty' = dirty BY <1>4 DEF CreatePending
  <2>5. \A t \in Traces : tx'[t] = tx[t] \/ tx'[t].status = "pending"
    BY <1>4 DEF CreatePending, TypeOK
  <2> QED BY <2>1, <2>2, <2>3, <2>4, <2>5 DEF InsertInv
<1>5. CASE Insert(r)
  <2>1. dirty[Trace[r]] = NoOne /\ tx' = tx BY <1>5 DEF Insert
  <2>2. \A q \in Requests \ {r} : stage'[q] = stage[q] BY <1>5 DEF Insert, Moves, TypeOK
  <2>3. \A q \in Requests \ {r} : Inserted(q)' => Inserted(q) /\ Trace[q] # Trace[r]
    BY <2>1, <2>2, LedgerAssumption DEF Inserted, InsertInv
  <2>4. CASE tx[Trace[r]].status # "none"
    <3>1. stage'[r] \in {"refused", "unbilled"} BY <1>5, <2>4 DEF Insert, WhenPending, Moves, TypeOK
    <3>2. dirty' = dirty BY <1>5, <2>4 DEF Insert
    <3> QED BY <2>1, <2>2, <2>3, <3>1, <3>2 DEF InsertInv, Inserted
  <2>5. CASE tx[Trace[r]].status = "none"
    <3>1. stage'[r] \in {"probe", "credit", "adjust"} BY <1>5, <2>5 DEF Insert, Moves, TypeOK
    <3>2. dirty' = [dirty EXCEPT ![Trace[r]] = r] BY <1>5, <2>5 DEF Insert
    <3> QED BY <2>1, <2>2, <2>3, <2>5, <3>1, <3>2 DEF InsertInv, TypeOK
  <2> QED BY <2>4, <2>5
<1>6. CASE Commit(r) \/ CommitFails(r)
  <2>1. stage'[r] \in {"resync", "done", "unbilled"}
    BY <1>6 DEF Commit, CommitFails, Moves, TypeOK
  <2>2. \A q \in Requests \ {r} : stage'[q] = stage[q]
    BY <1>6 DEF Commit, CommitFails, Moves, TypeOK
  <2>3. ~Inserted(r)' /\ \A q \in Requests \ {r} : Inserted(q)' => Inserted(q)
    BY <2>1, <2>2 DEF Inserted
  <2>4. CASE dirty[Trace[r]] = r
    <3>1. dirty' = [dirty EXCEPT ![Trace[r]] = NoOne] BY <1>6, <2>4 DEF Commit, CommitFails
    <3>2. \A t \in Traces \ {Trace[r]} : tx'[t] = tx[t] BY <1>6 DEF Commit, CommitFails, TypeOK
    <3> QED BY <2>1, <2>2, <2>3, <2>4, <3>1, <3>2 DEF InsertInv, TypeOK
  <2>5. CASE dirty[Trace[r]] # r
    <3>1. dirty' = dirty /\ tx' = tx BY <1>6, <2>5 DEF Commit, CommitFails
    <3> QED BY <2>1, <2>2, <2>3, <3>1 DEF InsertInv
  <2> QED BY <2>4, <2>5
<1>7. CASE Credit(r)
  <2>1. stage[r] = "credit" /\ stage'[r] = "hset" BY <1>7 DEF Credit, Moves, TypeOK
  <2>2. dirty[Trace[r]] = r BY <2>1 DEF InsertInv, Inserted
  <2>3. \A q \in Requests \ {r} : stage'[q] = stage[q] BY <1>7 DEF Credit, Moves, TypeOK
  <2>4. ~Inserted(r)' /\ \A q \in Requests \ {r} : Inserted(q)' => Inserted(q)
    BY <1>1, <2>1, <2>3 DEF Inserted, StagesOf, Kinds
  <2>5. dirty' = [dirty EXCEPT ![Trace[r]] = NoOne] BY <1>7 DEF Credit
  <2>6. tx'[Trace[r]].status = "pending" /\ \A t \in Traces \ {Trace[r]} : tx'[t] = tx[t]
    BY <1>7 DEF Credit, TypeOK
  <2> QED BY <2>1, <2>2, <2>3, <2>4, <2>5, <2>6 DEF InsertInv, TypeOK
<1>8. CASE Finish(r)
  <2>1. stage[r] = "finish" /\ stage'[r] = "done" BY <1>8 DEF Finish, Moves, TypeOK
  <2>2. \A q \in Requests \ {r} : stage'[q] = stage[q] BY <1>8 DEF Finish, Moves, TypeOK
  <2>3. \A q \in Requests : Inserted(q)' => Inserted(q) BY <2>1, <2>2 DEF Inserted
  <2>4. dirty' = dirty BY <1>8 DEF Finish
  <2>5. tx'[Trace[r]].status = "committed" /\ \A t \in Traces \ {Trace[r]} : tx'[t] = tx[t]
    BY <1>8 DEF Finish, TypeOK
  <2> QED BY <2>1, <2>2, <2>3, <2>4, <2>5 DEF InsertInv
<1> QED BY <1>3, <1>4, <1>5, <1>6, <1>7, <1>8

LEMMA InsertStep == TypeOK /\ StageInv /\ InsertInv /\ [Next]_vars => InsertInv'
<1> SUFFICES ASSUME TypeOK, StageInv, InsertInv, [Next]_vars PROVE InsertInv' OBVIOUS
<1>1. ASSUME NEW r \in Requests, Progress(r) \/ Faults(r) PROVE InsertInv'
  BY <1>1, InsertQuiet, InsertLoud DEF Progress, Precheck, Settle, Recharge, Faults
<1>2. CASE UNCHANGED <<tx, dirty, stage>> BY <1>2 DEF InsertInv, Inserted
<1> QED BY <1>1, <1>2 DEF Next, SyncRead, SyncWrite, Midnight, HashExpires, LockExpires, vars

\* The invariant leaves no step that could change a committed transaction.
LEMMA FinalStep ==
  ASSUME TypeOK, InsertInv, [Next]_vars, NEW t \in Traces, tx[t].status = "committed"
  PROVE  tx'[t] = tx[t]
<1>1. ASSUME NEW r \in Requests, Progress(r) \/ Faults(r) PROVE tx'[t] = tx[t]
  <2>1. r # NoOne /\ Trace[r] \in Traces BY RequestTypes, LedgerAssumption
  <2>2. dirty[t] = NoOne BY DEF InsertInv
  <2>3. CASE CreatePending(r) BY <2>1, <2>3 DEF CreatePending, TypeOK
  <2>4. CASE Commit(r) BY <2>1, <2>2, <2>4 DEF Commit, TypeOK
  <2>5. CASE Credit(r)
    <3>1. dirty[Trace[r]] = r BY <2>5 DEF Credit, Moves, InsertInv, Inserted
    <3> QED BY <2>1, <2>2, <2>5, <3>1 DEF Credit, TypeOK
  <2>6. CASE Finish(r) BY <2>1, <2>6 DEF Finish, TypeOK
  <2>7. CASE UNCHANGED tx BY <2>7
  <2> QED BY <1>1, <2>3, <2>4, <2>5, <2>6, <2>7
          DEF Progress, Precheck, Settle, Purchase, Recharge, Faults, Arrive, TryLock, Wake, WarmRead,
              OpenRecharge, Open, Refresh, WarmWrite, Deduct, Serve, LookUp, Insert, Adjust, Claim,
              Probe, Fill, Resync, StartRecharge, WriteHash, UpstreamFails, CommitFails, WriteHashFails
<1>2. CASE UNCHANGED tx BY <1>2
<1> QED BY <1>1, <1>2 DEF Next, SyncRead, SyncWrite, Midnight, HashExpires, LockExpires, vars

\* A committed transaction is never changed, and no second one of its trace_id is
\* written, in any interleaving of billing, purchases and repeated recharges.
THEOREM CommittedIsFinal == Spec => BooksAreFinal
<1> DEFINE IInv == TypeOK /\ StageInv /\ InsertInv
<1>1. Init => IInv BY TypeInit, StageInit, InsertInit
<1>2. IInv /\ [Next]_vars => IInv' BY TypeStep, StageStep, InsertStep
<1>3. IInv /\ [Next]_vars =>
        [\A t \in Traces : tx[t].status = "committed" => tx'[t] = tx[t]]_vars
  BY FinalStep
<1> QED BY <1>1, <1>2, <1>3, PTL DEF Spec, BooksAreFinal

-----------------------------------------------------------------------------
(* What was served is in the books *)

\* No two requests bear the same trace_id.
DistinctTraces == \A r, q \in Requests : Trace[r] = Trace[q] => r = q

\* What the theorem takes for granted: traces are distinct, commits do not fail, and no
\* request is streamed (create_pending of a stream has get_by_trace_id find a PENDING
\* transaction, and record_and_adjust then settles nothing).
PlainBilling ==
  /\ DistinctTraces
  /\ ~MayFail
  /\ \A r \in Requests : Kind[r] # "stream"

\* r has not inserted its transaction; has inserted and not committed it.
Unwritten(r) ==
  \/ stage[r] \in {"idle", "warm", "waiting", "warming", "refresh", "warmed", "upstream",
                   "lookup", "open", "insert"}
  \/ (stage[r] = "deduct" /\ Kind[r] # "direct")
Inserting(r) ==
  \/ stage[r] \in {"probe", "fill", "adjust", "commit", "credit"}
  \/ (stage[r] = "deduct" /\ Kind[r] = "direct")

\* What the books and the sessions say of r's trace, at each of its stages.
BookOf(r) ==
  /\ stage[r] # "pend"
  /\ Unwritten(r) => tx[Trace[r]].status = "none" /\ dirty[Trace[r]] = NoOne
  /\ Inserting(r) => tx[Trace[r]].status = "none" /\ dirty[Trace[r]] = r
  /\ stage[r] \in {"hset", "finish"} =>
       tx[Trace[r]] = [status |-> "pending", delta |-> Amount[r]]
  /\ (\/ stage[r] = "resync"
      \/ (stage[r] \in {"done", "unbilled"} /\ Amount[r] > 0)) =>
       tx[Trace[r]] = [status |-> "committed", delta |-> Delta(r)]

BookInv == \A r \in Requests : BookOf(r)

LEMMA BookInit == Init => BookInv
  BY RequestTypes DEF Init, BookInv, BookOf, Unwritten, Inserting, Absent

\* A request touches the books and the uncommitted inserts at its own trace only.
LEMMA OwnTraceOnly ==
  ASSUME TypeOK, NEW r \in Requests, Progress(r) \/ Faults(r), NEW q \in Requests \ {r}
  PROVE  /\ stage'[q] = stage[q]
         /\ Trace[q] # Trace[r] => tx'[Trace[q]] = tx[Trace[q]] /\ dirty'[Trace[q]] = dirty[Trace[q]]
<1>1. PICK s, n : Moves(r, s, n)
  BY DEF Progress, Precheck, Settle, Purchase, Recharge, Faults, Arrive, TryLock, Wake, WarmRead,
         OpenRecharge, Open, Refresh, WarmWrite, Deduct, Serve, CreatePending, LookUp, Insert, Adjust,
         Commit, Claim, Probe, Fill, Resync, StartRecharge, Credit, WriteHash, Finish,
         UpstreamFails, CommitFails, WriteHashFails
<1>2. stage'[q] = stage[q] BY <1>1, MovesOnly
<1>3. ASSUME NEW t \in Traces, t # Trace[r] PROVE tx'[t] = tx[t] /\ dirty'[t] = dirty[t]
  BY <1>3
  DEF TypeOK, Progress, Precheck, Settle, Purchase, Recharge, Faults, Arrive, TryLock, Wake, WarmRead,
      OpenRecharge, Open, Refresh, WarmWrite, Deduct, Serve, CreatePending, LookUp, Insert, Adjust,
      Commit, Claim, Probe, Fill, Resync, StartRecharge, Credit, WriteHash, Finish,
      UpstreamFails, CommitFails, WriteHashFails
<1> QED BY <1>2, <1>3, RequestTypes

\* The stages before the request settles.
LEMMA BookPrecheck ==
  ASSUME TypeOK, StageInv, PlainBilling, NEW r \in Requests, Precheck(r), BookOf(r)
  PROVE  BookOf(r)'
<1> USE MovesOnly, RequestTypes, LedgerAssumption
<1>0. stage[r] \in StagesOf(Kind[r]) /\ Kind[r] \in Kinds BY DEF StageInv
<1>1. CASE Arrive(r) BY <1>1 DEF Arrive, BookOf, Unwritten, Inserting
<1>2. CASE TryLock(r) BY <1>2, <1>0 DEF TryLock, BookOf, Unwritten, Inserting
<1>3. CASE Wake(r) BY <1>3, <1>0 DEF Wake, BookOf, Unwritten, Inserting, StagesOf, Kinds
<1>4. CASE WarmRead(r) BY <1>4, <1>0 DEF WarmRead, Open, BookOf, Unwritten, Inserting
<1>5. CASE Refresh(r) BY <1>5, <1>0 DEF Refresh, BookOf, Unwritten, Inserting
<1>6. CASE WarmWrite(r) BY <1>6, <1>0 DEF WarmWrite, BookOf, Unwritten, Inserting, StagesOf, Kinds
<1>7. CASE Deduct(r)
  <2>1. tx' = tx BY <1>7 DEF Deduct
  <2>2. stage[r] = "deduct" /\ stage'[r] \in {"refused", "commit", "upstream"}
    BY <1>7 DEF Deduct
  <2>3. stage'[r] = "commit" => Kind[r] = "direct" /\ dirty' = dirty BY <1>7 DEF Deduct
  <2>4. stage'[r] = "upstream" => Kind[r] # "direct" /\ dirty' = dirty BY <1>7 DEF Deduct
  <2> QED BY <2>1, <2>2, <2>3, <2>4 DEF BookOf, Unwritten, Inserting
<1> QED BY <1>1, <1>2, <1>3, <1>4, <1>5, <1>6, <1>7 DEF Precheck

LEMMA BookSettle ==
  ASSUME TypeOK, StageInv, PlainBilling, NEW r \in Requests, Settle(r), BookOf(r)
  PROVE  BookOf(r)'
<1> USE MovesOnly, RequestTypes, LedgerAssumption
<1>0. stage[r] \in StagesOf(Kind[r]) /\ Kind[r] \in Kinds BY DEF StageInv
<1>1. CASE Serve(r)
  <2>1. stage[r] = "upstream" /\ stage'[r] = Settling(r) BY <1>1 DEF Serve, PlainBilling
  <2> QED BY <1>1, <2>1 DEF Serve, Settling, BookOf, Unwritten, Inserting
<1>2. CASE CreatePending(r) BY <1>2 DEF CreatePending, BookOf
<1>3. CASE LookUp(r)
  <2>1. stage[r] = "lookup" /\ stage'[r] \in {"open", "insert"}
    BY <1>3 DEF LookUp, BookOf, Unwritten
  <2> QED BY <1>3, <2>1 DEF LookUp, BookOf, Unwritten, Inserting
<1>4. CASE Insert(r)
  <2>1. stage[r] = "insert" /\ tx[Trace[r]].status = "none" BY <1>4 DEF Insert, BookOf, Unwritten
  <2>2. stage'[r] \in {"probe", "credit", "adjust"} /\ tx' = tx
    BY <1>4, <2>1 DEF Insert
  <2>3. dirty'[Trace[r]] = r BY <1>4, <2>1 DEF Insert, TypeOK
  <2> QED BY <2>1, <2>2, <2>3 DEF BookOf, Unwritten, Inserting
<1>5. CASE Adjust(r) BY <1>5 DEF Adjust, BookOf, Unwritten, Inserting
<1>6. CASE Commit(r)
  <2>1. stage[r] = "commit" /\ stage'[r] \in {"resync", "done"} /\ dirty[Trace[r]] = r
    BY <1>6 DEF Commit, BookOf, Inserting
  <2>2. tx'[Trace[r]] = [status |-> "committed", delta |-> Delta(r)]
    BY <1>6, <2>1 DEF Commit, TypeOK
  <2> QED BY <2>1, <2>2 DEF BookOf, Unwritten, Inserting
<1> QED BY <1>1, <1>2, <1>3, <1>4, <1>5, <1>6 DEF Settle

LEMMA BookPurchaseRecharge ==
  ASSUME TypeOK, StageInv, PlainBilling, NEW r \in Requests, Purchase(r) \/ Recharge(r), BookOf(r)
  PROVE  BookOf(r)'
<1> USE MovesOnly, RequestTypes, LedgerAssumption
<1>0. stage[r] \in StagesOf(Kind[r]) /\ Kind[r] \in Kinds BY DEF StageInv
<1>1. CASE Claim(r)
  <2>1. stage[r] = "idle" /\ stage'[r] \in {"lookup", "refused"} BY <1>1 DEF Claim, BookOf, Unwritten
  <2> QED BY <1>1, <2>1 DEF Claim, BookOf, Unwritten, Inserting
<1>2. CASE Probe(r) BY <1>2, <1>0 DEF Probe, BookOf, Unwritten, Inserting, StagesOf, Kinds
<1>3. CASE Fill(r) BY <1>3, <1>0 DEF Fill, BookOf, Unwritten, Inserting, StagesOf, Kinds
<1>4. CASE Resync(r) BY <1>4 DEF Resync, BookOf, Unwritten, Inserting
<1>5. CASE StartRecharge(r) BY <1>5 DEF StartRecharge, BookOf, Unwritten, Inserting
<1>6. CASE OpenRecharge(r) BY <1>6 DEF OpenRecharge, Open, BookOf, Unwritten, Inserting
<1>7. CASE Credit(r)
  <2>1. stage'[r] = "hset" /\ tx'[Trace[r]] = [status |-> "pending", delta |-> Amount[r]]
    BY <1>7 DEF Credit, TypeOK
  <2> QED BY <2>1 DEF BookOf, Unwritten, Inserting
<1>8. CASE WriteHash(r) BY <1>8 DEF WriteHash, BookOf, Unwritten, Inserting
<1>9. CASE Finish(r)
  <2>1. stage[r] = "finish" /\ stage'[r] = "done" BY <1>9 DEF Finish
  <2>2. Kind[r] = "recharge" BY <1>0, <2>1 DEF StagesOf, Kinds
  <2>3. tx[Trace[r]] = [status |-> "pending", delta |-> Delta(r)] BY <2>1, <2>2 DEF BookOf, Delta
  <2>4. tx'[Trace[r]] = [status |-> "committed", delta |-> Delta(r)]
    BY <1>9, <2>3 DEF Finish, TypeOK
  <2> QED BY <2>1, <2>4 DEF BookOf, Unwritten, Inserting
<1> QED BY <1>1, <1>2, <1>3, <1>4, <1>5, <1>6, <1>7, <1>8, <1>9 DEF Purchase, Recharge

LEMMA BookStep == TypeOK /\ StageInv /\ PlainBilling /\ BookInv /\ [Next]_vars => BookInv'
<1> SUFFICES ASSUME TypeOK, StageInv, PlainBilling, BookInv, [Next]_vars PROVE BookInv' OBVIOUS
<1>1. ASSUME NEW r \in Requests, Progress(r) \/ Faults(r) PROVE BookInv'
  <2>1. ASSUME NEW q \in Requests \ {r} PROVE BookOf(q)'
    <3>1. Trace[q] # Trace[r] BY DEF PlainBilling, DistinctTraces
    <3>2. /\ stage'[q] = stage[q] /\ tx'[Trace[q]] = tx[Trace[q]]
          /\ dirty'[Trace[q]] = dirty[Trace[q]]
      BY <1>1, <3>1, OwnTraceOnly
    <3>3. BookOf(q) BY DEF BookInv
    <3> QED BY <3>2, <3>3 DEF BookOf, Unwritten, Inserting
  <2>2. CASE Faults(r) BY <2>2 DEF Faults, UpstreamFails, CommitFails, WriteHashFails, PlainBilling
  <2>3. BookOf(r)'
    BY <1>1, <2>2, BookPrecheck, BookSettle, BookPurchaseRecharge DEF BookInv, Progress
  <2> QED BY <2>1, <2>3 DEF BookInv
<1>2. CASE UNCHANGED <<tx, dirty, stage>> BY <1>2 DEF BookInv, BookOf, Unwritten, Inserting
<1> QED BY <1>1, <1>2 DEF Next, SyncRead, SyncWrite, Midnight, HashExpires, LockExpires, vars

\* A request, purchase or recharge that has run to its end is in the books at its real
\* cost, whatever the others do meanwhile, the hash expires, or days pass; with distinct
\* trace_ids, commits that succeed, and no streamed request.
THEOREM WhatIsServedIsRecorded == Spec /\ PlainBilling => []ServedIsRecorded
<1> DEFINE IInv == TypeOK /\ StageInv /\ (PlainBilling => BookInv)
<1>1. Init => IInv BY TypeInit, StageInit, BookInit
<1>2. PlainBilling' <=> PlainBilling BY DEF PlainBilling, DistinctTraces
<1>3. IInv /\ [Next]_vars => IInv' BY <1>2, TypeStep, StageStep, BookStep
<1>4. IInv /\ PlainBilling => ServedIsRecorded BY DEF BookInv, BookOf, ServedIsRecorded
<1>5. PlainBilling /\ [Next]_vars => PlainBilling' BY <1>2
<1> QED BY <1>1, <1>3, <1>4, <1>5, PTL DEF Spec

-----------------------------------------------------------------------------
(* What is admitted is counted *)

\* Nobody rewrites the hash from the row: it exists from the start, does not expire, and
\* only prechecked requests run (a warm-up, a resync and a recharge write the row over it).
KeptHash ==
  /\ ~Cold /\ ~MayExpire
  /\ \A r \in Requests : Kind[r] \in Prechecked

Admitted == {r \in Requests :
  stage[r] \in {"upstream", "pend", "lookup", "insert", "adjust", "commit", "done",
                "failed", "unbilled"}}

\* Nobody is warming the hash, and it counts the requests admitted today.
CountInv ==
  /\ \A r \in Requests : stage[r] \in {"idle", "deduct", "refused"} \/ r \in Admitted
  /\ redis \in Row
  /\ LastDay = 0 => redis.period = Now /\ redis.used["daily"] = Cardinality(Admitted)

LEMMA CountInit == Init /\ KeptHash => CountInv
<1> SUFFICES ASSUME Init, KeptHash PROVE CountInv OBVIOUS
<1>1. TypeOK BY TypeInit
<1>2. redis = db /\ db \in Row BY <1>1 DEF Init, KeptHash, TypeOK
<1>3. Admitted = {} BY DEF Init, Admitted
<1>4. db.period = Now /\ db.used["daily"] = 0 BY DEF Init, Windows
<1> QED BY <1>2, <1>3, <1>4, FS_EmptySet DEF Init, CountInv

LEMMA AdmittedFinite == IsFiniteSet(Admitted) /\ Cardinality(Admitted) \in Nat
<1>1. Admitted \in SUBSET Requests BY DEF Admitted
<1>2. IsFiniteSet(Requests) BY LedgerAssumption
<1> QED BY <1>1, <1>2, FS_Subset, FS_CardinalityType

\* A step that neither admits a request nor lets one of them go.
LEMMA CountQuiet ==
  ASSUME TypeOK, CountInv, NEW r \in Requests, NEW s, NEW n, Moves(r, s, n), UNCHANGED day,
         s \notin {"deduct", "idle", "refused"},
         n \in {"pend", "lookup", "insert", "adjust", "commit", "done", "failed", "unbilled"},
         redis' \in Row /\ redis'.period = redis.period /\ redis'.used = redis.used
  PROVE  CountInv'
<1>1. stage[r] = s /\ stage'[r] = n /\ \A q \in Requests \ {r} : stage'[q] = stage[q]
  BY MovesOnly
<1>2. r \in Admitted BY <1>1 DEF CountInv
<1>3. Admitted' = Admitted BY <1>1, <1>2 DEF Admitted
<1>4. Now' = Now BY DEF Now
<1>5. \A q \in Requests : stage'[q] \in {"idle", "deduct", "refused"} \/ q \in Admitted'
  BY <1>1, <1>2, <1>3 DEF CountInv
<1> QED BY <1>3, <1>4, <1>5 DEF CountInv

\* The script counts what it admits.
LEMMA CountDeduct ==
  ASSUME TypeOK, CountInv, KeptHash, NEW r \in Requests, Deduct(r)
  PROVE  CountInv'
<1>1. Kind[r] \in Prechecked /\ Kind[r] # "direct" BY DEF KeptHash, Prechecked
<1>2. stage[r] = "deduct" /\ \A q \in Requests \ {r} : stage'[q] = stage[q]
  BY MovesOnly DEF Deduct
<1>3. Now' = Now BY DEF Deduct, Now
<1>4. r \notin Admitted BY <1>2 DEF Admitted
<1>5. CASE redis # NoHash /\ Admits(redis, Charge(r))
  <2>1. stage'[r] = "upstream" /\ redis' = Deducted(redis, Charge(r))
    BY <1>1, <1>5, MovesOnly DEF Deduct
  <2>2. redis' \in Row BY <2>1, DeductedType, RequestTypes DEF CountInv
  <2>3. Admitted' = Admitted \cup {r} BY <1>2, <2>1 DEF Admitted
  <2>4. Cardinality(Admitted') = Cardinality(Admitted) + 1
    BY <1>4, <2>3, AdmittedFinite, FS_AddElement
  <2>5. redis'.period = Now /\ redis'.used["daily"] = InWindow(redis)["daily"] + 1
    BY <2>1 DEF Deducted, Windows
  <2>6. redis.period = Now => InWindow(redis)["daily"] = redis.used["daily"]
    BY DEF InWindow, Windows
  <2>7. \A q \in Requests : stage'[q] \in {"idle", "deduct", "refused"} \/ q \in Admitted'
    BY <1>2, <2>3 DEF CountInv
  <2> QED BY <1>3, <2>2, <2>4, <2>5, <2>6, <2>7 DEF CountInv
<1>6. CASE ~(redis # NoHash /\ Admits(redis, Charge(r)))
  <2>1. stage'[r] = "refused" /\ redis' = redis BY <1>6, MovesOnly DEF Deduct
  <2>2. Admitted' = Admitted BY <1>2, <2>1 DEF Admitted
  <2>3. \A q \in Requests : stage'[q] \in {"idle", "deduct", "refused"} \/ q \in Admitted'
    BY <1>2, <2>1, <2>2 DEF CountInv
  <2> QED BY <1>3, <2>1, <2>2, <2>3 DEF CountInv
<1> QED BY <1>5, <1>6

LEMMA CountStep == TypeOK /\ CountInv /\ KeptHash /\ [Next]_vars => CountInv'
<1> SUFFICES ASSUME TypeOK, CountInv, KeptHash, [Next]_vars PROVE CountInv' OBVIOUS
<1>1. redis \in Row /\ redis # NoHash BY NoHashAssumption DEF CountInv
<1>2. ASSUME NEW r \in Requests, Progress(r) \/ Faults(r) PROVE CountInv'
  <2>1. /\ Kind[r] \in Prechecked /\ Kind[r] # "direct" /\ Kind[r] # "recharge"
        /\ stage[r] \in {"idle", "deduct", "refused", "upstream", "pend", "lookup", "insert",
                         "adjust", "commit", "done", "failed", "unbilled"}
        /\ tx[Trace[r]].status \in {"none", "pending", "committed"}
    BY RequestTypes DEF KeptHash, CountInv, Admitted, Prechecked, TypeOK
  <2>2. CASE Arrive(r)
    <3>1. stage[r] = "idle" /\ stage'[r] = "deduct" /\ \A q \in Requests \ {r} : stage'[q] = stage[q]
      BY <2>2, <1>1, MovesOnly DEF Arrive
    <3>2. Admitted' = Admitted BY <3>1 DEF Admitted
    <3>3. \A q \in Requests : stage'[q] \in {"idle", "deduct", "refused"} \/ q \in Admitted'
      BY <3>1, <3>2 DEF CountInv
    <3>4. UNCHANGED <<day, redis, Now>> BY <2>2 DEF Arrive, Now
    <3> QED BY <3>2, <3>3, <3>4 DEF CountInv
  <2>3. CASE Deduct(r) BY <2>3, CountDeduct
  <2>4. CASE Serve(r) BY <2>4, <1>1, CountQuiet DEF Serve, Settling
  <2>5. CASE CreatePending(r) BY <2>5, <1>1, CountQuiet DEF CreatePending, Settling
  <2>6. CASE LookUp(r) BY <2>6, <1>1, <2>1, CountQuiet DEF LookUp, WhenCommitted, WhenPending
  <2>7. CASE Insert(r) BY <2>7, <1>1, <2>1, CountQuiet DEF Insert, WhenPending
  <2>8. CASE Adjust(r)
    <3>1. Adjusted(redis, Amount[r] - Estimate[r]) \in Row \cup {NoHash}
      BY AdjustedType, RequestTypes DEF TypeOK
    <3>2. redis' = [redis EXCEPT !.balance = @ - (Amount[r] - Estimate[r])]
      BY <2>8, <1>1 DEF Adjust, Adjusted
    <3>3. redis'.period = redis.period /\ redis'.used = redis.used BY <1>1, <3>2 DEF Row
    <3>4. redis' \in Row
      <4>1. redis.balance - (Amount[r] - Estimate[r]) \in Int BY <1>1, RequestTypes DEF Row
      <4> QED BY <1>1, <3>2, <4>1 DEF Row
    <3> QED BY <2>8, <3>3, <3>4, CountQuiet DEF Adjust
  <2>9. CASE Commit(r) BY <2>9, <1>1, <2>1, CountQuiet DEF Commit
  <2>10. CASE UpstreamFails(r) BY <2>10, <1>1, CountQuiet DEF UpstreamFails
  <2>11. CASE CommitFails(r) BY <2>11, <1>1, CountQuiet DEF CommitFails
  <2>12. ~(\/ TryLock(r) \/ Wake(r) \/ WarmRead(r) \/ Refresh(r) \/ WarmWrite(r) \/ Purchase(r)
           \/ Recharge(r) \/ WriteHashFails(r))
    BY <2>1 DEF TryLock, Wake, WarmRead, OpenRecharge, Open, Refresh, WarmWrite, Purchase, Claim,
                Probe, Fill, Resync, Recharge, StartRecharge, Credit, WriteHash, Finish,
                WriteHashFails, Moves
  <2> QED BY <1>2, <2>2, <2>3, <2>4, <2>5, <2>6, <2>7, <2>8, <2>9, <2>10, <2>11, <2>12
          DEF Progress, Precheck, Settle, Faults
<1>3. CASE Midnight
  <2>1. LastDay # 0 BY <1>3, LedgerAssumption DEF Midnight, TypeOK
  <2> QED BY <1>3, <2>1 DEF Midnight, CountInv, Admitted
<1>4. CASE UNCHANGED <<day, redis, stage>> BY <1>4 DEF CountInv, Admitted, Now
<1>5. ~HashExpires BY DEF HashExpires, KeptHash
<1> QED BY <1>2, <1>3, <1>4, <1>5 DEF Next, SyncRead, SyncWrite, LockExpires, vars

\* On one day, the daily counter of the hash is the number of requests that the precheck
\* let through, also when upstream calls and commits fail; with a hash that nobody
\* rewrites from the row.
THEOREM WhatIsAdmittedIsCounted == Spec /\ KeptHash => []AdmittedCounted
<1> DEFINE IInv == TypeOK /\ (KeptHash => CountInv)
<1>1. Init => IInv BY TypeInit, CountInit
<1>2. KeptHash' <=> KeptHash BY DEF KeptHash
<1>3. IInv /\ [Next]_vars => IInv' BY <1>2, TypeStep, CountStep
<1>4. IInv /\ KeptHash => AdmittedCounted BY DEF CountInv, AdmittedCounted, Admitted
<1>5. KeptHash /\ [Next]_vars => KeptHash' BY <1>2
<1> QED BY <1>1, <1>3, <1>4, <1>5, PTL DEF Spec

-----------------------------------------------------------------------------
(* Sums *)

\* Every set of natural numbers that is not empty has a least element.
LEMMA LeastNat ==
  ASSUME NEW S \in SUBSET Nat, S # {}
  PROVE  \E x \in S : \A y \in S : x <= y
<1> DEFINE R == OpToRel(<, Nat)
<1>1. IsWellFoundedOn(R, Nat) BY NatLessThanWellFounded
<1>2. \A a, b \in Nat : a < b => <<a, b>> \in R BY DEF OpToRel
<1> HIDE DEF R
<1>3. PICK x \in S : \A y \in S : ~(<<y, x>> \in R) BY <1>1, WFMin
<1>4. ASSUME NEW y \in S PROVE x <= y
  <2>1. ~(y < x) BY <1>2, <1>3
  <2> QED BY <2>1
<1> QED BY <1>4

\* Of the subsets of a finite set, the smallest in a collection of them.
LEMMA SmallestSubset ==
  ASSUME NEW S, IsFiniteSet(S), NEW C \in SUBSET (SUBSET S), C # {}
  PROVE  \E s \in C : \A u \in C : Cardinality(s) <= Cardinality(u)
<1>1. \A s \in SUBSET S : Cardinality(s) \in Nat BY FS_Subset, FS_CardinalityType
<1> DEFINE N == {Cardinality(s) : s \in C}
<1>2. N \in SUBSET Nat /\ N # {} BY <1>1
<1>3. PICK n \in N : \A m \in N : n <= m BY <1>2, LeastNat
<1>4. PICK s \in C : n = Cardinality(s) OBVIOUS
<1> QED BY <1>3, <1>4

\* The element a sum takes first, and what is left of the set.
Pick(s) == CHOOSE x \in s : TRUE
Rest(s) == s \ {Pick(s)}

LEMMA RestSmaller ==
  ASSUME NEW S, IsFiniteSet(S), NEW s \in SUBSET S, s # {}
  PROVE  /\ Pick(s) \in s /\ Rest(s) \in SUBSET S
         /\ Cardinality(s) \in Nat /\ Cardinality(Rest(s)) = Cardinality(s) - 1
<1>1. Pick(s) \in s BY DEF Pick
<1>2. IsFiniteSet(s) BY FS_Subset
<1> QED BY <1>1, <1>2, FS_RemoveElement, FS_CardinalityType DEF Rest

\* g is the partial sum of f over the sets of D.
Sums(g, f, D) ==
  g = [s \in D |-> IF s = {} THEN 0 ELSE f[Pick(s)] + g[Rest(s)]]

\* The partial sums over the subsets of a finite set exist.
LEMMA SumsExist ==
  ASSUME NEW S, IsFiniteSet(S), NEW f
  PROVE  \E g : Sums(g, f, SUBSET S)
<1> DEFINE Low(n) == {s \in SUBSET S : Cardinality(s) <= n}
           Bad == {n \in Nat : ~ \E g : Sums(g, f, Low(n))}
<1>1. \A s \in SUBSET S : Cardinality(s) \in Nat /\ (Cardinality(s) = 0 <=> s = {})
  BY FS_Subset, FS_CardinalityType, FS_EmptySet
<1>2. 0 \notin Bad
  <2> DEFINE g == [s \in Low(0) |-> 0]
  <2>1. \A s \in Low(0) : s = {} BY <1>1
  <2>2. Sums(g, f, Low(0)) BY <2>1 DEF Sums
  <2> QED BY <2>2
<1>3. ASSUME NEW n \in Bad, \A m \in Bad : n <= m PROVE FALSE
  <2>1. n \in Nat /\ n - 1 \in Nat /\ n - 1 \notin Bad
    <3>1. n \in Nat /\ n # 0 BY <1>2
    <3> HIDE DEF Bad
    <3> QED BY <1>3, <3>1
  <2>2. PICK g : Sums(g, f, Low(n - 1)) BY <2>1
  <2> DEFINE h == [s \in Low(n) |-> IF s = {} THEN 0 ELSE f[Pick(s)] + g[Rest(s)]]
  <2>3. ASSUME NEW s \in Low(n), s # {} PROVE Rest(s) \in Low(n - 1) /\ Rest(s) \in Low(n)
    BY <2>1, <2>3, RestSmaller
  <2>4. ASSUME NEW s \in Low(n - 1) PROVE s \in Low(n) /\ h[s] = g[s]
    <3>1. s \in Low(n) BY <1>1, <2>1
    <3>2. g[s] = IF s = {} THEN 0 ELSE f[Pick(s)] + g[Rest(s)] BY <2>2 DEF Sums
    <3> QED BY <3>1, <3>2
  <2>5. \A s \in Low(n) : s # {} => h[Rest(s)] = g[Rest(s)] BY <2>3, <2>4
  <2>6. Sums(h, f, Low(n)) BY <2>5 DEF Sums
  <2> QED BY <2>6
<1>4. Bad = {}
  <2>1. Bad \in SUBSET Nat OBVIOUS
  <2> HIDE DEF Bad
  <2> QED BY <2>1, <1>3, LeastNat
<1>5. Cardinality(S) \in Nat /\ Low(Cardinality(S)) = SUBSET S BY FS_Subset, FS_CardinalityType
<1>6. \E g : Sums(g, f, Low(Cardinality(S))) BY <1>4, <1>5
<1> QED BY <1>5, <1>6

\* The sum of a function over a finite set is the last of the partial sums.
LEMMA SumOfFinite ==
  ASSUME NEW f, IsFiniteSet(DOMAIN f)
  PROVE  \E g : Sums(g, f, SUBSET DOMAIN f) /\ SumFunction(f) = g[DOMAIN f]
<1> DEFINE S == DOMAIN f
           g == CHOOSE h : Sums(h, f, SUBSET S)
<1>1. Sums(g, f, SUBSET S) BY SumsExist
<1>2. SumFunction(f) = g[S]
  BY DEF SumFunction, SumFunctionOnSet, FoldFunctionOnSet, MapThenFoldSet, Sums, Pick, Rest
<1> QED BY <1>1, <1>2

\* Two functions that differ at one point have sums that differ by as much.
LEMMA SumOfChange ==
  ASSUME NEW f, NEW h, NEW y \in DOMAIN f, IsFiniteSet(DOMAIN f), DOMAIN h = DOMAIN f,
         \A x \in DOMAIN f : f[x] \in Int /\ h[x] \in Int,
         \A x \in DOMAIN f \ {y} : h[x] = f[x]
  PROVE  SumFunction(f) \in Int /\ SumFunction(h) = SumFunction(f) + h[y] - f[y]
<1> DEFINE S == DOMAIN f
<1>1. PICK a : Sums(a, f, SUBSET S) /\ SumFunction(f) = a[S] BY SumOfFinite
<1>2. PICK b : Sums(b, h, SUBSET S) /\ SumFunction(h) = b[S] BY SumOfFinite
<1> DEFINE Good(s) == a[s] \in Int /\ b[s] = IF y \in s THEN a[s] + h[y] - f[y] ELSE a[s]
           Bad == {s \in SUBSET S : ~ Good(s)}
<1>3. ASSUME NEW s \in Bad, \A u \in Bad : Cardinality(s) <= Cardinality(u) PROVE FALSE
  <2>1. s \in SUBSET S /\ ~ Good(s) OBVIOUS
  <2>2. CASE s = {}
    <3>1. a[s] = 0 /\ b[s] = 0 BY <1>1, <1>2, <2>1, <2>2 DEF Sums
    <3> QED BY <2>1, <2>2, <3>1
  <2>3. CASE s # {}
    <3>1. /\ Pick(s) \in s /\ Rest(s) \in SUBSET S
          /\ Cardinality(s) \in Nat /\ Cardinality(Rest(s)) = Cardinality(s) - 1
      BY <2>1, <2>3, RestSmaller
    <3>2. Good(Rest(s))
      <4> HIDE DEF Good
      <4>1. ~(Cardinality(s) <= Cardinality(Rest(s))) BY <3>1
      <4> QED BY <1>3, <3>1, <4>1
    <3>3. a[s] = f[Pick(s)] + a[Rest(s)] /\ b[s] = h[Pick(s)] + b[Rest(s)]
      BY <1>1, <1>2, <2>1, <2>3 DEF Sums
    <3>4. Pick(s) \in S /\ f[Pick(s)] \in Int /\ h[Pick(s)] \in Int /\ f[y] \in Int /\ h[y] \in Int
      BY <2>1, <3>1
    <3>5. y \in Rest(s) <=> y \in s /\ Pick(s) # y BY DEF Rest
    <3>6. CASE Pick(s) = y BY <2>1, <3>1, <3>2, <3>3, <3>4, <3>5, <3>6
    <3>7. CASE Pick(s) # y
      <4>1. h[Pick(s)] = f[Pick(s)] BY <3>4, <3>7
      <4> QED BY <2>1, <3>2, <3>3, <3>4, <3>5, <3>7, <4>1
    <3> QED BY <3>6, <3>7
  <2> QED BY <2>2, <2>3
<1>4. Bad = {}
  <2>1. Bad \in SUBSET (SUBSET S) OBVIOUS
  <2> HIDE DEF Bad
  <2> QED BY <2>1, <1>3, SmallestSubset
<1>5. Good(S)
  <2> HIDE DEF Good
  <2> QED BY <1>4
<1> QED BY <1>1, <1>2, <1>5

\* Zeros add up to zero.
LEMMA SumOfZeros ==
  ASSUME NEW f, IsFiniteSet(DOMAIN f), \A x \in DOMAIN f : f[x] = 0
  PROVE  SumFunction(f) = 0
<1> DEFINE S == DOMAIN f
<1>1. PICK a : Sums(a, f, SUBSET S) /\ SumFunction(f) = a[S] BY SumOfFinite
<1> DEFINE Bad == {s \in SUBSET S : a[s] # 0}
<1>2. ASSUME NEW s \in Bad, \A u \in Bad : Cardinality(s) <= Cardinality(u) PROVE FALSE
  <2>1. s \in SUBSET S /\ a[s] # 0 OBVIOUS
  <2>2. CASE s = {} BY <1>1, <2>1, <2>2 DEF Sums
  <2>3. CASE s # {}
    <3>1. /\ Pick(s) \in s /\ Rest(s) \in SUBSET S
          /\ Cardinality(s) \in Nat /\ Cardinality(Rest(s)) = Cardinality(s) - 1
      BY <2>1, <2>3, RestSmaller
    <3>2. Rest(s) \notin Bad
      <4>1. ~(Cardinality(s) <= Cardinality(Rest(s))) BY <3>1
      <4> QED BY <1>2, <4>1
    <3>3. a[s] = f[Pick(s)] + a[Rest(s)] BY <1>1, <2>1, <2>3 DEF Sums
    <3>4. a[Rest(s)] = 0 BY <3>1, <3>2
    <3> QED BY <2>1, <3>1, <3>3, <3>4
  <2> QED BY <2>2, <2>3
<1>3. Bad = {}
  <2>1. Bad \in SUBSET (SUBSET S) OBVIOUS
  <2> HIDE DEF Bad
  <2> QED BY <2>1, <1>2, SmallestSubset
<1> QED BY <1>1, <1>3

-----------------------------------------------------------------------------
(* The books balance *)

\* Only proxy requests run, and each costs something (record_and_adjust returns early
\* when the cost is 0 and then leaves the estimate taken).
PricedProxies == \A r \in Requests : Kind[r] = "proxy" /\ Amount[r] > 0

\* Nothing but priced proxy requests touches the hash, and nothing fails.
PlainTenant == PlainBilling /\ KeptHash /\ PricedProxies

BalanceInv == redis.balance = Opening + SumFunction(Booked) - SumFunction(Held)

LEMMA TracesFinite == IsFiniteSet(Requests) /\ IsFiniteSet(Traces)
<1>1. IsFiniteSet(Requests) BY LedgerAssumption
<1>2. Trace \in Surjection(Requests, Traces) BY DEF Surjection, Trace, Traces
<1> QED BY <1>1, <1>2, FS_Surjection

\* What the sums range over.
LEMMA SumTypes ==
  ASSUME TypeOK
  PROVE  /\ Held \in [Requests -> Int] /\ SumFunction(Held) \in Int
         /\ Booked \in [Traces -> Int] /\ SumFunction(Booked) \in Int
<1>1. ASSUME NEW r \in Requests PROVE Held[r] \in Int
  BY RequestTypes DEF Held
<1>2. Held \in [Requests -> Int] BY <1>1 DEF Held
<1>3. Booked \in [Traces -> Int] BY DEF Booked, TypeOK
<1>4. ASSUME NEW f, NEW S, IsFiniteSet(S), f \in [S -> Int] PROVE SumFunction(f) \in Int
  <2>1. CASE S = {} BY <1>4, <2>1, SumOfZeros
  <2>2. CASE S # {}
    <3>1. PICK y \in S : TRUE BY <2>2
    <3> QED BY <1>4, <3>1, SumOfChange
  <2> QED BY <2>1, <2>2
<1> QED BY <1>2, <1>3, <1>4, TracesFinite

LEMMA BalanceInit == Init /\ PlainTenant => BalanceInv
<1> SUFFICES ASSUME Init, PlainTenant PROVE BalanceInv OBVIOUS
<1>1. redis.balance = Opening /\ Opening \in Int
  BY LedgerAssumption DEF Init, PlainTenant, KeptHash
<1>2. DOMAIN Held = Requests /\ \A r \in Requests : Held[r] = 0 BY DEF Init, Held
<1>3. DOMAIN Booked = Traces /\ \A t \in Traces : Booked[t] = 0 BY DEF Init, Booked, Absent
<1>4. SumFunction(Held) = 0 BY <1>2, TracesFinite, SumOfZeros
<1>5. SumFunction(Booked) = 0 BY <1>3, TracesFinite, SumOfZeros
<1> QED BY <1>1, <1>4, <1>5 DEF BalanceInv

\* A step of request r changes the two sums by what changes at r and at its trace.
LEMMA SumStep ==
  ASSUME TypeOK, TypeOK', NEW r \in Requests, Progress(r) \/ Faults(r), DistinctTraces
  PROVE  /\ SumFunction(Held') = SumFunction(Held) + Held'[r] - Held[r]
         /\ SumFunction(Booked') = SumFunction(Booked) + Booked'[Trace[r]] - Booked[Trace[r]]
<1>1. \A q \in Requests \ {r} : stage'[q] = stage[q] BY OwnTraceOnly
<1>2. \A q \in Requests \ {r} : Held'[q] = Held[q] BY <1>1 DEF Held, Charge
<1>3. Held \in [Requests -> Int] /\ Held' \in [Requests -> Int]
  <2>1. ASSUME NEW q \in Requests PROVE Held[q] \in Int /\ Held'[q] \in Int
    BY RequestTypes DEF Held
  <2> QED BY <2>1 DEF Held
<1>4. Booked \in [Traces -> Int] /\ Booked' \in [Traces -> Int]
  BY DEF Booked, TypeOK
<1>5. ASSUME NEW t \in Traces, t # Trace[r] PROVE Booked'[t] = Booked[t]
  <2>1. PICK q \in Requests : t = Trace[q] BY DEF Traces
  <2>2. tx'[t] = tx[t] BY <1>5, <2>1, OwnTraceOnly
  <2> QED BY <2>2 DEF Booked
<1>6. Trace[r] \in Traces BY RequestTypes
<1>7. SumFunction(Held') = SumFunction(Held) + Held'[r] - Held[r]
  BY <1>2, <1>3, TracesFinite, SumOfChange
<1>8. SumFunction(Booked') = SumFunction(Booked) + Booked'[Trace[r]] - Booked[Trace[r]]
  BY <1>4, <1>5, <1>6, TracesFinite, SumOfChange
<1> QED BY <1>7, <1>8

\* Every step of a proxy request changes the balance of the hash by as much as it
\* changes the two sums.
LEMMA BalanceStep ==
  ASSUME TypeOK, TypeOK', CountInv, BookInv, BalanceInv, PlainTenant,
         NEW r \in Requests, Progress(r) \/ Faults(r)
  PROVE  BalanceInv'
<1>1. DistinctTraces BY DEF PlainTenant, PlainBilling
<1>2. /\ SumFunction(Held') = SumFunction(Held) + Held'[r] - Held[r]
      /\ SumFunction(Booked') = SumFunction(Booked) + Booked'[Trace[r]] - Booked[Trace[r]]
  BY <1>1, SumStep
<1>3. SumFunction(Held) \in Int /\ SumFunction(Booked) \in Int BY SumTypes
<1>4. redis \in Row /\ redis # NoHash /\ redis.balance \in Int
  BY NoHashAssumption DEF CountInv, Row
<1>5. /\ Kind[r] = "proxy" /\ Amount[r] > 0 /\ ~MayFail
      /\ Amount[r] \in Nat /\ Estimate[r] \in Nat /\ Opening \in Nat
      /\ Trace[r] \in Traces
      /\ Charge(r) = Estimate[r] /\ Delta(r) = -Amount[r]
  BY LedgerAssumption, RequestTypes DEF PlainTenant, PricedProxies, PlainBilling, Charge, Delta
<1>6. BookOf(r) /\ (stage[r] \in {"idle", "deduct", "refused"} \/ r \in Admitted)
  BY DEF BookInv, CountInv
<1> DEFINE Kept == /\ Held'[r] = Held[r] /\ Held[r] \in Int
                   /\ Booked'[Trace[r]] = Booked[Trace[r]] /\ Booked[Trace[r]] \in Int
                   /\ redis'.balance = redis.balance
<1>7. Held[r] \in Int /\ Booked[Trace[r]] \in Int BY <1>5, SumTypes
<1>8. CASE Kept
  <2>1. SumFunction(Held') = SumFunction(Held) BY <1>2, <1>3, <1>8
  <2>2. SumFunction(Booked') = SumFunction(Booked) BY <1>2, <1>3, <1>8
  <2> QED BY <1>8, <2>1, <2>2 DEF BalanceInv
<1>9. CASE Arrive(r)
  <2>1. stage[r] = "idle" /\ stage'[r] = "deduct" BY <1>4, <1>9, MovesOnly DEF Arrive
  <2>2. Held'[r] = 0 /\ Held[r] = 0 BY <2>1 DEF Held
  <2>3. Booked' = Booked /\ redis' = redis BY <1>9 DEF Arrive, Booked
  <2> QED BY <1>7, <1>8, <2>2, <2>3
<1>10. CASE Deduct(r)
  <2>1. stage[r] = "deduct" BY <1>10, MovesOnly DEF Deduct
  <2>2. Held[r] = 0 BY <2>1 DEF Held
  <2>3. Booked' = Booked BY <1>10 DEF Deduct, Booked
  <2>4. CASE Admits(redis, Charge(r))
    <3>1. stage'[r] = "upstream" /\ redis' = Deducted(redis, Charge(r))
      BY <1>4, <1>5, <1>10, <2>4, MovesOnly DEF Deduct
    <3>2. Held'[r] = Estimate[r] BY <1>5, <3>1 DEF Held, Charge
    <3>3. redis'.balance = redis.balance - Estimate[r] BY <1>4, <1>5, <3>1, DeductedType
    <3>4. SumFunction(Held') = SumFunction(Held) + Estimate[r] BY <1>2, <1>3, <1>5, <2>2, <3>2
    <3>5. SumFunction(Booked') = SumFunction(Booked) BY <2>3
    <3> QED BY <1>3, <1>4, <1>5, <3>3, <3>4, <3>5 DEF BalanceInv
  <2>5. CASE ~Admits(redis, Charge(r))
    <3>1. stage'[r] = "refused" /\ redis' = redis BY <1>10, <2>5, MovesOnly DEF Deduct
    <3>2. Held'[r] = 0 BY <3>1 DEF Held
    <3> QED BY <1>7, <1>8, <2>2, <2>3, <3>1, <3>2
  <2> QED BY <2>4, <2>5
<1>11. CASE Serve(r) \/ LookUp(r) \/ Insert(r)
  <2>1. stage[r] \in {"upstream", "lookup", "insert"} /\ tx[Trace[r]].status = "none"
    BY <1>6, <1>11, MovesOnly DEF Serve, LookUp, Insert, BookOf, Unwritten
  <2>2. stage'[r] \in {"lookup", "insert", "adjust"}
    BY <1>5, <1>11, <2>1, MovesOnly DEF Serve, Settling, LookUp, Insert
  <2>3. Held'[r] = Held[r] BY <1>5, <2>1, <2>2 DEF Held, Charge
  <2>4. Booked' = Booked /\ redis' = redis BY <1>11 DEF Serve, LookUp, Insert, Booked
  <2> QED BY <1>7, <1>8, <2>3, <2>4
<1>12. CASE Adjust(r)
  <2>1. stage[r] = "adjust" /\ stage'[r] = "commit" BY <1>12, MovesOnly DEF Adjust
  <2>2. Held[r] = Estimate[r] /\ Held'[r] = Amount[r] BY <1>5, <2>1 DEF Held, Charge
  <2>3. redis' = [redis EXCEPT !.balance = @ - (Amount[r] - Estimate[r])]
    BY <1>4, <1>12 DEF Adjust, Adjusted
  <2>4. redis'.balance = redis.balance - (Amount[r] - Estimate[r]) BY <1>4, <2>3 DEF Row
  <2>5. SumFunction(Held') = SumFunction(Held) + Amount[r] - Estimate[r] BY <1>2, <2>2
  <2>6. SumFunction(Booked') = SumFunction(Booked) BY <1>12 DEF Adjust, Booked
  <2> QED BY <1>3, <1>4, <1>5, <2>4, <2>5, <2>6 DEF BalanceInv
<1>13. CASE Commit(r)
  <2>1. stage[r] = "commit" /\ stage'[r] = "done" BY <1>5, <1>13, MovesOnly DEF Commit
  <2>2. tx[Trace[r]].status = "none" /\ dirty[Trace[r]] = r
    BY <1>6, <2>1 DEF BookOf, Inserting
  <2>3. tx'[Trace[r]] = [status |-> "committed", delta |-> -Amount[r]]
    BY <1>5, <1>13, <2>2 DEF Commit, TypeOK
  <2>4. Held[r] = Amount[r] /\ Held'[r] = 0 BY <2>1 DEF Held
  <2>5. Booked[Trace[r]] = 0 /\ Booked'[Trace[r]] = -Amount[r] BY <1>5, <2>2, <2>3 DEF Booked
  <2>6. SumFunction(Held') = SumFunction(Held) - Amount[r] BY <1>2, <1>3, <1>5, <2>4
  <2>7. SumFunction(Booked') = SumFunction(Booked) - Amount[r] BY <1>2, <1>3, <1>5, <2>5
  <2>8. redis' = redis BY <1>13 DEF Commit
  <2> QED BY <1>3, <1>4, <1>5, <2>6, <2>7, <2>8 DEF BalanceInv
<1>14. ~(\/ TryLock(r) \/ Wake(r) \/ WarmRead(r) \/ Refresh(r) \/ WarmWrite(r) \/ CreatePending(r)
         \/ Purchase(r) \/ Recharge(r) \/ Faults(r))
  BY <1>5, <1>6 DEF TryLock, Wake, WarmRead, OpenRecharge, Open, Refresh, WarmWrite, CreatePending,
     Purchase, Claim, Probe, Fill, Resync, Recharge, StartRecharge, Credit, WriteHash, Finish, Faults,
     UpstreamFails, CommitFails, WriteHashFails, Moves, BookOf, Admitted
<1> QED BY <1>9, <1>10, <1>11, <1>12, <1>13, <1>14 DEF Progress, Precheck, Settle

\* The balance of the hash is the opening balance plus the committed transactions, less
\* what the requests in flight hold, for any number of concurrent proxy requests with
\* distinct trace_ids, costs that are not 0, an undisturbed hash and no failures.
THEOREM BooksAlwaysBalance == Spec /\ PlainTenant => []BooksBalance
<1> DEFINE IInv == TypeOK /\ StageInv /\ (PlainTenant => CountInv /\ BookInv /\ BalanceInv)
<1>1. Init => IInv BY TypeInit, StageInit, CountInit, BookInit, BalanceInit DEF PlainTenant
<1>2. PlainTenant' <=> PlainTenant
  BY DEF PlainTenant, PlainBilling, DistinctTraces, KeptHash, PricedProxies
<1>3. IInv /\ [Next]_vars => IInv'
  <2> SUFFICES ASSUME TypeOK, StageInv, PlainTenant, CountInv, BookInv, BalanceInv, [Next]_vars
               PROVE  BalanceInv'
    BY <1>2, TypeStep, StageStep, CountStep, BookStep DEF PlainTenant
  <2>1. ASSUME NEW r \in Requests, Progress(r) \/ Faults(r) PROVE BalanceInv'
    BY <2>1, TypeStep, BalanceStep
  <2>2. CASE UNCHANGED <<redis, tx, stage>> BY <2>2 DEF BalanceInv, Held, Booked
  <2>3. ~HashExpires BY DEF HashExpires, PlainTenant, KeptHash
  <2> QED BY <2>1, <2>2, <2>3 DEF Next, SyncRead, SyncWrite, Midnight, LockExpires, vars
<1>4. IInv /\ PlainTenant => BooksBalance BY DEF BalanceInv, BooksBalance
<1>5. PlainTenant /\ [Next]_vars => PlainTenant' BY <1>2
<1> QED BY <1>1, <1>3, <1>4, <1>5, PTL DEF Spec

=============================================================================
