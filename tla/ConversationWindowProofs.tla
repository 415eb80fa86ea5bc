---------------------- MODULE ConversationWindowProofs ----------------------
(***************************************************************************)
(* What holds of ConversationWindow for any operations, bounds and faults: *)
(*   HistoryIsKept          no step changes a stored message;              *)
(*   TypesHold              the type invariant;                            *)
(*   EveryMessagePersisted  Persisted, and                                 *)
(*   WindowAgrees           TurnsAgree, for sessions without disturbances. *)
(* The inductive invariant IInv has two parts.  Typed holds always: types, *)
(* the stages an operation can be at, how many indexes its messages have   *)
(* been given there, and that some number bounds all indexes (so that the  *)
(* greatest one exists).  Settled holds while the session is calm: the     *)
(* lock excludes, the counter in Redis is at or above every index outside  *)
(* the table, and above those in the table as well once the lock's holder  *)
(* has synchronised it.  So APPEND_LUA gives an index that is new, and two *)
(* texts never meet under one.                                             *)
(***************************************************************************)
EXTENDS ConversationWindow, SequenceTheorems, WellFoundedInduction, FiniteSetTheorems, TLAPS

-----------------------------------------------------------------------------
(* The operators *)

\* Every set of natural numbers that is not empty has a least element, and Min is it.
LEMMA LeastNat ==
  ASSUME NEW S \in SUBSET Nat, S # {}
  PROVE  Min(S) \in S /\ \A y \in S : Min(S) <= y
<1> DEFINE R == OpToRel(<, Nat)
<1>1. IsWellFoundedOn(R, Nat) BY NatLessThanWellFounded
<1>2. \A a, b \in Nat : a < b => <<a, b>> \in R BY DEF OpToRel
<1> HIDE DEF R
<1>3. PICK x \in S : \A y \in S : ~(<<y, x>> \in R) BY <1>1, WFMin
<1>4. ASSUME NEW y \in S PROVE x <= y
  <2>1. ~(y < x) BY <1>2, <1>3
  <2> QED BY <2>1
<1> QED BY <1>4 DEF Min

\* One that is bounded has a greatest element, and Max is it.
LEMMA GreatestNat ==
  ASSUME NEW S \in SUBSET Nat, S # {}, NEW n \in Nat, \A y \in S : y <= n
  PROVE  Max(S) \in S /\ \A y \in S : y <= Max(S)
<1> DEFINE B == {b \in Nat : \A y \in S : y <= b}
<1>1. PICK b \in B : \A c \in B : b <= c
  <2>1. B \in SUBSET Nat /\ n \in B OBVIOUS
  <2> QED BY <2>1, LeastNat
<1>2. b \in S
  <2> SUFFICES ASSUME b \notin S PROVE FALSE OBVIOUS
  <2>1. \A y \in S : y \in Nat /\ y <= b /\ y # b BY <1>1
  <2>2. PICK z \in S : TRUE OBVIOUS
  <2>3. b \in Nat /\ z < b BY <2>1
  <2>4. b - 1 \in Nat BY <2>1, <2>2, <2>3
  <2>5. \A y \in S : y <= b - 1 BY <2>1, <2>3
  <2>6. b - 1 \in B BY <2>4, <2>5
  <2> QED BY <1>1, <2>3, <2>6
<1> QED BY <1>1, <1>2 DEF Max

-----------------------------------------------------------------------------
(* The inductive invariant *)

\* Who can be at stage s.
KindFits(o, s) ==
  /\ s \in {"read", "compare", "raise", "append", "full", "mark", "unlock", "rescue",
            "touch", "reserve", "insert", "find", "hide"} => Kind(o) = "turn"
  /\ s \in {"dispatch", "remark"} => Kind(o) \in {"turn", "idle"}
  /\ s = "covered" => Kind(o) = "idle"

\* How many turn indexes q the messages of o have been given at stage s.
TurnsFit(o, s, q) ==
  /\ Len(q) <= Len(Messages(o))
  /\ Kind(o) # "turn" \/ s \in {"idle", "read", "compare", "raise"} => q = <<>>
  /\ s = "append" => Len(q) < Len(Messages(o))
  /\ /\ Kind(o) = "turn"
     /\ s \in {"full", "mark", "dispatch", "remark", "unlock", "touch", "insert"}
     => q # <<>>

\* A summary is made of a window that has messages.
CopyFits(t) == t.stage = "loaded" => DOMAIN t.window # {}

StagesFit ==
  \A o \in Ops : KindFits(o, stage[o]) /\ TurnsFit(o, stage[o], turns[o]) /\ CopyFits(task[o])

\* No turn index is above n: in the table, or anywhere else.
RowsUpTo(n) == \A t \in DOMAIN rows : t <= n
CopiesUpTo(n) ==
  /\ \A i \in DOMAIN window : window[i].turn <= n
  /\ \A o \in Ops : /\ \A i \in DOMAIN turns[o] : turns[o][i] <= n
                    /\ \A i \in DOMAIN task[o].window : task[o].window[i].turn <= n
                    /\ stage[o] = "set" => found[o].entry.turn <= n
Bounded == \E n \in Nat : RowsUpTo(n) /\ CopiesUpTo(n)

Typed == TypeOK /\ StagesFit /\ Bounded

\* The session lock excludes, and nobody needs the indexes of the database.
Exclusive ==
  \A o \in Ops : /\ Kind(o) = "turn" /\ stage[o] \in Locked => lock = o
                 /\ stage[o] \notin {"rescue", "reserve"}

\* The counter in Redis is ahead of every index in use but those of the table, and
\* ahead of those as well once its holder has synchronised it.
Ahead ==
  /\ CopiesUpTo(meta.turn)
  /\ \A o \in Ops :
       /\ stage[o] = "compare" => seen[o] = meta.turn
       /\ stage[o] = "raise" => meta.turn <= seen[o] /\ RowsUpTo(seen[o])
       /\ Kind(o) = "turn" /\ stage[o] \in Locked \ {"read", "compare", "raise"} => RowsUpTo(meta.turn)

\* m is said under turn index t: in the table, in the window, in the hands of a turn,
\* in the copy of a task or in that of a deletion.
Says(t, m) ==
  \/ t \in DOMAIN rows /\ m = rows[t]
  \/ \E i \in DOMAIN window : t = window[i].turn /\ m = window[i].text
  \/ \E o \in Ops :
       \/ \E i \in DOMAIN turns[o] : t = turns[o][i] /\ m = Messages(o)[i]
       \/ \E i \in DOMAIN task[o].window : t = task[o].window[i].turn /\ m = task[o].window[i].text
       \/ stage[o] = "set" /\ t = found[o].entry.turn /\ m = found[o].entry.text
OneText == \A t \in Nat, m, n \in Texts : Says(t, m) /\ Says(t, n) => m = n

OwnTurns ==
  \A o, p \in Ops : o # p =>
    \A i \in DOMAIN turns[o], j \in DOMAIN turns[p] : turns[o][i] # turns[p][j]

\* A turn that is through has its rows.
Through == {"find", "set", "discount", "hide", "done"}
RowsThere ==
  \A o \in Ops : stage[o] \in Through => \A i \in DOMAIN turns[o] : turns[o][i] \in DOMAIN rows

Settled == Exclusive /\ Ahead /\ OneText /\ OwnTurns /\ RowsThere
IInv == Typed /\ (calm => Settled)

-----------------------------------------------------------------------------
\* One of two numbers is the greater one.
LEMMA MaxOfTwo ==
  ASSUME NEW a \in Nat, NEW b \in Nat
  PROVE  Max({a, b}) \in Nat /\ a <= Max({a, b}) /\ b <= Max({a, b}) /\ Max({a, b}) \in {a, b}
<1>1. \E n \in Nat : a <= n /\ b <= n
  <2>1. CASE a <= b BY <2>1
  <2>2. CASE b <= a BY <2>2
  <2> QED BY <2>1, <2>2
<1>2. Max({a, b}) \in {a, b} /\ \A y \in {a, b} : y <= Max({a, b})
  BY <1>1, GreatestNat
<1> QED BY <1>2

\* Highest is the greatest index of the table, 0 for an empty one.
LEMMA HighestIsMax ==
  ASSUME DOMAIN rows \subseteq Nat, Bounded
  PROVE  Highest \in Nat /\ RowsUpTo(Highest)
         /\ \A n \in Nat : RowsUpTo(n) => Highest <= n
<1> DEFINE S == DOMAIN rows \cup {0}
<1>1. PICK n \in Nat : RowsUpTo(n) BY DEF Bounded
<1>2. S \in SUBSET Nat /\ S # {} /\ \A y \in S : y <= n BY <1>1 DEF RowsUpTo
<1>3. Max(S) \in S /\ \A y \in S : y <= Max(S) BY <1>2, GreatestNat
<1> QED BY <1>2, <1>3 DEF Highest, RowsUpTo

\* LTRIM keeps a window a window, within its overflow, and adds nothing to it.
LEMMA TrimmedKeeps ==
  ASSUME NEW w \in Seq(Entries)
  PROVE  /\ Trimmed(w) \in Seq(Entries) /\ Len(Trimmed(w)) <= MaxOverflow
         /\ \A i \in DOMAIN Trimmed(w) : \E j \in DOMAIN w : Trimmed(w)[i] = w[j]
<1> MaxTurns \in Nat /\ MaxOverflow \in Nat /\ 0 < MaxTurns /\ MaxTurns <= MaxOverflow
  BY WindowAssumption
<1>1. CASE Len(w) <= MaxOverflow BY <1>1 DEF Trimmed
<1>2. CASE Len(w) > MaxOverflow
  <2> DEFINE m == Len(w) - MaxTurns + 1
             u == SubSeq(w, m, Len(w))
  <2>1. Len(w) \in Nat /\ m \in Int /\ m >= 1 /\ m <= Len(w) BY <1>2, LenProperties
  <2>2. \A i \in m .. Len(w) : w[i] \in Entries BY <2>1
  <2> HIDE DEF m
  <2>3. /\ u \in Seq(Entries) /\ Len(u) = Len(w) - m + 1
        /\ \A i \in 1 .. Len(w) - m + 1 : u[i] = w[m + i - 1]
    BY <2>1, <2>2, SubSeqProperties
  <2>4. DOMAIN u = 1 .. Len(w) - m + 1 BY <2>1, <2>3, LenProperties
  <2>5. \A i \in DOMAIN u : m + i - 1 \in DOMAIN w BY <2>1, <2>4
  <2>6. Trimmed(w) = u BY <1>2, <2>1 DEF Trimmed, m
  <2>7. Len(u) <= MaxOverflow BY <2>1, <2>3 DEF m
  <2> QED BY <2>3, <2>4, <2>5, <2>6, <2>7
<1> QED BY <1>1, <1>2, LenProperties

\* ON CONFLICT DO NOTHING: rows that are there stay as they are.
LEMMA OldRowsWin ==
  ASSUME NEW f, NEW g, NEW t \in DOMAIN f
  PROVE  t \in DOMAIN Inserted(f, g) /\ Inserted(f, g)[t] = f[t]
BY DEF Inserted

\* A table after an insert has the rows of both, each from one of them.
LEMMA InsertedRows ==
  ASSUME NEW f, NEW g
  PROVE  /\ DOMAIN Inserted(f, g) = DOMAIN f \cup DOMAIN g
         /\ \A t \in DOMAIN Inserted(f, g) :
              \/ t \in DOMAIN f /\ Inserted(f, g)[t] = f[t]
              \/ t \in DOMAIN g /\ Inserted(f, g)[t] = g[t]
         /\ f \in [DOMAIN f -> Texts] /\ g \in [DOMAIN g -> Texts]
            => Inserted(f, g) \in [DOMAIN f \cup DOMAIN g -> Texts]
BY DEF Inserted

\* The rows of a turn are its messages under the turn indexes they were given.
LEMMA RowsOfTurn ==
  ASSUME NEW o \in Ops, turns[o] \in Seq(Nat), Len(turns[o]) <= Len(Messages(o))
  PROVE  /\ DOMAIN RowsOf(o) = ToSet(turns[o]) /\ ToSet(turns[o]) \subseteq Nat
         /\ RowsOf(o) \in [DOMAIN RowsOf(o) -> Texts]
         /\ \A t \in DOMAIN RowsOf(o) :
              \E i \in DOMAIN turns[o] : t = turns[o][i] /\ RowsOf(o)[t] = Messages(o)[i]
<1> DEFINE S(t) == {i \in DOMAIN turns[o] : turns[o][i] = t}
<1>1. DOMAIN turns[o] = 1 .. Len(turns[o]) /\ DOMAIN turns[o] \in SUBSET Nat
  BY LenProperties
<1>2. Messages(o) \in Seq(Texts) /\ DOMAIN turns[o] \subseteq DOMAIN Messages(o)
  BY <1>1, WindowAssumption, LenProperties
<1>3. ASSUME NEW t \in ToSet(turns[o])
      PROVE  Min(S(t)) \in DOMAIN turns[o] /\ turns[o][Min(S(t))] = t
  <2>1. S(t) \in SUBSET Nat /\ S(t) # {} BY <1>1 DEF ToSet
  <2>2. Min(S(t)) \in S(t) BY <2>1, LeastNat
  <2> QED BY <2>2
<1>4. \A t \in ToSet(turns[o]) : Messages(o)[Min(S(t))] \in Texts
  BY <1>2, <1>3, LenProperties
<1>5. ToSet(turns[o]) \subseteq Nat BY <1>1 DEF ToSet
<1> QED BY <1>3, <1>4, <1>5 DEF RowsOf

\* The rows of a copy of the window are entries of that copy.
LEMMA RowsOfCopy ==
  ASSUME NEW D \in SUBSET Nat, NEW w \in [D -> Entries]
  PROVE  /\ DOMAIN RowsIn(w) = Turns(w) /\ Turns(w) \subseteq Nat
         /\ RowsIn(w) \in [DOMAIN RowsIn(w) -> Texts]
         /\ \A t \in DOMAIN RowsIn(w) : \E i \in DOMAIN w : t = w[i].turn /\ RowsIn(w)[t] = w[i].text
<1> DEFINE S(t) == {i \in DOMAIN w : w[i].turn = t}
<1>1. ASSUME NEW t \in Turns(w)
      PROVE  Min(S(t)) \in DOMAIN w /\ w[Min(S(t))].turn = t
  <2>1. S(t) \in SUBSET Nat /\ S(t) # {} BY DEF Turns
  <2>2. Min(S(t)) \in S(t) BY <2>1, LeastNat
  <2> QED BY <2>2
<1>2. \A t \in Turns(w) : w[Min(S(t))].text \in Texts BY <1>1 DEF Entries
<1>3. Turns(w) \subseteq Nat BY DEF Turns, Entries
<1> QED BY <1>1, <1>2, <1>3 DEF RowsIn

\* load_window returns entries of the window.
LEMMA LiveKeeps ==
  ASSUME NEW w \in Seq(Entries), Len(w) <= MaxOverflow
  PROVE  /\ \E D \in SUBSET (1..MaxOverflow) : Live(w) \in [D -> Entries]
         /\ \A i \in DOMAIN Live(w) : i \in DOMAIN w /\ Live(w)[i] = w[i]
<1>1. DOMAIN w = 1 .. Len(w) /\ Len(w) \in Nat /\ \A i \in 1 .. Len(w) : w[i] \in Entries
  BY LenProperties, ElementOfSeq
<1>2. MaxOverflow \in Nat BY WindowAssumption
<1>3. {j \in DOMAIN w : ~w[j].deleted} \in SUBSET (1..MaxOverflow) BY <1>1, <1>2
<1> QED BY <1>1, <1>3 DEF Live

\* What is written to the hash keeps it a hash.
LEMMA BlankIsMeta == Blank \in Metas
BY DEF Blank, Metas

\* HSET and HINCRBY of one or more of its fields: it stays one, and the turn moves only
\* when it is written.
LEMMA MetaTypes ==
  ASSUME NEW m \in Metas
  PROVE  /\ [m EXCEPT !.busy = TRUE] \in Metas /\ [m EXCEPT !.busy = TRUE].turn = m.turn
         /\ [m EXCEPT !.busy = FALSE] \in Metas /\ [m EXCEPT !.busy = FALSE].turn = m.turn
         /\ \A n \in Nat : [m EXCEPT !.turn = n] \in Metas /\ [m EXCEPT !.turn = n].turn = n
         /\ \A i \in Int : [m EXCEPT !.tokens = i] \in Metas /\ [m EXCEPT !.tokens = i].turn = m.turn
         /\ \A n \in Nat, i \in Int :
              [m EXCEPT !.turn = n, !.tokens = i] \in Metas /\ [m EXCEPT !.turn = n, !.tokens = i].turn = n
         /\ \A i \in Int, v \in Nat :
              /\ [m EXCEPT !.tokens = i, !.version = v, !.busy = FALSE] \in Metas
              /\ [m EXCEPT !.tokens = i, !.version = v, !.busy = FALSE].turn = m.turn
BY DEF Metas

-----------------------------------------------------------------------------
(* Types, stages and the indexes given *)

\* The session at the start, its keys there or expired.
LEMMA TypedInit == Init => Typed
<1> SUFFICES ASSUME Init PROVE Typed OBVIOUS
<1> DEFINE w == [t \in DOMAIN Opening |-> Entry(t, Opening[t])]
<1>1. /\ Len(Opening) \in Nat /\ DOMAIN Opening = 1 .. Len(Opening)
      /\ \A t \in DOMAIN Opening : Opening[t] \in Texts
  BY WindowAssumption, LenProperties, ElementOfSeq
<1>2. w \in Seq(Entries) /\ \A i \in DOMAIN w : w[i].turn = i
  BY <1>1 DEF Entry, Entries
<1>3. /\ <<>> \in Seq(Entries) /\ Len(<<>>) = 0 /\ DOMAIN <<>> = {}
      /\ <<>> \in Seq(Nat) /\ \A o \in Ops : Len(Messages(o)) \in Nat
  BY WindowAssumption, LenProperties, EmptySeq
<1>4. {MaxLoad, MaxTurns, MaxOverflow} \subseteq Nat BY WindowAssumption
<1>5. load \in 0..MaxLoad
  <2>1. PICK S \in Crowds : load = Cardinality(S) BY DEF Init
  <2>2. IsFiniteSet(S) BY <2>1, WindowAssumption, FS_Subset
  <2> QED BY <2>1, <2>2, <1>4, WindowAssumption, FS_CardinalityType
<1>6. window \in Seq(Entries) /\ Len(window) <= MaxOverflow /\ \A i \in DOMAIN window : window[i].turn <= Len(Opening)
  <2>1. CASE window = <<>> BY <2>1, <1>3, <1>4
  <2>2. CASE window = Trimmed(w)
    <3>1. \A i \in DOMAIN window : \E j \in DOMAIN w : window[i] = w[j] BY <2>2, <1>2, TrimmedKeeps
    <3> QED BY <3>1, <2>2, <1>1, <1>2, TrimmedKeeps
  <2> QED BY <2>1, <2>2 DEF Init
<1>7. \A o \in Ops : task[o] \in Tasks({})
  BY DEF Init, NoTask, Tasks
<1>8. TypeOK
  <2>1. meta \in Metas
    <3>1. Len(Opening) \in Nat /\ Len(Opening) \in Int /\ Blank \in Metas BY <1>1, BlankIsMeta
    <3>2. [Blank EXCEPT !.turn = Len(Opening), !.tokens = Len(Opening)] \in Metas
      BY <3>1 DEF Metas
    <3> QED BY <3>1, <3>2 DEF Init
  <2>2. rows \in [DOMAIN rows -> Texts] /\ DOMAIN rows \subseteq Nat BY <1>1 DEF Init, Stored
  <2>3. stage \in [Ops -> Stages] /\ \A o \in Ops : stage[o] # "set" BY DEF Init, Stages
  <2> QED BY <1>1, <1>3, <1>4, <1>5, <1>6, <1>7, <2>1, <2>2, <2>3 DEF Init, Stored, TypeOK, NoSummary
<1>9. StagesFit BY <1>3 DEF Init, StagesFit, KindFits, TurnsFit, CopyFits, NoTask
<1>10. Bounded
  <2>1. RowsUpTo(Len(Opening)) BY <1>1 DEF Init, Stored, RowsUpTo
  <2>2. CopiesUpTo(Len(Opening)) BY <1>3, <1>6 DEF Init, CopiesUpTo, NoTask
  <2> QED BY <1>1, <2>1, <2>2 DEF Bounded
<1> QED BY <1>8, <1>9, <1>10 DEF Typed

\* A step of o to stage s that leaves the window, the table and the tasks alone.
Quiet(o, s) ==
  /\ stage' = [stage EXCEPT ![o] = s] /\ s \in Stages \ {"set"}
  /\ KindFits(o, s) /\ TurnsFit(o, s, turns[o])
  /\ meta' \in Metas /\ count' \in Nat /\ hidden' \subseteq DOMAIN rows /\ seen' \in [Ops -> Nat]
  /\ {lock', held'} \subseteq Ops \cup {NoOne} /\ load' \in 0..MaxLoad /\ calm' \in BOOLEAN
  /\ UNCHANGED <<window, summary, rows, books, turns, found, flush, task>>

\* Such a step keeps types, stages and bound.
LEMMA QuietTyped ==
  ASSUME Typed, NEW o \in Ops, NEW s, Quiet(o, s)
  PROVE  Typed'
<1> USE DEF Typed, Quiet
<1>1. stage' \in [Ops -> Stages] /\ \A p \in Ops : stage'[p] = "set" => stage[p] = "set"
  BY DEF TypeOK
<1>2. TypeOK' BY <1>1 DEF TypeOK
<1>3. StagesFit' BY DEF TypeOK, StagesFit, KindFits, TurnsFit
<1>4. Bounded' BY <1>1 DEF Bounded, RowsUpTo, CopiesUpTo
<1> QED BY <1>2, <1>3, <1>4

\* The steps that are of this kind.
LEMMA QuietSteps ==
  ASSUME Typed, NEW o \in Ops
  PROVE  /\ Acquire(o) => Quiet(o, "read")
         /\ GiveUp(o) => Quiet(o, "dropped")
         /\ ReadTurn(o) => Quiet(o, "compare")
         /\ Compare(o) => Quiet(o, IF Highest > seen[o] THEN "raise" ELSE "append")
         /\ Raise(o) => Quiet(o, "append")
         /\ SyncFails(o) => Quiet(o, "append")
         /\ CheckBusy(o) => Quiet(o, IF meta.busy THEN "unlock" ELSE "mark")
         /\ MarkBusy(o) => Quiet(o, "dispatch")
         /\ MarkAgain(o) => Quiet(o, IF Kind(o) = "turn" THEN "unlock" ELSE "done")
         /\ AppendFails(o) => Quiet(o, "rescue")
         /\ Release(o) => Quiet(o, "touch") \/ Quiet(o, "reserve")
         /\ Touch(o) => Quiet(o, "insert")
         /\ DeleteFails(o) => Quiet(o, AfterDelete(o))
         /\ Discount(o) => Quiet(o, AfterDelete(o))
         /\ Hide(o) => Quiet(o, "done")
         /\ IdleSkips(o) => Quiet(o, "done")
         /\ IdleRead(o) => Quiet(o, "done") \/ Quiet(o, "covered")
         /\ IdleSummary(o) => Quiet(o, "done") \/ Quiet(o, "dispatch")
         /\ IdleFails(o) => Quiet(o, "done")
         /\ Crash(o) => Quiet(o, "crashed")
<1> USE DEF Typed, Quiet, Moves, Fault, redisVars, dbVars, opVars, KindFits, TurnsFit, Stages
<1>1. Highest \in Nat BY HighestIsMax DEF TypeOK
<1>2. MaxLoad \in Nat /\ NoOne \notin Ops BY WindowAssumption
<1>3. /\ \A p \in Ops : Len(Messages(p)) \in Nat /\ (Kind(p) = "turn" => Len(Messages(p)) > 0)
      /\ Len(<<>>) = 0
  BY WindowAssumption, EmptySeq
<1>4. ASSUME Acquire(o) PROVE Quiet(o, "read")
  BY <1>1, <1>2, <1>3, <1>4 DEF TypeOK, StagesFit, Acquire
<1>5. ASSUME GiveUp(o) PROVE Quiet(o, "dropped")
  BY <1>1, <1>2, <1>3, <1>5 DEF TypeOK, StagesFit, GiveUp
<1>6. ASSUME ReadTurn(o) PROVE Quiet(o, "compare")
  BY <1>1, <1>2, <1>3, <1>6 DEF TypeOK, StagesFit, Metas, ReadTurn
<1>7. ASSUME Compare(o) PROVE Quiet(o, IF Highest > seen[o] THEN "raise" ELSE "append")
  BY <1>1, <1>2, <1>3, <1>7 DEF TypeOK, StagesFit, Compare
<1>8. ASSUME Raise(o) PROVE Quiet(o, "append")
  BY <1>1, <1>2, <1>3, <1>8, MetaTypes DEF TypeOK, StagesFit, Raise
<1>9. ASSUME SyncFails(o) PROVE Quiet(o, "append")
  <2>1. KindFits(o, "append") /\ TurnsFit(o, "append", turns[o]) BY <1>3, <1>9 DEF TypeOK, StagesFit, SyncFails
  <2>2. load' \in 0..MaxLoad BY <1>2, <1>9 DEF TypeOK, SyncFails
  <2>5. calm' = FALSE BY <1>9 DEF SyncFails
  <2>3. stage' = [stage EXCEPT ![o] = "append"] BY <1>9 DEF SyncFails
  <2>4. /\ UNCHANGED <<redisVars, dbVars, lock, opVars, task>>
        /\ meta \in Metas /\ count \in Nat /\ hidden \subseteq DOMAIN rows /\ seen \in [Ops -> Nat]
        /\ {lock, held} \subseteq Ops \cup {NoOne}
    BY <1>9 DEF TypeOK, SyncFails
  <2> HIDE DEF KindFits, TurnsFit
  <2> QED BY <2>1, <2>2, <2>3, <2>4, <2>5
<1>10. ASSUME CheckBusy(o) PROVE Quiet(o, IF meta.busy THEN "unlock" ELSE "mark")
  BY <1>1, <1>2, <1>3, <1>10 DEF TypeOK, StagesFit, CheckBusy
<1>11. ASSUME MarkBusy(o) PROVE Quiet(o, "dispatch")
  BY <1>1, <1>2, <1>3, <1>11, MetaTypes DEF TypeOK, StagesFit, MarkBusy
<1>12. ASSUME MarkAgain(o) PROVE Quiet(o, IF Kind(o) = "turn" THEN "unlock" ELSE "done")
  BY <1>1, <1>2, <1>3, <1>12, MetaTypes DEF TypeOK, StagesFit, MarkAgain
<1>13. ASSUME AppendFails(o) PROVE Quiet(o, "rescue")
  <2>1. KindFits(o, "rescue") /\ TurnsFit(o, "rescue", turns[o]) BY <1>3, <1>13 DEF TypeOK, StagesFit, AppendFails
  <2>2. load' \in 0..MaxLoad BY <1>2, <1>13 DEF TypeOK, AppendFails
  <2>5. calm' = FALSE BY <1>13 DEF AppendFails
  <2>3. stage' = [stage EXCEPT ![o] = "rescue"] BY <1>13 DEF AppendFails
  <2>4. /\ UNCHANGED <<redisVars, dbVars, lock, opVars, task>>
        /\ meta \in Metas /\ count \in Nat /\ hidden \subseteq DOMAIN rows /\ seen \in [Ops -> Nat]
        /\ {lock, held} \subseteq Ops \cup {NoOne}
    BY <1>13 DEF TypeOK, AppendFails
  <2> HIDE DEF KindFits, TurnsFit
  <2> QED BY <2>1, <2>2, <2>3, <2>4, <2>5
<1>14. ASSUME Release(o) PROVE Quiet(o, "touch") \/ Quiet(o, "reserve")
  <2>1. CASE Moves(o, "unlock", "touch")
    <3>1. KindFits(o, "touch") /\ TurnsFit(o, "touch", turns[o]) BY <1>3, <2>1 DEF TypeOK, StagesFit
    <3> HIDE DEF KindFits, TurnsFit
    <3> QED BY <1>2, <1>14, <2>1, <3>1 DEF TypeOK, Release
  <2>2. CASE Moves(o, "rescue", "reserve")
    <3>1. KindFits(o, "reserve") /\ TurnsFit(o, "reserve", turns[o]) BY <1>3, <2>2 DEF TypeOK, StagesFit
    <3> HIDE DEF KindFits, TurnsFit
    <3> QED BY <1>2, <1>14, <2>2, <3>1 DEF TypeOK, Release
  <2> QED BY <1>14, <2>1, <2>2 DEF Release
<1>15. ASSUME Touch(o) PROVE Quiet(o, "insert")
  <2>1. turns[o] \in Seq(Nat) /\ turns[o] # <<>> BY <1>15 DEF TypeOK, StagesFit, Touch
  <2>2. Last(turns[o]) \in Nat BY <2>1, EmptySeq, ElementOfSeq DEF Last
  <2>3. count' \in Nat BY <1>15, <2>2, MaxOfTwo DEF TypeOK, Touch
  <2> QED BY <1>2, <1>15, <2>3 DEF TypeOK, StagesFit, Touch
<1>16. ASSUME DeleteFails(o) PROVE Quiet(o, AfterDelete(o))
  <2>1. KindFits(o, AfterDelete(o)) /\ TurnsFit(o, AfterDelete(o), turns[o]) /\ AfterDelete(o) \in Stages \ {"set"}
    BY <1>3, <1>16 DEF TypeOK, StagesFit, AfterDelete, DeleteFails
  <2> HIDE DEF KindFits, TurnsFit
  <2> QED BY <1>2, <1>16, <2>1 DEF TypeOK, DeleteFails
<1>17. ASSUME Discount(o) PROVE Quiet(o, AfterDelete(o))
  <2>1. meta' \in Metas
    <3>1. meta \in Metas /\ meta.tokens - 1 \in Int BY DEF TypeOK, Metas
    <3> QED BY <3>1, <1>17, MetaTypes DEF Discount
  <2>2. load' \in 0..MaxLoad BY <1>2, <1>17 DEF TypeOK, Discount
  <2> QED BY <1>17, <2>1, <2>2 DEF TypeOK, StagesFit, AfterDelete, Discount
<1>18. ASSUME Hide(o) PROVE Quiet(o, "done")
  BY <1>1, <1>2, <1>3, <1>18 DEF TypeOK, StagesFit, Hide
<1>19. ASSUME IdleSkips(o) PROVE Quiet(o, "done")
  BY <1>1, <1>2, <1>3, <1>19 DEF TypeOK, StagesFit, IdleSkips
<1>20. ASSUME IdleRead(o) PROVE Quiet(o, "done") \/ Quiet(o, "covered")
  BY <1>1, <1>2, <1>3, <1>20 DEF TypeOK, StagesFit, Metas, IdleRead
<1>21. ASSUME IdleSummary(o) PROVE Quiet(o, "done") \/ Quiet(o, "dispatch")
  BY <1>1, <1>2, <1>3, <1>21 DEF TypeOK, StagesFit, IdleSummary
<1>22. ASSUME IdleFails(o) PROVE Quiet(o, "done")
  <2>1. KindFits(o, "done") /\ TurnsFit(o, "done", turns[o]) BY <1>3, <1>22 DEF TypeOK, StagesFit, IdleFails
  <2> HIDE DEF KindFits, TurnsFit
  <2> QED BY <1>2, <1>22, <2>1 DEF TypeOK, IdleFails
<1>23. ASSUME Crash(o) PROVE Quiet(o, "crashed")
  <2>1. KindFits(o, "crashed") /\ TurnsFit(o, "crashed", turns[o]) BY <1>3, <1>23 DEF TypeOK, StagesFit, Crash
  <2> HIDE DEF KindFits, TurnsFit
  <2> QED BY <1>2, <1>23, <2>1 DEF TypeOK, Crash
<1> QED BY <1>4, <1>5, <1>6, <1>7, <1>8, <1>9, <1>10, <1>11, <1>12, <1>13, <1>14, <1>15, <1>16, <1>17, <1>18, <1>19, <1>20, <1>21, <1>22, <1>23

\* APPEND_LUA, one message.
LEMMA AppendTyped ==
  ASSUME Typed, NEW o \in Ops, AppendMessage(o)
  PROVE  Typed'
<1> DEFINE n == Len(turns[o]) + 1
           t == meta.turn + 1
           e == Entry(t, Messages(o)[n])
           w == Append(window, e)
           q == Append(turns[o], t)
           s == stage'[o]
<1>1. /\ turns[o] \in Seq(Nat) /\ Messages(o) \in Seq(Texts) /\ meta \in Metas /\ window \in Seq(Entries)
      /\ stage \in [Ops -> Stages] /\ load \in 0..MaxLoad
  BY WindowAssumption DEF Typed, TypeOK
<1>2. /\ meta.turn \in Nat /\ t \in Nat /\ meta.tokens + 1 \in Int
  BY <1>1 DEF Metas
<1>3. stage[o] = "append" /\ KindFits(o, "append") /\ Len(turns[o]) < Len(Messages(o))
  BY DEF AppendMessage, Moves, Typed, StagesFit, TurnsFit
<1>4. n \in 1..Len(Messages(o)) /\ Messages(o)[n] \in Texts
  BY <1>1, <1>3, LenProperties, ElementOfSeq
<1>5. e \in Entries BY <1>2, <1>4 DEF Entry, Entries
<1>6. /\ w \in Seq(Entries) /\ DOMAIN w = 1 .. Len(window) + 1 /\ Len(window) \in Nat
      /\ \A i \in 1 .. Len(window) : w[i] = window[i]
      /\ w[Len(window) + 1] = e /\ DOMAIN window = 1 .. Len(window)
  BY <1>1, <1>5, AppendProperties, LenProperties
<1>7. /\ q \in Seq(Nat) /\ Len(q) = n /\ q # <<>> /\ DOMAIN q = 1 .. n
      /\ \A i \in 1 .. Len(turns[o]) : q[i] = turns[o][i]
      /\ q[n] = t
  BY <1>1, <1>2, AppendProperties, LenProperties
<1>8. /\ window' = Trimmed(w) /\ turns' = [turns EXCEPT ![o] = q]
      /\ meta' = [meta EXCEPT !.turn = t, !.tokens = meta.tokens + 1]
  BY DEF AppendMessage
<1>9. UNCHANGED <<summary, rows, hidden, count, books, held, lock, seen, found, task, load, calm>>
  BY DEF AppendMessage, dbVars
<1>10. /\ stage' = [stage EXCEPT ![o] = s]
       /\ (s = "append" /\ n < Len(Messages(o))) \/ s \in {"full", "unlock"}
  BY <1>1 DEF AppendMessage, Moves
<1>11. flush' \subseteq Ops BY DEF AppendMessage, Typed, TypeOK
<1> HIDE DEF n, t, e, w, q, s
<1>12. meta' \in Metas /\ meta'.turn = t BY <1>1, <1>2, <1>8 DEF Metas
<1>13. window' \in Seq(Entries) /\ Len(window') <= MaxOverflow BY <1>6, <1>8, TrimmedKeeps
<1>14. \A i \in DOMAIN window' : window'[i] = e \/ \E j \in DOMAIN window : window'[i] = window[j]
  <2>1. \A i \in DOMAIN window' : \E j \in DOMAIN w : window'[i] = w[j] BY <1>6, <1>8, TrimmedKeeps
  <2>2. \A j \in DOMAIN w : w[j] = e \/ \E h \in DOMAIN window : w[j] = window[h] BY <1>6
  <2> QED BY <2>1, <2>2
<1>15. stage' \in [Ops -> Stages] /\ \A p \in Ops : stage'[p] = "set" => stage[p] = "set"
  BY <1>1, <1>10 DEF Stages
<1>16. turns' \in [Ops -> Seq(Nat)] BY <1>7, <1>8 DEF Typed, TypeOK
<1>17. TypeOK'
  BY <1>9, <1>11, <1>12, <1>13, <1>15, <1>16 DEF Typed, TypeOK
<1>18. StagesFit'
  <2>1. KindFits(o, s) /\ TurnsFit(o, s, q) BY <1>3, <1>4, <1>7, <1>10 DEF KindFits, TurnsFit, n
  <2>2. \A p \in Ops : stage'[p] = (IF p = o THEN s ELSE stage[p]) /\ turns'[p] = IF p = o THEN q ELSE turns[p]
    BY <1>1, <1>8, <1>10 DEF Typed, TypeOK
  <2> QED BY <1>9, <2>1, <2>2 DEF Typed, StagesFit
<1>19. Bounded'
  <2>1. PICK k \in Nat : RowsUpTo(k) /\ CopiesUpTo(k) BY DEF Typed, Bounded
  <2>2. PICK m \in Nat : k <= m /\ t <= m
    <3>1. CASE k <= t BY <1>2, <3>1 DEF t
    <3>2. CASE t <= k BY <3>2
    <3> QED BY <1>2, <3>1, <3>2 DEF t
  <2>3. RowsUpTo(m)' BY <1>9, <2>1, <2>2 DEF RowsUpTo, Typed, TypeOK
  <2>4. \A i \in DOMAIN window' : window'[i].turn <= m
    <3>1. e.turn <= m BY <2>2 DEF e, Entry
    <3>2. \A j \in DOMAIN window : window[j].turn \in Nat /\ window[j].turn <= k
      <4>1. \A j \in DOMAIN window : window[j] \in Entries BY <1>1, <1>6, ElementOfSeq
      <4> QED BY <4>1, <2>1 DEF CopiesUpTo, Entries
    <3> QED BY <1>14, <2>2, <3>1, <3>2
  <2>5. \A p \in Ops : \A i \in DOMAIN turns'[p] : turns'[p][i] <= m
    <3>1. \A i \in DOMAIN q : q[i] <= m
      <4>1. \A i \in 1 .. Len(turns[o]) : turns[o][i] \in Nat /\ turns[o][i] <= k
        BY <1>1, <2>1, LenProperties, ElementOfSeq DEF CopiesUpTo
      <4>2. DOMAIN q = 1 .. Len(turns[o]) + 1 BY <1>7 DEF n
      <4>3. Len(turns[o]) \in Nat /\ n = Len(turns[o]) + 1 BY <1>1, LenProperties DEF n
      <4>4. \A i \in DOMAIN q : i \in 1 .. Len(turns[o]) \/ i = n BY <4>2, <4>3
      <4> QED BY <1>2, <1>7, <2>2, <4>1, <4>4
    <3>2. \A p \in Ops : p # o => turns'[p] = turns[p] BY <1>8 DEF Typed, TypeOK
    <3>3. turns'[o] = q BY <1>8 DEF Typed, TypeOK
    <3>4. \A p \in Ops : \A i \in DOMAIN turns[p] : turns[p][i] \in Nat /\ turns[p][i] <= k
      BY <2>1, LenProperties, ElementOfSeq DEF CopiesUpTo, Typed, TypeOK
    <3> QED BY <2>2, <3>1, <3>2, <3>3, <3>4
  <2>6. ASSUME NEW p \in Ops
        PROVE  /\ \A i \in DOMAIN task'[p].window : task'[p].window[i].turn <= m
               /\ stage'[p] = "set" => found'[p].entry.turn <= m
    <3>1. PICK D \in SUBSET (1..MaxOverflow) : task[p] \in Tasks(D) BY DEF Typed, TypeOK
    <3>2. \A i \in DOMAIN task[p].window : task[p].window[i].turn \in Nat /\ task[p].window[i].turn <= k
      BY <2>1, <3>1 DEF CopiesUpTo, Tasks, Entries
    <3>3. stage[p] = "set" => found[p].entry.turn \in Nat /\ found[p].entry.turn <= k
      BY <2>1 DEF CopiesUpTo, Typed, TypeOK, Entries
    <3> QED BY <1>9, <1>15, <2>2, <3>2, <3>3
  <2>7. CopiesUpTo(m)' BY <2>4, <2>5, <2>6 DEF CopiesUpTo
  <2> QED BY <2>3, <2>7 DEF Bounded
<1> QED BY <1>17, <1>18, <1>19 DEF Typed

\* The turns of the entries of the window are numbers.
LEMMA WindowTurns ==
  ASSUME TypeOK
  PROVE  /\ DOMAIN window = 1 .. Len(window) /\ Len(window) \in Nat
         /\ \A i \in DOMAIN window : window[i] \in Entries /\ window[i].turn \in Nat
<1>1. window \in Seq(Entries) BY DEF TypeOK
<1>2. DOMAIN window = 1 .. Len(window) /\ Len(window) \in Nat BY <1>1, LenProperties
<1>3. \A i \in DOMAIN window : window[i] \in Entries BY <1>1, <1>2, ElementOfSeq
<1> QED BY <1>2, <1>3 DEF Entries

\* So are those in the copies of the tasks.
LEMMA TaskTurns ==
  ASSUME TypeOK, NEW o \in Ops
  PROVE  /\ DOMAIN task[o].window \in SUBSET (1..MaxOverflow)
         /\ task[o].window \in [DOMAIN task[o].window -> Entries]
         /\ \A i \in DOMAIN task[o].window : task[o].window[i].turn \in Nat
         /\ task[o] \in Tasks(DOMAIN task[o].window)
<1>1. PICK D \in SUBSET (1..MaxOverflow) : task[o] \in Tasks(D) BY DEF TypeOK
<1>2. task[o].window \in [D -> Entries] BY <1>1 DEF Tasks
<1>3. DOMAIN task[o].window = D BY <1>2
<1> QED BY <1>1, <1>2, <1>3 DEF Entries

\* A bound may be raised.
LEMMA BoundsGrow ==
  ASSUME TypeOK, NEW k \in Nat, NEW m \in Nat, k <= m
  PROVE  (RowsUpTo(k) => RowsUpTo(m)) /\ (CopiesUpTo(k) => CopiesUpTo(m))
<1>1. RowsUpTo(k) => RowsUpTo(m) BY DEF RowsUpTo, TypeOK
<1>2. ASSUME CopiesUpTo(k) PROVE CopiesUpTo(m)
  <2>1. \A i \in DOMAIN window : window[i].turn <= m
    BY <1>2, WindowTurns DEF CopiesUpTo
  <2>2. ASSUME NEW p \in Ops
        PROVE  /\ \A i \in DOMAIN turns[p] : turns[p][i] <= m
               /\ \A i \in DOMAIN task[p].window : task[p].window[i].turn <= m
               /\ stage[p] = "set" => found[p].entry.turn <= m
    <3>1. \A i \in DOMAIN task[p].window : task[p].window[i].turn \in Nat BY TaskTurns
    <3>2. stage[p] = "set" => found[p].entry.turn \in Nat BY DEF TypeOK, Entries
    <3>3. \A i \in DOMAIN turns[p] : turns[p][i] \in Nat BY LenProperties, ElementOfSeq DEF TypeOK
    <3> QED BY <1>2, <3>1, <3>2, <3>3 DEF CopiesUpTo
  <2> QED BY <2>1, <2>2 DEF CopiesUpTo
<1> QED BY <1>1, <1>2

\* reserve_turn_indexes
LEMMA ReserveTyped ==
  ASSUME Typed, NEW o \in Ops, Reserve(o)
  PROVE  Typed'
<1> DEFINE base == Max({count, Highest})
           q == [i \in DOMAIN Messages(o) |-> base + i]
<1>1. base \in Nat BY HighestIsMax, MaxOfTwo DEF Typed, TypeOK
<1>2. stage[o] = "reserve" /\ Kind(o) = "turn" /\ stage' = [stage EXCEPT ![o] = "insert"]
  BY DEF Reserve, Moves, Typed, StagesFit, KindFits
<1>3. /\ DOMAIN Messages(o) = 1 .. Len(Messages(o)) /\ Len(Messages(o)) \in Nat \ {0}
  BY <1>2, WindowAssumption, LenProperties, EmptySeq
<1>4. turns' = [turns EXCEPT ![o] = q]
      /\ UNCHANGED <<redisVars, rows, hidden, count, books, lock, seen, found, flush, task, load, calm>>
      /\ held' \in Ops
  BY DEF Reserve
<1> HIDE DEF base
<1>5. q \in Seq(Nat) /\ Len(q) = Len(Messages(o)) /\ q # <<>> BY <1>1, <1>3
<1>6. \A i \in DOMAIN q : q[i] = base + i /\ i \in 1 .. Len(Messages(o)) BY <1>3
<1> HIDE DEF q
<1>7. stage' \in [Ops -> Stages] /\ \A p \in Ops : stage'[p] = "set" => stage[p] = "set"
  BY <1>2 DEF Typed, TypeOK, Stages
<1>8. TypeOK'
  BY <1>4, <1>5, <1>7 DEF Typed, TypeOK, redisVars
<1>9. StagesFit'
  <2>1. KindFits(o, "insert") /\ TurnsFit(o, "insert", q) BY <1>2, <1>3, <1>5 DEF KindFits, TurnsFit
  <2>2. \A p \in Ops : stage'[p] = (IF p = o THEN "insert" ELSE stage[p]) /\ turns'[p] = IF p = o THEN q ELSE turns[p]
    BY <1>2, <1>4 DEF Typed, TypeOK
  <2> QED BY <1>4, <2>1, <2>2 DEF Typed, StagesFit
<1>10. Bounded'
  <2>1. PICK k \in Nat : RowsUpTo(k) /\ CopiesUpTo(k) BY DEF Typed, Bounded
  <2>2. PICK m \in Nat : m = k + base + Len(Messages(o)) BY <1>1, <1>3
  <2>3. k <= m /\ \A i \in DOMAIN q : q[i] <= m BY <1>1, <1>3, <1>6, <2>2
  <2>4. RowsUpTo(m) /\ CopiesUpTo(m) BY <2>1, <2>3, BoundsGrow DEF Typed
  <2>5. RowsUpTo(m)' BY <1>4, <2>4 DEF RowsUpTo
  <2>6. \A p \in Ops : turns'[p] = IF p = o THEN q ELSE turns[p] BY <1>4 DEF Typed, TypeOK
  <2>7. \A i \in DOMAIN window' : window'[i].turn <= m BY <1>4, <2>4 DEF CopiesUpTo, redisVars
  <2>8. ASSUME NEW p \in Ops
        PROVE  /\ \A i \in DOMAIN turns'[p] : turns'[p][i] <= m
               /\ \A i \in DOMAIN task'[p].window : task'[p].window[i].turn <= m
               /\ stage'[p] = "set" => found'[p].entry.turn <= m
    <3>1. \A i \in DOMAIN turns'[p] : turns'[p][i] <= m BY <2>3, <2>4, <2>6 DEF CopiesUpTo
    <3>2. /\ \A i \in DOMAIN task[p].window : task[p].window[i].turn <= m
          /\ stage'[p] = "set" => found[p].entry.turn <= m
      BY <1>7, <2>4 DEF CopiesUpTo
    <3> QED BY <1>4, <3>1, <3>2
  <2>9. CopiesUpTo(m)' BY <2>7, <2>8 DEF CopiesUpTo
  <2> QED BY <2>2, <2>5, <2>9 DEF Bounded
<1> QED BY <1>8, <1>9, <1>10 DEF Typed

\* bulk_insert_messages
LEMMA InsertTyped ==
  ASSUME Typed, NEW o \in Ops, Insert(o)
  PROVE  Typed'
<1>1. stage[o] = "insert" /\ Kind(o) = "turn" /\ stage' = [stage EXCEPT ![o] = AfterInsert(o)]
  BY DEF Insert, Moves, Typed, StagesFit, KindFits
<1>2. turns[o] \in Seq(Nat) /\ turns[o] # <<>> /\ Len(turns[o]) <= Len(Messages(o))
  BY <1>1 DEF Typed, TypeOK, StagesFit, TurnsFit
<1>3. /\ DOMAIN RowsOf(o) = ToSet(turns[o]) /\ ToSet(turns[o]) \subseteq Nat
      /\ RowsOf(o) \in [DOMAIN RowsOf(o) -> Texts]
  BY <1>2, RowsOfTurn
<1>4. /\ rows' = Inserted(rows, RowsOf(o))
      /\ UNCHANGED <<redisVars, hidden, books, lock, opVars, task, load, calm>>
  BY DEF Insert
<1>5. DOMAIN rows' = DOMAIN rows \cup ToSet(turns[o]) /\ rows' \in [DOMAIN rows' -> Texts]
  <2>1. rows \in [DOMAIN rows -> Texts] BY DEF Typed, TypeOK
  <2>2. DOMAIN rows' = DOMAIN rows \cup DOMAIN RowsOf(o) BY <1>4, InsertedRows
  <2>3. rows' \in [DOMAIN rows \cup DOMAIN RowsOf(o) -> Texts] BY <1>3, <1>4, <2>1, InsertedRows
  <2> QED BY <1>3, <2>2, <2>3
<1>6. count' \in Nat /\ held' \in Ops \cup {NoOne}
  <2>1. Last(turns[o]) \in Nat BY <1>2, EmptySeq, ElementOfSeq DEF Last
  <2>2. Max({count, Last(turns[o])}) \in Nat BY <2>1, MaxOfTwo DEF Typed, TypeOK
  <2>3. CASE held = o BY <2>2, <2>3 DEF Insert
  <2>4. CASE held # o BY <2>4 DEF Insert, Typed, TypeOK
  <2> QED BY <2>3, <2>4
<1>7. AfterInsert(o) \in {"done", "find"} BY DEF AfterInsert
<1>8. stage' \in [Ops -> Stages] /\ \A p \in Ops : stage'[p] = "set" => stage[p] = "set"
  BY <1>1, <1>7 DEF Typed, TypeOK, Stages
<1>9. TypeOK' BY <1>3, <1>4, <1>5, <1>6, <1>8 DEF Typed, TypeOK, redisVars, opVars
<1>10. StagesFit' BY <1>1, <1>4, <1>7 DEF Typed, TypeOK, StagesFit, KindFits, TurnsFit, opVars
<1>11. Bounded'
  <2>1. PICK k \in Nat : RowsUpTo(k) /\ CopiesUpTo(k) BY DEF Typed, Bounded
  <2>2. \A t \in ToSet(turns[o]) : t <= k BY <2>1 DEF ToSet, CopiesUpTo
  <2>3. RowsUpTo(k)' BY <1>5, <2>1, <2>2 DEF RowsUpTo
  <2>4. CopiesUpTo(k)' BY <1>4, <1>8, <2>1 DEF CopiesUpTo, redisVars, opVars
  <2> QED BY <2>3, <2>4 DEF Bounded
<1> QED BY <1>9, <1>10, <1>11 DEF Typed

\* A step of the task of o, which becomes r, and of o to stage s: it may store rows
\* from the task's copy of the window.
Copied(o, r) ==
  /\ r \in Tasks(DOMAIN r.window) /\ DOMAIN r.window \subseteq 1..MaxOverflow /\ CopyFits(r)
  /\ \A i \in DOMAIN r.window : \/ \E j \in DOMAIN window : r.window[i] = window[j]
                                \/ \E j \in DOMAIN task[o].window : r.window[i] = task[o].window[j]
RowsCopied(o) ==
  /\ DOMAIN rows' \subseteq Nat /\ rows' \in [DOMAIN rows' -> Texts]
  /\ \A t \in DOMAIN rows : t \in DOMAIN rows'
  /\ \A t \in DOMAIN rows' : \/ t \in DOMAIN rows /\ rows'[t] = rows[t]
                             \/ \E i \in DOMAIN task[o].window :
                                  t = task[o].window[i].turn /\ rows'[t] = task[o].window[i].text
TaskStep(o, s, r) ==
  /\ Copied(o, r) /\ task' = [task EXCEPT ![o] = r]
  /\ stage' = [stage EXCEPT ![o] = s]
  /\ \/ s = stage[o]
     \/ s \in Stages \ {"set"} /\ KindFits(o, s) /\ TurnsFit(o, s, turns[o])
  /\ meta' \in Metas /\ meta'.turn = meta.turn /\ summary' \in [version : Nat, to : Nat]
  /\ RowsCopied(o) /\ count' \in Nat /\ books' \subseteq Nat
  /\ load' \in 0..MaxLoad
  /\ UNCHANGED <<window, hidden, held, lock, turns, seen, found, flush, calm>>

\* A step of a task keeps types, stages and bound.
LEMMA TaskStepTyped ==
  ASSUME Typed, NEW o \in Ops, NEW s, NEW r, TaskStep(o, s, r)
  PROVE  Typed'
<1>0. TypeOK /\ StagesFit /\ Bounded BY DEF Typed
<1>1. \A p \in Ops : stage'[p] = IF p = o THEN s ELSE stage[p]
  BY <1>0 DEF TaskStep, TypeOK
<1>2. \A p \in Ops : task'[p] = IF p = o THEN r ELSE task[p] BY <1>0 DEF TaskStep, TypeOK
<1>3. stage' \in [Ops -> Stages] /\ \A p \in Ops : stage'[p] = "set" => stage[p] = "set"
  <2>1. s \in Stages /\ (s = "set" => stage[o] = "set") BY <1>0 DEF TaskStep, TypeOK
  <2>2. stage' \in [Ops -> Stages] BY <1>0, <2>1 DEF TaskStep, TypeOK
  <2> QED BY <1>1, <2>1, <2>2
<1>4. TypeOK'
  <2>1. DOMAIN task' = Ops /\ \A p \in Ops : \E D \in SUBSET (1..MaxOverflow) : task'[p] \in Tasks(D)
    <3>1. DOMAIN task' = Ops BY <1>0 DEF TaskStep, TypeOK
    <3>2. \E D \in SUBSET (1..MaxOverflow) : r \in Tasks(D) BY DEF TaskStep, Copied
    <3> QED BY <1>0, <1>2, <3>1, <3>2 DEF TypeOK
  <2>2. hidden' \subseteq DOMAIN rows' BY <1>0 DEF TaskStep, RowsCopied, TypeOK
  <2>3. /\ meta' \in Metas /\ summary' \in [version : Nat, to : Nat]
        /\ DOMAIN rows' \subseteq Nat /\ rows' \in [DOMAIN rows' -> Texts]
        /\ count' \in Nat /\ books' \subseteq Nat /\ load' \in 0..MaxLoad
    BY DEF TaskStep, RowsCopied
  <2>4. UNCHANGED <<window, held, lock, turns, seen, found, flush, calm>> BY DEF TaskStep
  <2> QED BY <1>0, <1>3, <2>1, <2>2, <2>3, <2>4 DEF TypeOK
<1>5. StagesFit'
  <2>1. turns' = turns BY DEF TaskStep
  <2>2. KindFits(o, s) /\ TurnsFit(o, s, turns[o]) /\ CopyFits(r)
    BY <1>0 DEF TaskStep, Copied, StagesFit
  <2> QED BY <1>0, <1>1, <1>2, <2>1, <2>2 DEF StagesFit
<1>6. Bounded'
  <2>1. PICK k \in Nat : RowsUpTo(k) /\ CopiesUpTo(k) BY <1>0 DEF Bounded
  <2>2. \A i \in DOMAIN r.window : r.window[i].turn <= k BY <2>1 DEF TaskStep, Copied, CopiesUpTo
  <2>3. RowsUpTo(k)' BY <2>1 DEF TaskStep, RowsCopied, RowsUpTo, CopiesUpTo
  <2>4. ASSUME NEW p \in Ops PROVE \A i \in DOMAIN task'[p].window : task'[p].window[i].turn <= k
    <3>1. CASE p = o BY <1>2, <2>2, <3>1
    <3>2. CASE p # o BY <1>2, <2>1, <3>2 DEF CopiesUpTo
    <3> QED BY <3>1, <3>2
  <2>5. UNCHANGED <<window, turns, found>> BY DEF TaskStep
  <2>6. CopiesUpTo(k)' BY <1>3, <2>1, <2>4, <2>5 DEF CopiesUpTo
  <2> QED BY <2>3, <2>6 DEF Bounded
<1> QED BY <1>4, <1>5, <1>6 DEF Typed

\* The steps of this kind.
LEMMA TaskSteps ==
  ASSUME Typed, NEW o \in Ops
  PROVE  /\ Dispatch(o) => \E r : TaskStep(o, "remark", r)
         /\ Summarize(o) \/ WorkerCrash(o) => \E r : TaskStep(o, stage[o], r)
<1>0. TypeOK /\ StagesFit BY DEF Typed
<1>1. /\ meta \in Metas
      /\ summary \in [version : Nat, to : Nat] /\ count \in Nat /\ books \subseteq Nat
      /\ load \in 0..MaxLoad /\ MaxLoad \in Nat
  BY <1>0, WindowAssumption DEF TypeOK
<1>2. rows' = rows => RowsCopied(o) BY <1>0 DEF RowsCopied, TypeOK
<1> DEFINE D == DOMAIN task[o].window
<1>15. stage = [stage EXCEPT ![o] = stage[o]] BY <1>0 DEF TypeOK
<1>3. /\ task[o] \in Tasks(D) /\ D \in SUBSET (1..MaxOverflow)
      /\ task[o].window \in [D -> Entries]
  BY <1>0, TaskTurns
<1>4. Copied(o, NoTask) BY DEF Copied, CopyFits, NoTask, Tasks
<1>5. \A t \in {"free", "queued", "cached", "stored"} : Copied(o, [task[o] EXCEPT !.stage = t])
  <2> SUFFICES ASSUME NEW t \in {"free", "queued", "cached", "stored"}
               PROVE  Copied(o, [task[o] EXCEPT !.stage = t])
    OBVIOUS
  <2> DEFINE r == [task[o] EXCEPT !.stage = t]
  <2>1. r \in Tasks(D) /\ r.window = task[o].window /\ r.stage # "loaded" BY <1>3 DEF Tasks
  <2> HIDE DEF r
  <2>2. Copied(o, r) BY <1>3, <2>1 DEF Copied, CopyFits
  <2> QED BY <2>2 DEF r
<1>6. ASSUME Dispatch(o) PROVE TaskStep(o, "remark", [task[o] EXCEPT !.stage = "queued"])
  <2>1. stage[o] = "dispatch" /\ stage' = [stage EXCEPT ![o] = "remark"] BY <1>6 DEF Dispatch, Moves
  <2>2. KindFits(o, "remark") /\ TurnsFit(o, "remark", turns[o]) /\ "remark" \in Stages
    BY <1>0, <2>1 DEF StagesFit, KindFits, TurnsFit, Stages
  <2>3. task' = [task EXCEPT ![o] = [task[o] EXCEPT !.stage = "queued"]] BY <1>0, <1>6 DEF Dispatch, TypeOK
  <2>4. UNCHANGED <<redisVars, dbVars, lock, opVars, load, calm>> BY <1>6 DEF Dispatch
  <2>5. Copied(o, [task[o] EXCEPT !.stage = "queued"]) BY <1>5
  <2> QED BY <1>1, <1>2, <2>1, <2>2, <2>3, <2>4, <2>5 DEF TaskStep, redisVars, dbVars, opVars
<1>7. ASSUME TaskEnds(o), load' \in 0..MaxLoad PROVE TaskStep(o, stage[o], NoTask)
  <2>1. meta' \in Metas /\ meta'.turn = meta.turn BY <1>1, <1>7, MetaTypes DEF TaskEnds
  <2>2. UNCHANGED <<window, summary, dbVars, lock, stage, opVars, calm>> /\ task' = [task EXCEPT ![o] = NoTask]
    BY <1>7 DEF TaskEnds
  <2> QED BY <1>1, <1>2, <1>4, <1>7, <1>15, <2>1, <2>2 DEF TaskStep, dbVars, opVars
<1>8. ASSUME LoadNothing(o) PROVE TaskStep(o, stage[o], NoTask)
  BY <1>1, <1>7, <1>8 DEF LoadNothing
<1>9. ASSUME SummarizeFails(o) PROVE TaskStep(o, stage[o], NoTask)
  <2>1. load' \in 0..MaxLoad BY <1>1, <1>9 DEF SummarizeFails, Fault
  <2> QED BY <1>7, <1>9, <2>1 DEF SummarizeFails
<1>10. ASSUME WorkerCrash(o) PROVE TaskStep(o, stage[o], NoTask)
  <2>1. load' \in 0..MaxLoad BY <1>1, <1>10 DEF WorkerCrash, Fault
  <2>2. UNCHANGED <<redisVars, dbVars, lock, stage, opVars, calm>> /\ task' = [task EXCEPT ![o] = NoTask]
    BY <1>10 DEF WorkerCrash
  <2> QED BY <1>1, <1>2, <1>4, <1>15, <2>1, <2>2 DEF TaskStep, redisVars, dbVars, opVars
<1>11. ASSUME Load(o) PROVE \E r : TaskStep(o, stage[o], r)
  <2> DEFINE r == [stage |-> "loaded", window |-> Live(window), turn |-> meta.turn, version |-> meta.version + 1]
  <2>1. window \in Seq(Entries) /\ Len(window) <= MaxOverflow BY <1>0 DEF TypeOK
  <2>2. /\ DOMAIN Live(window) \subseteq 1..MaxOverflow /\ Live(window) \in [DOMAIN Live(window) -> Entries]
        /\ \A i \in DOMAIN Live(window) : i \in DOMAIN window /\ Live(window)[i] = window[i]
    <3>1. PICK S \in SUBSET (1..MaxOverflow) : Live(window) \in [S -> Entries] BY <2>1, LiveKeeps
    <3>2. DOMAIN Live(window) = S BY <3>1
    <3> QED BY <2>1, <3>1, <3>2, LiveKeeps
  <2>3. r \in Tasks(DOMAIN r.window) /\ r.window = Live(window) BY <1>1, <2>2 DEF Tasks, Metas
  <2>4. task' = [task EXCEPT ![o] = r] /\ DOMAIN Live(window) # {} BY <1>11 DEF Load
  <2>5. UNCHANGED <<redisVars, dbVars, lock, stage, opVars, load, calm>> BY <1>11 DEF Load
  <2> HIDE DEF r
  <2>6. Copied(o, r) BY <2>2, <2>3, <2>4 DEF Copied, CopyFits
  <2>7. TaskStep(o, stage[o], r)
    BY <1>1, <1>2, <1>15, <2>4, <2>5, <2>6 DEF TaskStep, redisVars, dbVars, opVars
  <2> QED BY <2>7
<1>12. ASSUME Cache(o) PROVE TaskStep(o, stage[o], [task[o] EXCEPT !.stage = "cached"])
  <2>1. task' = [task EXCEPT ![o] = [task[o] EXCEPT !.stage = "cached"]] BY <1>0, <1>12 DEF Cache, TaskMoves, TypeOK
  <2>2. UNCHANGED <<window, meta, dbVars, lock, stage, opVars, load, calm>> BY <1>12 DEF Cache
  <2>3. summary' \in [version : Nat, to : Nat]
    <3> DEFINE T == Turns(task[o].window)
    <3>1. task[o].version \in Nat BY <1>3 DEF Tasks
    <3>2. D # {} BY <1>0, <1>12 DEF Cache, TaskMoves, StagesFit, CopyFits
    <3>3. PICK k \in Nat : CopiesUpTo(k) BY DEF Typed, Bounded
    <3>4. T \in SUBSET Nat /\ T # {} /\ \A t \in T : t <= k
      BY <1>3, <3>2, <3>3 DEF Turns, CopiesUpTo, Entries
    <3>5. Max(T) \in T BY <3>4, GreatestNat
    <3> QED BY <1>12, <3>1, <3>4, <3>5 DEF Cache
  <2>4. Copied(o, [task[o] EXCEPT !.stage = "cached"]) BY <1>5
  <2> QED BY <1>1, <1>2, <1>15, <2>1, <2>2, <2>3, <2>4 DEF TaskStep, dbVars, opVars
<1>13. ASSUME Persist(o) PROVE TaskStep(o, stage[o], [task[o] EXCEPT !.stage = "stored"])
  <2>1. task' = [task EXCEPT ![o] = [task[o] EXCEPT !.stage = "stored"]] BY <1>0, <1>13 DEF Persist, TaskMoves, TypeOK
  <2>2. UNCHANGED <<redisVars, hidden, held, lock, stage, opVars, load, calm>> BY <1>13 DEF Persist
  <2>3. /\ count' \in Nat /\ books' \subseteq Nat
    <3>1. task[o].version \in Nat /\ task[o].turn \in Nat BY <1>3 DEF Tasks
    <3>2. Max({count, task[o].turn}) \in Nat BY <1>1, <3>1, MaxOfTwo
    <3>3. CASE task[o].version \in books BY <1>1, <1>13, <3>3 DEF Persist
    <3>4. CASE task[o].version \notin books BY <1>1, <1>13, <3>1, <3>2, <3>4 DEF Persist
    <3> QED BY <3>3, <3>4
  <2>4. RowsCopied(o)
    <3>1. CASE rows' = rows BY <1>2, <3>1
    <3>2. CASE rows' = Inserted(rows, RowsIn(task[o].window))
      <4> DEFINE g == RowsIn(task[o].window)
      <4>1. /\ DOMAIN g = Turns(task[o].window) /\ Turns(task[o].window) \subseteq Nat /\ g \in [DOMAIN g -> Texts]
            /\ \A t \in DOMAIN g : \E i \in DOMAIN task[o].window :
                 t = task[o].window[i].turn /\ g[t] = task[o].window[i].text
        <5>1. D \in SUBSET Nat BY <1>3
        <5> QED BY <1>3, <5>1, RowsOfCopy
      <4> HIDE DEF g
      <4>2. rows' = Inserted(rows, g) /\ rows \in [DOMAIN rows -> Texts] /\ DOMAIN rows \subseteq Nat
        BY <1>0, <3>2 DEF g, TypeOK
      <4>3. DOMAIN rows' = DOMAIN rows \cup DOMAIN g BY <4>2, InsertedRows
      <4>4. rows' \in [DOMAIN rows \cup DOMAIN g -> Texts] BY <4>1, <4>2, InsertedRows
      <4>5. \A t \in DOMAIN rows' : \/ t \in DOMAIN rows /\ rows'[t] = rows[t]
                                    \/ t \in DOMAIN g /\ rows'[t] = g[t]
        <5>1. \A t \in DOMAIN Inserted(rows, g) : \/ t \in DOMAIN rows /\ Inserted(rows, g)[t] = rows[t]
                                                  \/ t \in DOMAIN g /\ Inserted(rows, g)[t] = g[t]
          BY InsertedRows
        <5>2. rows' = Inserted(rows, g) BY <4>2
        <5> QED BY <5>1, <5>2, Zenon
      <4> QED BY <4>1, <4>2, <4>3, <4>4, <4>5 DEF RowsCopied
    <3> QED BY <1>13, <3>1, <3>2 DEF Persist
  <2>5. Copied(o, [task[o] EXCEPT !.stage = "stored"]) BY <1>5
  <2> QED BY <1>1, <1>15, <2>1, <2>2, <2>3, <2>4, <2>5 DEF TaskStep, redisVars, opVars
<1>14. ASSUME Close(o) PROVE TaskStep(o, stage[o], NoTask)
  <2>1. Cardinality(D) \in Int /\ task[o].version \in Nat
    <3>1. IsFiniteSet(1..MaxOverflow) BY FS_Interval, WindowAssumption
    <3>2. IsFiniteSet(D) BY <1>3, <3>1, FS_Subset
    <3>3. Cardinality(D) \in Nat BY <3>2, FS_CardinalityType
    <3> QED BY <1>3, <3>3 DEF Tasks
  <2>2. /\ meta' = [meta EXCEPT !.tokens = Cardinality(D), !.version = task[o].version, !.busy = FALSE]
        /\ UNCHANGED <<window, summary, dbVars, lock, stage, opVars, load, calm>> /\ task' = [task EXCEPT ![o] = NoTask]
    BY <1>14 DEF Close
  <2>3. meta' \in Metas /\ meta'.turn = meta.turn
    <3>1. PICK i \in Int, v \in Nat : i = Cardinality(D) /\ v = task[o].version BY <2>1
    <3>2. meta' = [meta EXCEPT !.tokens = i, !.version = v, !.busy = FALSE] BY <2>2, <3>1
    <3> QED BY <1>1, <3>2 DEF Metas
  <2> QED BY <1>1, <1>2, <1>4, <1>15, <2>2, <2>3 DEF TaskStep, dbVars, opVars
<1> QED BY <1>6, <1>8, <1>9, <1>10, <1>11, <1>12, <1>13, <1>14 DEF Summarize

\* LRANGE: what a deletion holds is an entry of the window.
LEMMA FindTyped ==
  ASSUME Typed, NEW o \in Ops, Find(o)
  PROVE  Typed'
<1> DEFINE hits == {i \in DOMAIN window : window[i].turn = Target(o) /\ ~window[i].deleted}
<1>0. TypeOK /\ StagesFit /\ Bounded BY DEF Typed
<1>1. UNCHANGED <<redisVars, dbVars, lock, turns, seen, flush, task, load, calm>> BY DEF Find
<1>2. CASE hits = {}
  <2>1. stage' = [stage EXCEPT ![o] = AfterDelete(o)] /\ found' = found BY <1>2 DEF Find, Moves
  <2>2. KindFits(o, AfterDelete(o)) /\ TurnsFit(o, AfterDelete(o), turns[o]) /\ AfterDelete(o) \in Stages \ {"set"}
    BY <1>0 DEF Find, Moves, StagesFit, KindFits, TurnsFit, AfterDelete, Stages
  <2>3. /\ meta \in Metas /\ count \in Nat /\ hidden \subseteq DOMAIN rows /\ seen \in [Ops -> Nat]
        /\ {lock, held} \subseteq Ops \cup {NoOne} /\ load \in 0..MaxLoad /\ calm \in BOOLEAN
    BY <1>0 DEF TypeOK
  <2>4. Quiet(o, AfterDelete(o))
    BY <1>1, <2>1, <2>2, <2>3 DEF Quiet, redisVars, dbVars
  <2> QED BY <2>4, QuietTyped
<1>3. CASE hits # {}
  <2> DEFINE at == Min(hits)
             f == [place |-> at, entry |-> window[at]]
  <2>1. at \in DOMAIN window /\ at \in Nat /\ window[at] \in Entries
    <3>1. DOMAIN window \subseteq Nat BY <1>0, WindowTurns
    <3>2. hits \in SUBSET Nat BY <3>1
    <3>3. at \in hits BY <1>3, <3>2, LeastNat
    <3> QED BY <1>0, <3>2, <3>3, WindowTurns
  <2>2. stage' = [stage EXCEPT ![o] = "set"] /\ found' = [found EXCEPT ![o] = f] BY <1>3 DEF Find, Moves
  <2>3. f \in [place : Nat, entry : Entries] /\ f.entry = window[at] BY <2>1
  <2> HIDE DEF hits, at, f
  <2>4. /\ stage' \in [Ops -> Stages]
        /\ \A p \in Ops : stage'[p] = IF p = o THEN "set" ELSE stage[p]
        /\ \A p \in Ops : found'[p] = IF p = o THEN f ELSE found[p]
        /\ DOMAIN found' = Ops
    BY <1>0, <2>2 DEF TypeOK, Stages
  <2>5. TypeOK'
    <3>1. \A p \in Ops : stage'[p] = "set" => found'[p] \in [place : Nat, entry : Entries]
      BY <1>0, <2>3, <2>4 DEF TypeOK
    <3> QED BY <1>0, <1>1, <2>4, <3>1 DEF TypeOK, redisVars, dbVars
  <2>6. KindFits(o, "set") /\ TurnsFit(o, "set", turns[o])
    BY <1>0 DEF Find, Moves, StagesFit, KindFits, TurnsFit
  <2>7. StagesFit' BY <1>0, <1>1, <2>4, <2>6 DEF StagesFit
  <2>8. PICK k \in Nat : RowsUpTo(k) /\ CopiesUpTo(k) BY <1>0 DEF Bounded
  <2>9. f.entry.turn <= k BY <2>1, <2>3, <2>8 DEF CopiesUpTo
  <2>10. UNCHANGED <<window, rows, turns, task>> BY <1>1 DEF redisVars, dbVars
  <2>11. RowsUpTo(k)' BY <2>8, <2>10 DEF RowsUpTo
  <2>12. CopiesUpTo(k)' BY <2>4, <2>8, <2>9, <2>10 DEF CopiesUpTo
  <2>13. Bounded' BY <2>11, <2>12 DEF Bounded
  <2> QED BY <2>5, <2>7, <2>13 DEF Typed
<1> QED BY <1>2, <1>3

\* What becomes of the window when LSET writes to it.
LEMMA SetKeeps ==
  ASSUME Typed, NEW o \in Ops, SetDeleted(o)
  PROVE  /\ window' \in Seq(Entries) /\ Len(window') <= MaxOverflow
         /\ \A i \in DOMAIN window' :
              \/ \E j \in DOMAIN window : window'[i] = window[j]
              \/ /\ window'[i].turn = found[o].entry.turn
                 /\ window'[i].text = found[o].entry.text
<1> DEFINE at == found[o].place
           e == [found[o].entry EXCEPT !.deleted = TRUE]
<1>1. TypeOK /\ stage[o] = "set" BY DEF Typed, SetDeleted, Moves
<1>2. found[o].entry \in Entries BY <1>1 DEF TypeOK
<1>3. e \in Entries /\ e.turn = found[o].entry.turn /\ e.text = found[o].entry.text BY <1>2 DEF Entries
<1>4. window \in Seq(Entries) /\ Len(window) <= MaxOverflow BY <1>1 DEF TypeOK
<1>5. DOMAIN window = 1 .. Len(window) /\ \A i \in DOMAIN window : window[i] \in Entries BY <1>1, WindowTurns
<1>6. CASE at \in DOMAIN window
  <2>1. window' = [window EXCEPT ![at] = e] BY <1>6 DEF SetDeleted
  <2> HIDE DEF at, e
  <2>2. window' \in Seq(Entries) /\ Len(window') = Len(window)
    BY <1>3, <1>4, <1>6, <2>1, ExceptSeq
  <2>3. \A i \in DOMAIN window' : i \in DOMAIN window /\ window'[i] = IF i = at THEN e ELSE window[i]
    BY <2>1
  <2> QED BY <1>3, <1>4, <2>2, <2>3
<1>7. CASE at \notin DOMAIN window
  <2>1. window' = window BY <1>7 DEF SetDeleted
  <2> QED BY <1>4, <2>1
<1> QED BY <1>6, <1>7

\* LSET of an entry of the window, at the place it was read from or past the end.
LEMMA SetTyped ==
  ASSUME Typed, NEW o \in Ops, SetDeleted(o)
  PROVE  Typed'
<1>0. TypeOK /\ StagesFit /\ Bounded BY DEF Typed
<1>1. UNCHANGED <<meta, summary, dbVars, lock, opVars, task, load, calm>> BY DEF SetDeleted
<1>2. PICK s \in {"discount", "hide", "done"} : stage' = [stage EXCEPT ![o] = s] /\ (s = "hide" => Kind(o) = "turn")
  BY DEF SetDeleted, Moves, AfterDelete
<1>3. stage[o] = "set" BY DEF SetDeleted, Moves
<1>4. /\ stage' \in [Ops -> Stages]
      /\ \A p \in Ops : stage'[p] = IF p = o THEN s ELSE stage[p]
  BY <1>0, <1>2 DEF TypeOK, Stages
<1>5. \A p \in Ops : stage'[p] = "set" => stage[p] = "set" BY <1>4
<1>6. TypeOK' BY <1>0, <1>1, <1>4, <1>5, SetKeeps DEF TypeOK, dbVars, opVars
<1>7. KindFits(o, s) /\ TurnsFit(o, s, turns[o]) BY <1>0, <1>2, <1>3 DEF StagesFit, KindFits, TurnsFit
<1>8. UNCHANGED <<rows, turns, task, found>> BY <1>1 DEF dbVars, opVars
<1>9. StagesFit' BY <1>0, <1>4, <1>7, <1>8 DEF StagesFit
<1>10. PICK k \in Nat : RowsUpTo(k) /\ CopiesUpTo(k) BY <1>0 DEF Bounded
<1>11. RowsUpTo(k)' BY <1>8, <1>10 DEF RowsUpTo
<1>12. \A i \in DOMAIN window' : window'[i].turn <= k BY <1>3, <1>10, SetKeeps DEF CopiesUpTo
<1>13. CopiesUpTo(k)' BY <1>5, <1>8, <1>10, <1>12 DEF CopiesUpTo
<1>14. Bounded' BY <1>11, <1>13 DEF Bounded
<1> QED BY <1>6, <1>9, <1>14 DEF Typed

\* DEL of the three keys
LEMMA ClearTyped ==
  ASSUME Typed, NEW o \in Ops, Clear(o)
  PROVE  Typed'
<1>0. TypeOK /\ StagesFit /\ Bounded BY DEF Typed
<1>1. UNCHANGED <<dbVars, lock, opVars, task, load>> /\ Kind(o) = "clear" BY DEF Clear
<1>2. window' = <<>> /\ meta' = Blank /\ summary' = NoSummary /\ calm' = FALSE BY DEF Clear
<1>3. stage' = [stage EXCEPT ![o] = "done"] BY DEF Clear, Moves
<1>4. /\ stage' \in [Ops -> Stages] /\ \A p \in Ops : stage'[p] = IF p = o THEN "done" ELSE stage[p]
  BY <1>0, <1>3 DEF TypeOK, Stages
<1>5. \A p \in Ops : stage'[p] = "set" => stage[p] = "set" BY <1>4
<1>6. /\ <<>> \in Seq(Entries) /\ Len(<<>>) = 0 /\ DOMAIN <<>> = {} /\ MaxOverflow \in Nat
  BY WindowAssumption, EmptySeq
<1>7. window' \in Seq(Entries) /\ Len(window') <= MaxOverflow /\ DOMAIN window' = {} BY <1>2, <1>6
<1>8. meta' \in Metas /\ summary' \in [version : Nat, to : Nat] BY <1>2, BlankIsMeta DEF NoSummary
<1>9. TypeOK' BY <1>0, <1>1, <1>2, <1>4, <1>5, <1>7, <1>8 DEF TypeOK, dbVars, opVars
<1>10. KindFits(o, "done") /\ TurnsFit(o, "done", turns[o])
  BY <1>0, <1>1 DEF StagesFit, KindFits, TurnsFit
<1>11. UNCHANGED <<rows, turns, task, found>> BY <1>1 DEF dbVars, opVars
<1>12. StagesFit' BY <1>0, <1>4, <1>10, <1>11 DEF StagesFit
<1>13. PICK k \in Nat : RowsUpTo(k) /\ CopiesUpTo(k) BY <1>0 DEF Bounded
<1>14. RowsUpTo(k)' BY <1>11, <1>13 DEF RowsUpTo
<1>15. CopiesUpTo(k)' BY <1>5, <1>7, <1>11, <1>13 DEF CopiesUpTo
<1>16. Bounded' BY <1>14, <1>15 DEF Bounded
<1> QED BY <1>9, <1>12, <1>16 DEF Typed

\* The session lock runs out, or nothing happens.
LEMMA ExpiryTyped ==
  ASSUME Typed, LockExpires \/ UNCHANGED vars
  PROVE  Typed'
<1>0. TypeOK /\ StagesFit /\ Bounded BY DEF Typed
<1>1. UNCHANGED <<redisVars, dbVars, stage, opVars, task>> BY DEF LockExpires, vars
<1>2. lock' \in Ops \cup {NoOne} /\ load' \in 0..MaxLoad
  <2>1. MaxLoad \in Nat BY WindowAssumption
  <2> QED BY <1>0, <2>1 DEF LockExpires, Fault, TypeOK, vars
<1>3. calm' = calm \/ calm' = FALSE BY DEF LockExpires, vars
<1>4. calm' \in BOOLEAN BY <1>0, <1>3, Zenon DEF TypeOK
<1>5. TypeOK' BY <1>0, <1>1, <1>2, <1>4 DEF TypeOK, redisVars, dbVars, opVars
<1>6. StagesFit' BY <1>0, <1>1 DEF StagesFit, opVars
<1>7. Bounded' BY <1>0, <1>1 DEF Bounded, RowsUpTo, CopiesUpTo, redisVars, dbVars, opVars
<1> QED BY <1>5, <1>6, <1>7 DEF Typed

\* Every step keeps types, stages and bound.
LEMMA TypedStep == Typed /\ [Next]_vars => Typed'
<1> SUFFICES ASSUME Typed, [Next]_vars PROVE Typed' OBVIOUS
<1>1. ASSUME NEW o \in Ops, Turn(o) PROVE Typed'
  BY <1>1, QuietSteps, QuietTyped, AppendTyped, ReserveTyped, InsertTyped DEF Turn
<1>2. ASSUME NEW o \in Ops, Delete(o) PROVE Typed'
  BY <1>2, QuietSteps, QuietTyped, FindTyped, SetTyped DEF Delete
<1>3. ASSUME NEW o \in Ops, Clear(o) PROVE Typed' BY <1>3, ClearTyped
<1>4. ASSUME NEW o \in Ops, Idle(o) PROVE Typed' BY <1>4, QuietSteps, QuietTyped DEF Idle
<1>5. ASSUME NEW o \in Ops, Asks(o) PROVE Typed'
  BY <1>5, QuietSteps, QuietTyped, TaskSteps, TaskStepTyped DEF Asks
<1>6. ASSUME NEW o \in Ops, Summarize(o) \/ WorkerCrash(o) PROVE Typed'
  BY <1>6, TaskSteps, TaskStepTyped
<1>7. ASSUME NEW o \in Ops, Crash(o) PROVE Typed' BY <1>7, QuietSteps, QuietTyped
<1> QED BY <1>1, <1>2, <1>3, <1>4, <1>5, <1>6, <1>7, ExpiryTyped DEF Next, Works

\* Every access to Redis and to the database, however the steps of the requests and the
\* tasks interleave, fail and crash, keeps the types: in particular APPEND_LUA keeps
\* the window within its overflow, and no Max is taken of nothing.
THEOREM TypesHold == Spec => []TypeOK
<1>1. Typed => TypeOK BY DEF Typed
<1> QED BY <1>1, TypedInit, TypedStep, PTL DEF Spec

-----------------------------------------------------------------------------
(* Without disturbances *)

\* At the start the counter is that of the table, or the window is empty.
LEMMA SettledInit == Init => Settled
<1> SUFFICES ASSUME Init PROVE Settled OBVIOUS
<1> DEFINE w == [t \in DOMAIN Opening |-> Entry(t, Opening[t])]
<1>1. /\ Len(Opening) \in Nat /\ DOMAIN Opening = 1 .. Len(Opening)
      /\ \A t \in DOMAIN Opening : Opening[t] \in Texts
  BY WindowAssumption, LenProperties, ElementOfSeq
<1>2. w \in Seq(Entries) /\ \A i \in DOMAIN w : w[i].turn = i /\ w[i].text = Opening[i] /\ i \in DOMAIN Opening
  BY <1>1 DEF Entry, Entries
<1> HIDE DEF w
<1>3. /\ \A i \in DOMAIN window : window[i].turn \in DOMAIN Opening /\ window[i].text = Opening[window[i].turn]
      /\ \A i \in DOMAIN window : window[i].turn <= meta.turn
  <2>1. CASE window = <<>> BY <2>1, EmptySeq
  <2>2. CASE window = Trimmed(w) /\ meta = [Blank EXCEPT !.turn = Len(Opening), !.tokens = Len(Opening)]
    <3>1. \A i \in DOMAIN window : \E j \in DOMAIN w : window[i] = w[j] BY <2>2, <1>2, TrimmedKeeps
    <3>2. meta.turn = Len(Opening) BY <2>2 DEF Blank
    <3> QED BY <1>1, <1>2, <3>1, <3>2
  <2> QED BY <2>1, <2>2 DEF Init, w
<1>4. \A o \in Ops : DOMAIN turns[o] = {} /\ DOMAIN task[o].window = {} /\ stage[o] \in {"idle", "done"}
  BY EmptySeq DEF Init, NoTask
<1>5. Exclusive BY <1>4 DEF Exclusive, Locked
<1>6. Ahead BY <1>3, <1>4 DEF Ahead, CopiesUpTo, Locked
<1>7. OneText
  <2>1. rows = [t \in DOMAIN Opening |-> Opening[t]] BY DEF Init, Stored
  <2>2. \A t \in Nat, m \in Texts : Says(t, m) => m = Opening[t]
    BY <1>3, <1>4, <2>1 DEF Says
  <2> QED BY <2>2 DEF OneText
<1>8. OwnTurns /\ RowsThere BY <1>4 DEF OwnTurns, RowsThere
<1> QED BY <1>5, <1>6, <1>7, <1>8 DEF Settled

\* A quiet step that disturbs nobody: the lock passes to nobody else, and the counter
\* moves in the hands of its holder only.
Calmly(o, s) ==
  /\ Quiet(o, s) /\ s \notin {"rescue", "reserve"}
  /\ s \in Through => stage[o] \in Through \/ Kind(o) # "turn"
  /\ Kind(o) = "turn" /\ s \in Locked => lock' = o
  /\ lock' # lock => lock \in {o, NoOne}
  /\ \A p \in Ops : p # o => seen'[p] = seen[p]
  /\ meta'.turn # meta.turn => Kind(o) = "turn" /\ lock = o /\ meta.turn <= meta'.turn
  /\ s = "compare" => seen'[o] = meta'.turn
  /\ s = "raise" => meta'.turn <= seen'[o] /\ RowsUpTo(seen'[o])
  /\ Kind(o) = "turn" /\ s \in Locked \ {"read", "compare", "raise"} => RowsUpTo(meta'.turn)

\* Such a step leaves the session settled.
LEMMA CalmlySettled ==
  ASSUME Typed, Settled, NEW o \in Ops, NEW s, Calmly(o, s)
  PROVE  Settled'
<1>0. TypeOK /\ StagesFit /\ Exclusive /\ Ahead /\ OneText /\ OwnTurns /\ RowsThere /\ Quiet(o, s)
  BY DEF Typed, Settled, Calmly
<1>1. UNCHANGED <<window, rows, turns, found, task>> BY <1>0 DEF Quiet
<1>2. \A p \in Ops : stage'[p] = IF p = o THEN s ELSE stage[p]
  BY <1>0 DEF Quiet, TypeOK
<1>3. s # "set" BY <1>0 DEF Quiet
<1>4. Exclusive'
  <2> SUFFICES ASSUME NEW p \in Ops
               PROVE  /\ Kind(p) = "turn" /\ stage'[p] \in Locked => lock' = p
                      /\ stage'[p] \notin {"rescue", "reserve"}
    BY DEF Exclusive
  <2>1. CASE p = o BY <1>2, <2>1 DEF Calmly
  <2>2. CASE p # o BY <1>0, <1>2, <2>2, WindowAssumption DEF Calmly, Exclusive
  <2> QED BY <2>1, <2>2
<1>5. meta.turn \in Nat /\ meta'.turn \in Nat /\ meta.turn <= meta'.turn
  BY <1>0 DEF Calmly, Quiet, TypeOK, Metas
<1>6. Ahead'
  <2>1. CopiesUpTo(meta'.turn) BY <1>0, <1>5, BoundsGrow DEF Ahead
  <2>2. CopiesUpTo(meta.turn)' BY <1>1, <1>2, <1>3, <2>1 DEF CopiesUpTo
  <2>3. ASSUME NEW p \in Ops
        PROVE  /\ stage'[p] = "compare" => seen'[p] = meta'.turn
               /\ stage'[p] = "raise" => meta'.turn <= seen'[p] /\ RowsUpTo(seen'[p])
               /\ Kind(p) = "turn" /\ stage'[p] \in Locked \ {"read", "compare", "raise"} => RowsUpTo(meta'.turn)
    <3>1. CASE p = o BY <1>2, <3>1 DEF Calmly
    <3>2. CASE p # o /\ meta'.turn = meta.turn BY <1>0, <1>2, <3>2 DEF Calmly, Ahead
    <3>3. CASE p # o /\ meta'.turn # meta.turn
      <4>1. lock = o BY <3>3 DEF Calmly
      <4>2. ~(Kind(p) = "turn" /\ stage[p] \in Locked) BY <1>0, <3>3, <4>1 DEF Exclusive
      <4>3. stage[p] \notin {"compare", "raise"} BY <1>0, <4>2 DEF StagesFit, KindFits, Locked
      <4> QED BY <1>2, <3>3, <4>2, <4>3
    <3> QED BY <3>1, <3>2, <3>3
  <2>4. \A n : RowsUpTo(n) => \A t \in DOMAIN rows' : t <= n BY <1>1 DEF RowsUpTo
  <2> QED BY <2>2, <2>3, <2>4 DEF Ahead, RowsUpTo
<1>7. OneText'
  <2>1. \A t \in Nat, m \in Texts : Says(t, m)' => Says(t, m) BY <1>1, <1>2, <1>3 DEF Says
  <2> QED BY <1>0, <2>1 DEF OneText
<1>8. OwnTurns' BY <1>0, <1>1 DEF OwnTurns
<1>9. RowsThere'
  <2> SUFFICES ASSUME NEW p \in Ops, stage'[p] \in Through
               PROVE  \A i \in DOMAIN turns[p] : turns[p][i] \in DOMAIN rows
    BY <1>1 DEF RowsThere
  <2>1. CASE stage[p] \in Through BY <1>0, <2>1 DEF RowsThere
  <2>2. CASE stage[p] \notin Through
    <3>1. Kind(p) # "turn" BY <1>2, <2>2 DEF Calmly
    <3>2. turns[p] = <<>> BY <1>0, <3>1 DEF StagesFit, TurnsFit
    <3> QED BY <3>2, EmptySeq
  <2> QED BY <2>1, <2>2
<1> QED BY <1>4, <1>6, <1>7, <1>8, <1>9 DEF Settled

\* The quiet steps, when no call that the turns' indexes depend on fails.
LEMMA CalmSteps ==
  ASSUME Typed, Settled, calm', NEW o \in Ops
  PROVE  /\ Acquire(o) => Calmly(o, "read")
         /\ GiveUp(o) => Calmly(o, "dropped")
         /\ ReadTurn(o) => Calmly(o, "compare")
         /\ Compare(o) => Calmly(o, IF Highest > seen[o] THEN "raise" ELSE "append")
         /\ Raise(o) => Calmly(o, "append")
         /\ CheckBusy(o) => Calmly(o, IF meta.busy THEN "unlock" ELSE "mark")
         /\ MarkBusy(o) => Calmly(o, "dispatch")
         /\ MarkAgain(o) => Calmly(o, IF Kind(o) = "turn" THEN "unlock" ELSE "done")
         /\ Release(o) => Calmly(o, "touch")
         /\ Touch(o) => Calmly(o, "insert")
         /\ DeleteFails(o) => Calmly(o, AfterDelete(o))
         /\ Discount(o) => Calmly(o, AfterDelete(o))
         /\ Hide(o) => Calmly(o, "done")
         /\ IdleSkips(o) => Calmly(o, "done")
         /\ IdleRead(o) => Calmly(o, "done") \/ Calmly(o, "covered")
         /\ IdleSummary(o) => Calmly(o, "done") \/ Calmly(o, "dispatch")
         /\ IdleFails(o) => Calmly(o, "done")
         /\ Crash(o) => Calmly(o, "crashed")
<1>0. TypeOK /\ StagesFit /\ Bounded /\ Exclusive /\ Ahead BY DEF Typed, Settled
<1>1. Highest \in Nat /\ RowsUpTo(Highest) /\ DOMAIN rows \subseteq Nat
  BY <1>0, HighestIsMax DEF TypeOK
<1>2. meta \in Metas /\ meta.turn \in Nat /\ seen \in [Ops -> Nat] BY <1>0 DEF TypeOK, Metas
<1>3. ASSUME NEW s, Quiet(o, s), s \notin Locked \cup {"reserve"},
             s \in Through => stage[o] \in Through \/ Kind(o) # "turn",
             lock' # lock => lock \in {o, NoOne}, meta'.turn = meta.turn, seen' = seen
      PROVE  Calmly(o, s)
  BY <1>3 DEF Calmly, Locked
<1>4. ASSUME Acquire(o) PROVE Calmly(o, "read")
  <2>1. Quiet(o, "read") /\ lock' = o /\ lock = NoOne /\ UNCHANGED <<meta, seen>>
    BY <1>4, QuietSteps DEF Acquire, redisVars, opVars
  <2> QED BY <2>1 DEF Calmly, Through
<1>5. ASSUME GiveUp(o) PROVE Calmly(o, "dropped")
  <2>1. Quiet(o, "dropped") /\ UNCHANGED <<lock, meta, seen>> BY <1>5, QuietSteps DEF GiveUp, redisVars, opVars
  <2> QED BY <1>3, <2>1 DEF Locked, Through
<1>6. ASSUME ReadTurn(o) PROVE Calmly(o, "compare")
  <2>1. Quiet(o, "compare") BY <1>6, QuietSteps
  <2>2. UNCHANGED <<lock, meta>> /\ seen' = [seen EXCEPT ![o] = meta.turn] /\ stage[o] = "read"
    BY <1>6 DEF ReadTurn, Moves, redisVars
  <2>3. Kind(o) = "turn" /\ lock = o BY <1>0, <2>2 DEF StagesFit, KindFits, Exclusive, Locked
  <2> QED BY <1>2, <2>1, <2>2, <2>3 DEF Calmly, Through
<1>7. ASSUME Compare(o) PROVE Calmly(o, IF Highest > seen[o] THEN "raise" ELSE "append")
  <2>1. Quiet(o, IF Highest > seen[o] THEN "raise" ELSE "append") BY <1>7, QuietSteps
  <2>2. UNCHANGED <<lock, meta>> /\ seen' = [seen EXCEPT ![o] = Highest] /\ stage[o] = "compare"
    BY <1>7 DEF Compare, Moves, redisVars
  <2>3. Kind(o) = "turn" /\ lock = o /\ seen[o] = meta.turn
    BY <1>0, <2>2 DEF StagesFit, KindFits, Exclusive, Locked, Ahead
  <2>4. CASE Highest > seen[o]
    <3>1. Quiet(o, "raise") /\ seen'[o] = Highest /\ meta'.turn <= Highest BY <1>1, <1>2, <2>1, <2>2, <2>3, <2>4
    <3>2. Calmly(o, "raise") BY <1>1, <1>2, <2>2, <2>3, <3>1 DEF Calmly, Through
    <3> QED BY <2>4, <3>2
  <2>5. CASE ~(Highest > seen[o])
    <3>1. Quiet(o, "append") /\ Highest <= meta.turn BY <1>1, <1>2, <2>1, <2>3, <2>5
    <3>2. RowsUpTo(meta.turn) BY <1>1, <1>2, <3>1 DEF RowsUpTo
    <3>3. Calmly(o, "append") BY <1>2, <2>2, <2>3, <3>1, <3>2 DEF Calmly, Through
    <3> QED BY <2>5, <3>3
  <2> QED BY <2>4, <2>5
<1>8. ASSUME Raise(o) PROVE Calmly(o, "append")
  <2>1. Quiet(o, "append") BY <1>8, QuietSteps
  <2>2. UNCHANGED <<lock, seen>> /\ meta' = [meta EXCEPT !.turn = seen[o]] /\ stage[o] = "raise"
    BY <1>8 DEF Raise, Moves, opVars
  <2>3. Kind(o) = "turn" /\ lock = o /\ meta.turn <= seen[o] /\ RowsUpTo(seen[o])
    BY <1>0, <2>2 DEF StagesFit, KindFits, Exclusive, Locked, Ahead
  <2>4. meta'.turn = seen[o] BY <1>2, <2>2, MetaTypes
  <2> QED BY <2>1, <2>2, <2>3, <2>4 DEF Calmly, Through
<1>9. ASSUME stage[o] \in Locked \ {"read", "compare", "raise"}, Kind(o) = "turn", UNCHANGED <<lock, seen>>,
             meta'.turn = meta.turn, NEW s \in {"unlock", "mark", "dispatch"}, Quiet(o, s)
      PROVE  Calmly(o, s)
  <2>1. lock = o /\ RowsUpTo(meta.turn) BY <1>0, <1>9 DEF Exclusive, Ahead
  <2> QED BY <1>9, <2>1 DEF Calmly, Through
<1>10. ASSUME CheckBusy(o) PROVE Calmly(o, IF meta.busy THEN "unlock" ELSE "mark")
  <2>1. Quiet(o, IF meta.busy THEN "unlock" ELSE "mark") BY <1>10, QuietSteps
  <2>2. UNCHANGED <<lock, meta, seen>> /\ stage[o] = "full" BY <1>10 DEF CheckBusy, Moves, redisVars, opVars
  <2>3. Kind(o) = "turn" BY <1>0, <2>2 DEF StagesFit, KindFits
  <2> DEFINE s == IF meta.busy THEN "unlock" ELSE "mark"
  <2>4. s \in {"unlock", "mark"} OBVIOUS
  <2> HIDE DEF s
  <2>5. Calmly(o, s) BY <1>9, <2>1, <2>2, <2>3, <2>4 DEF Locked, s
  <2> QED BY <2>5 DEF s
<1>11. ASSUME MarkBusy(o) PROVE Calmly(o, "dispatch")
  <2>1. Quiet(o, "dispatch") BY <1>11, QuietSteps
  <2>2. UNCHANGED <<lock, seen>> /\ meta' = [meta EXCEPT !.busy = TRUE] /\ stage[o] = "mark"
    BY <1>11 DEF MarkBusy, Moves, opVars
  <2>3. Kind(o) = "turn" BY <1>0, <2>2 DEF StagesFit, KindFits
  <2>4. meta'.turn = meta.turn BY <1>2, <2>2, MetaTypes
  <2> QED BY <1>9, <2>1, <2>2, <2>3, <2>4 DEF Locked
<1>12. ASSUME MarkAgain(o) PROVE Calmly(o, IF Kind(o) = "turn" THEN "unlock" ELSE "done")
  <2>1. Quiet(o, IF Kind(o) = "turn" THEN "unlock" ELSE "done") BY <1>12, QuietSteps
  <2>2. UNCHANGED <<lock, seen>> /\ meta' = [meta EXCEPT !.busy = TRUE] /\ stage[o] = "remark"
    BY <1>12 DEF MarkAgain, Moves, opVars
  <2>3. meta'.turn = meta.turn BY <1>2, <2>2, MetaTypes
  <2>4. CASE Kind(o) = "turn"
    <3>1. Calmly(o, "unlock") BY <1>9, <2>1, <2>2, <2>3, <2>4 DEF Locked
    <3> QED BY <2>4, <3>1
  <2>5. CASE Kind(o) # "turn"
    <3>1. Calmly(o, "done") BY <1>3, <2>1, <2>2, <2>3, <2>5 DEF Locked
    <3> QED BY <2>5, <3>1
  <2> QED BY <2>4, <2>5
<1>13. ASSUME Release(o) PROVE Calmly(o, "touch")
  <2>1. stage[o] # "rescue" BY <1>0 DEF Exclusive
  <2>2. stage[o] = "unlock" /\ stage' = [stage EXCEPT ![o] = "touch"] BY <1>13, <2>1 DEF Release, Moves
  <2>3. stage'[o] = "touch" BY <1>0, <2>2 DEF TypeOK
  <2>4. ~Quiet(o, "reserve") BY <1>0, <2>3 DEF Quiet, TypeOK
  <2>5. Quiet(o, "touch") BY <1>13, <2>4, QuietSteps
  <2>6. UNCHANGED <<meta, seen>> /\ (lock' # lock => lock = o) BY <1>13 DEF Release, redisVars, opVars
  <2> QED BY <1>3, <2>5, <2>6 DEF Locked, Through
<1>14. ASSUME Touch(o) PROVE Calmly(o, "insert")
  <2>1. Quiet(o, "insert") BY <1>14, QuietSteps
  <2>2. UNCHANGED <<lock, meta, seen>> BY <1>14 DEF Touch, redisVars, opVars
  <2> QED BY <1>3, <2>1, <2>2 DEF Locked, Through
<1>15. ASSUME stage[o] \in {"set", "discount", "hide"}, NEW s \in {"hide", "done"}, Quiet(o, s),
              meta'.turn = meta.turn, UNCHANGED <<lock, seen>>
       PROVE  Calmly(o, s)
  BY <1>3, <1>15 DEF Locked, Through
<1>16. AfterDelete(o) \in {"hide", "done"} BY DEF AfterDelete
<1>17. ASSUME DeleteFails(o) PROVE Calmly(o, AfterDelete(o))
  <2>1. Quiet(o, AfterDelete(o)) BY <1>17, QuietSteps
  <2>2. UNCHANGED <<lock, meta, seen>> /\ stage[o] = "set" BY <1>17 DEF DeleteFails, Moves, redisVars, opVars
  <2> QED BY <1>15, <1>16, <2>1, <2>2
<1>18. ASSUME Discount(o) PROVE Calmly(o, AfterDelete(o))
  <2>1. Quiet(o, AfterDelete(o)) BY <1>18, QuietSteps
  <2>2. UNCHANGED <<lock, seen>> /\ stage[o] = "discount" BY <1>18 DEF Discount, Moves, opVars
  <2>3. meta' = [meta EXCEPT !.tokens = meta.tokens - 1] \/ meta' = meta BY <1>18 DEF Discount
  <2>4. PICK i \in Int : i = meta.tokens - 1 BY <1>2 DEF Metas
  <2>5. meta'.turn = meta.turn BY <1>2, <2>3, <2>4 DEF Metas
  <2> QED BY <1>15, <1>16, <2>1, <2>2, <2>5
<1>19. ASSUME Hide(o) PROVE Calmly(o, "done")
  <2>1. Quiet(o, "done") BY <1>19, QuietSteps
  <2>2. UNCHANGED <<lock, meta, seen>> /\ stage[o] = "hide" BY <1>19 DEF Hide, Moves, redisVars, opVars
  <2> QED BY <1>15, <2>1, <2>2
<1>20. ASSUME Kind(o) = "idle", NEW s \in {"done", "covered", "dispatch"}, Quiet(o, s), UNCHANGED <<lock, meta>>,
              \A p \in Ops : p # o => seen'[p] = seen[p]
       PROVE  Calmly(o, s)
  BY <1>20 DEF Calmly, Locked, Through
<1>21. ASSUME IdleSkips(o) PROVE Calmly(o, "done")
  <2>1. Quiet(o, "done") BY <1>21, QuietSteps
  <2>2. Kind(o) = "idle" /\ UNCHANGED <<lock, meta, seen>> BY <1>21 DEF IdleSkips, redisVars, opVars
  <2> QED BY <1>20, <2>1, <2>2
<1>22. ASSUME IdleRead(o) PROVE Calmly(o, "done") \/ Calmly(o, "covered")
  <2>1. Quiet(o, "done") \/ Quiet(o, "covered") BY <1>22, QuietSteps
  <2>2. Kind(o) = "idle" /\ UNCHANGED <<lock, meta>> /\ seen' = [seen EXCEPT ![o] = meta.turn]
    BY <1>22 DEF IdleRead, redisVars
  <2> QED BY <1>2, <1>20, <2>1, <2>2
<1>23. ASSUME IdleSummary(o) PROVE Calmly(o, "done") \/ Calmly(o, "dispatch")
  <2>1. Quiet(o, "done") \/ Quiet(o, "dispatch") BY <1>23, QuietSteps
  <2>2. stage[o] = "covered" /\ UNCHANGED <<lock, meta, seen>> BY <1>23 DEF IdleSummary, Moves, redisVars, opVars
  <2>3. Kind(o) = "idle" BY <1>0, <2>2 DEF StagesFit, KindFits
  <2> QED BY <1>20, <2>1, <2>2, <2>3
<1>24. ASSUME IdleFails(o) PROVE Calmly(o, "done")
  <2>1. Quiet(o, "done") BY <1>24, QuietSteps
  <2>2. Kind(o) = "idle" /\ UNCHANGED <<lock, meta, seen>> BY <1>24 DEF IdleFails, redisVars, opVars
  <2> QED BY <1>20, <2>1, <2>2
<1>25. ASSUME Crash(o) PROVE Calmly(o, "crashed")
  <2>1. Quiet(o, "crashed") BY <1>25, QuietSteps
  <2>2. UNCHANGED <<lock, meta, seen>> BY <1>25 DEF Crash, redisVars, opVars
  <2> QED BY <1>3, <2>1, <2>2 DEF Locked, Through
<1> QED BY <1>4, <1>5, <1>6, <1>7, <1>8, <1>10, <1>11, <1>12, <1>13, <1>14, <1>17, <1>18, <1>19, <1>21, <1>22, <1>23, <1>24, <1>25

\* A task adds only what the window or its copy says, under indexes that are in use.
LEMMA TaskStepSettled ==
  ASSUME Typed, Settled, NEW o \in Ops, NEW s, NEW r, TaskStep(o, s, r),
         s = stage[o] \/ (stage[o] = "dispatch" /\ s = "remark")
  PROVE  Settled'
<1>0. TypeOK /\ StagesFit /\ Exclusive /\ Ahead /\ OneText /\ OwnTurns /\ RowsThere
  BY DEF Typed, Settled
<1>1. UNCHANGED <<window, lock, turns, seen, found>> /\ meta'.turn = meta.turn BY DEF TaskStep
<1>2. \A p \in Ops : stage'[p] = IF p = o THEN s ELSE stage[p] BY <1>0 DEF TaskStep, TypeOK
<1>3. \A p \in Ops : task'[p] = IF p = o THEN r ELSE task[p] BY <1>0 DEF TaskStep, TypeOK
<1>4. \A p \in Ops : \/ stage'[p] = stage[p]
                     \/ /\ stage'[p] = "remark" /\ stage[p] \in Locked \ {"read", "compare", "raise"}
  BY <1>2 DEF Locked
<1>5. \A i \in DOMAIN r.window : \/ \E j \in DOMAIN window : r.window[i] = window[j]
                                 \/ \E j \in DOMAIN task[o].window : r.window[i] = task[o].window[j]
  BY DEF TaskStep, Copied
<1>6. /\ \A t \in DOMAIN rows : t \in DOMAIN rows'
      /\ \A t \in DOMAIN rows' : \/ t \in DOMAIN rows /\ rows'[t] = rows[t]
                                 \/ \E i \in DOMAIN task[o].window :
                                      t = task[o].window[i].turn /\ rows'[t] = task[o].window[i].text
  BY DEF TaskStep, RowsCopied
<1>7. meta.turn \in Nat BY <1>0 DEF TypeOK, Metas
<1>8. Exclusive' BY <1>0, <1>1, <1>4 DEF Exclusive, Locked
<1>9. Ahead'
  <2>1. \A i \in DOMAIN r.window : r.window[i].turn <= meta.turn
    BY <1>0, <1>5 DEF Ahead, CopiesUpTo
  <2>2. \A p \in Ops : \A i \in DOMAIN task'[p].window : task'[p].window[i].turn <= meta.turn
    BY <1>0, <1>3, <2>1 DEF Ahead, CopiesUpTo
  <2>3. \A p \in Ops : stage'[p] = "set" => stage[p] = "set" BY <1>4
  <2>4. CopiesUpTo(meta.turn)' BY <1>0, <1>1, <2>2, <2>3 DEF Ahead, CopiesUpTo
  <2>5. ASSUME NEW n \in Nat, meta.turn <= n, RowsUpTo(n) PROVE \A t \in DOMAIN rows' : t <= n
    <3>1. \A i \in DOMAIN task[o].window : task[o].window[i].turn \in Nat /\ task[o].window[i].turn <= meta.turn
      BY <1>0, TaskTurns DEF Ahead, CopiesUpTo
    <3> QED BY <1>6, <1>7, <2>5, <3>1 DEF RowsUpTo
  <2>6. ASSUME NEW p \in Ops
        PROVE  /\ stage'[p] = "compare" => seen'[p] = meta'.turn
               /\ stage'[p] = "raise" => meta'.turn <= seen'[p] /\ \A t \in DOMAIN rows' : t <= seen'[p]
               /\ Kind(p) = "turn" /\ stage'[p] \in Locked \ {"read", "compare", "raise"}
                  => \A t \in DOMAIN rows' : t <= meta'.turn
    <3>1. stage'[p] = "compare" => seen'[p] = meta'.turn BY <1>0, <1>1, <1>4 DEF Ahead
    <3>2. ASSUME stage'[p] = "raise" PROVE meta'.turn <= seen'[p] /\ \A t \in DOMAIN rows' : t <= seen'[p]
      <4>1. stage[p] = "raise" BY <1>4, <3>2
      <4>2. seen[p] \in Nat /\ meta.turn <= seen[p] /\ RowsUpTo(seen[p]) BY <1>0, <4>1 DEF Ahead, TypeOK
      <4> QED BY <1>1, <2>5, <4>2
    <3>3. ASSUME Kind(p) = "turn", stage'[p] \in Locked \ {"read", "compare", "raise"}
          PROVE  \A t \in DOMAIN rows' : t <= meta'.turn
      <4>1. stage[p] \in Locked \ {"read", "compare", "raise"} BY <1>4, <3>3
      <4>2. RowsUpTo(meta.turn) BY <1>0, <3>3, <4>1 DEF Ahead
      <4> QED BY <1>1, <1>7, <2>5, <4>2
    <3> QED BY <3>1, <3>2, <3>3
  <2> QED BY <2>4, <2>6 DEF Ahead, RowsUpTo
<1>10. OneText'
  <2>1. ASSUME NEW t \in Nat, NEW m \in Texts, Says(t, m)' PROVE Says(t, m)
    <3>1. CASE t \in DOMAIN rows' /\ m = rows'[t] BY <1>6, <3>1 DEF Says
    <3>2. CASE \E i \in DOMAIN window : t = window[i].turn /\ m = window[i].text BY <3>2 DEF Says
    <3>3. ASSUME NEW p \in Ops, \E i \in DOMAIN turns[p] : t = turns[p][i] /\ m = Messages(p)[i]
          PROVE  Says(t, m)
      BY <3>3 DEF Says
    <3>4. ASSUME NEW p \in Ops, NEW i \in DOMAIN task'[p].window,
                 t = task'[p].window[i].turn, m = task'[p].window[i].text
          PROVE  Says(t, m)
      <4>1. CASE p = o BY <1>3, <1>5, <3>4, <4>1 DEF Says
      <4>2. CASE p # o BY <1>3, <3>4, <4>2 DEF Says
      <4> QED BY <4>1, <4>2
    <3>5. ASSUME NEW p \in Ops, stage'[p] = "set", t = found[p].entry.turn, m = found[p].entry.text
          PROVE  Says(t, m)
      <4>1. stage[p] = "set" BY <1>4, <3>5
      <4> QED BY <3>5, <4>1 DEF Says
    <3> QED BY <1>1, <2>1, <3>1, <3>2, <3>3, <3>4, <3>5 DEF Says
  <2> QED BY <1>0, <2>1 DEF OneText
<1>11. OwnTurns' BY <1>0, <1>1 DEF OwnTurns
<1>12. RowsThere' BY <1>0, <1>1, <1>4, <1>6 DEF RowsThere, Through
<1> QED BY <1>8, <1>9, <1>10, <1>11, <1>12 DEF Settled

\* The message goes under an index above every one that is in use, because its turn has
\* the lock and has synchronised the counter.
LEMMA AppendSettled ==
  ASSUME Typed, Settled, NEW o \in Ops, AppendMessage(o)
  PROVE  Settled'
<1> DEFINE n == Len(turns[o]) + 1
           t == meta.turn + 1
           e == Entry(t, Messages(o)[n])
           w == Append(window, e)
           q == Append(turns[o], t)
           s == stage'[o]
<1>0. TypeOK /\ StagesFit /\ Exclusive /\ Ahead /\ OneText /\ OwnTurns /\ RowsThere
  BY DEF Typed, Settled
<1>1. /\ turns[o] \in Seq(Nat) /\ Messages(o) \in Seq(Texts) /\ meta \in Metas /\ window \in Seq(Entries)
      /\ stage \in [Ops -> Stages]
  BY <1>0, WindowAssumption DEF TypeOK
<1>2. meta.turn \in Nat /\ t \in Nat /\ meta.turn < t /\ meta.tokens + 1 \in Int BY <1>1 DEF Metas
<1>3. /\ stage[o] = "append" /\ Kind(o) = "turn" /\ Len(turns[o]) < Len(Messages(o))
      /\ lock = o /\ RowsUpTo(meta.turn) /\ CopiesUpTo(meta.turn)
  BY <1>0 DEF AppendMessage, Moves, StagesFit, KindFits, TurnsFit, Exclusive, Ahead, Locked
<1>4. n \in 1..Len(Messages(o)) /\ Messages(o)[n] \in Texts
  BY <1>1, <1>3, LenProperties, ElementOfSeq
<1>5. e \in Entries /\ e.turn = t /\ e.text = Messages(o)[n] BY <1>2, <1>4 DEF Entry, Entries
<1>6. /\ w \in Seq(Entries) /\ DOMAIN w = 1 .. Len(window) + 1 /\ Len(window) \in Nat
      /\ \A i \in 1 .. Len(window) : w[i] = window[i]
      /\ w[Len(window) + 1] = e /\ DOMAIN window = 1 .. Len(window)
  BY <1>1, <1>5, AppendProperties, LenProperties
<1>7. /\ DOMAIN q = 1 .. n /\ DOMAIN turns[o] = 1 .. Len(turns[o]) /\ Len(turns[o]) \in Nat
      /\ \A i \in 1 .. Len(turns[o]) : q[i] = turns[o][i]
      /\ q[n] = t
  BY <1>1, <1>2, AppendProperties, LenProperties
<1>8. \A i \in DOMAIN q : \/ i = n /\ q[i] = t
                          \/ i \in DOMAIN turns[o] /\ q[i] = turns[o][i]
  BY <1>7
<1>9. /\ window' = Trimmed(w) /\ turns' = [turns EXCEPT ![o] = q]
      /\ meta' = [meta EXCEPT !.turn = t, !.tokens = meta.tokens + 1]
  BY DEF AppendMessage
<1>10. UNCHANGED <<rows, lock, seen, found, task>> BY DEF AppendMessage, dbVars
<1>11. stage' = [stage EXCEPT ![o] = s] /\ s \in {"append", "full", "unlock"}
  BY <1>1 DEF AppendMessage, Moves
<1> HIDE DEF n, t, e, w, q, s
<1>12. meta'.turn = t BY <1>1, <1>2, <1>9 DEF Metas
<1>13. \A i \in DOMAIN window' : window'[i] = e \/ \E j \in DOMAIN window : window'[i] = window[j]
  <2>1. \A i \in DOMAIN window' : \E j \in DOMAIN w : window'[i] = w[j] BY <1>6, <1>9, TrimmedKeeps
  <2>2. \A j \in DOMAIN w : w[j] = e \/ \E h \in DOMAIN window : w[j] = window[h] BY <1>6
  <2> QED BY <2>1, <2>2
<1>14. \A p \in Ops : stage'[p] = IF p = o THEN s ELSE stage[p] BY <1>1, <1>11
<1>15. \A p \in Ops : turns'[p] = IF p = o THEN q ELSE turns[p] BY <1>0, <1>9 DEF TypeOK
<1>16. \A p \in Ops : p # o => ~(Kind(p) = "turn" /\ stage[p] \in Locked) BY <1>0, <1>3 DEF Exclusive
<1>17. Exclusive' BY <1>0, <1>3, <1>10, <1>11, <1>14 DEF Exclusive
<1>18. Ahead'
  <2>1. \A i \in DOMAIN window' : window'[i].turn <= t
    <3>1. \A j \in DOMAIN window : window[j].turn \in Nat /\ window[j].turn <= meta.turn
      BY <1>0, <1>3, WindowTurns DEF CopiesUpTo
    <3> QED BY <1>2, <1>5, <1>13, <3>1
  <2>2. CopiesUpTo(t) BY <1>0, <1>2, <1>3, BoundsGrow
  <2>3. \A p \in Ops : \A i \in DOMAIN turns'[p] : turns'[p][i] <= t
    BY <1>2, <1>8, <1>15, <2>2 DEF CopiesUpTo
  <2>4. \A p \in Ops : stage'[p] = "set" => stage[p] = "set" BY <1>11, <1>14
  <2>5. \A p \in Ops : /\ \A i \in DOMAIN task'[p].window : task'[p].window[i].turn <= t
                       /\ stage'[p] = "set" => found'[p].entry.turn <= t
    BY <1>10, <2>2, <2>4 DEF CopiesUpTo
  <2>6. CopiesUpTo(meta.turn)' BY <1>12, <2>1, <2>3, <2>5 DEF CopiesUpTo
  <2>7. RowsUpTo(t) BY <1>0, <1>2, <1>3, BoundsGrow
  <2>8. ASSUME NEW p \in Ops
        PROVE  /\ stage'[p] \notin {"compare", "raise"}
               /\ Kind(p) = "turn" /\ stage'[p] \in Locked => RowsUpTo(t)
    <3>1. CASE p = o BY <1>11, <1>14, <2>7, <3>1
    <3>2. CASE p # o BY <1>0, <1>14, <1>16, <3>2 DEF StagesFit, KindFits, Locked
    <3> QED BY <3>1, <3>2
  <2> QED BY <1>10, <1>12, <2>6, <2>8 DEF Ahead, RowsUpTo
<1>19. OneText'
  <2>1. ASSUME NEW k \in Nat, NEW m \in Texts, Says(k, m)'
        PROVE  (k = t /\ m = Messages(o)[n]) \/ (k # t /\ Says(k, m))
    <3>1. ASSUME Says(k, m) PROVE k # t
      <4>1. \A j \in DOMAIN rows : j # t BY <1>0, <1>2, <1>3 DEF RowsUpTo, TypeOK
      <4>2. \A j \in DOMAIN window : window[j].turn # t BY <1>0, <1>2, <1>3, WindowTurns DEF CopiesUpTo
      <4>3. ASSUME NEW p \in Ops
            PROVE  /\ \A i \in DOMAIN turns[p] : turns[p][i] # t
                   /\ \A i \in DOMAIN task[p].window : task[p].window[i].turn # t
                   /\ stage[p] = "set" => found[p].entry.turn # t
        <5>1. \A i \in DOMAIN turns[p] : turns[p][i] # t
          <6>1. turns[p] \in Seq(Nat) BY <1>0 DEF TypeOK
          <6>2. \A i \in DOMAIN turns[p] : turns[p][i] \in Nat BY <6>1, LenProperties, ElementOfSeq
          <6> QED BY <1>2, <1>3, <6>2 DEF CopiesUpTo
        <5>2. \A i \in DOMAIN task[p].window : task[p].window[i].turn # t
          BY <1>0, <1>2, <1>3, TaskTurns DEF CopiesUpTo
        <5>3. stage[p] = "set" => found[p].entry.turn # t
          BY <1>0, <1>2, <1>3 DEF CopiesUpTo, TypeOK, Entries
        <5> QED BY <5>1, <5>2, <5>3
      <4> QED BY <3>1, <4>1, <4>2, <4>3 DEF Says
    <3>2. CASE k \in DOMAIN rows' /\ m = rows'[k]
      <4>1. Says(k, m) BY <1>10, <3>2 DEF Says
      <4> QED BY <3>1, <4>1
    <3>3. ASSUME NEW i \in DOMAIN window', k = window'[i].turn, m = window'[i].text
          PROVE  (k = t /\ m = Messages(o)[n]) \/ Says(k, m)
      <4>1. CASE window'[i] = e BY <1>5, <3>3, <4>1
      <4>2. CASE \E j \in DOMAIN window : window'[i] = window[j] BY <3>3, <4>2 DEF Says
      <4> QED BY <1>13, <4>1, <4>2
    <3>4. ASSUME NEW p \in Ops, NEW i \in DOMAIN turns'[p], k = turns'[p][i], m = Messages(p)[i]
          PROVE  (k = t /\ m = Messages(o)[n]) \/ Says(k, m)
      <4>1. CASE p = o /\ i = n
        <5>1. turns'[o][n] = t BY <1>7, <1>15
        <5>2. k = turns'[o][n] /\ m = Messages(o)[n] BY <3>4, <4>1
        <5> QED BY <5>1, <5>2
      <4>2. CASE i \in DOMAIN turns[p] /\ turns'[p][i] = turns[p][i] BY <3>4, <4>2 DEF Says
      <4>3. (p = o /\ i = n) \/ (i \in DOMAIN turns[p] /\ turns'[p][i] = turns[p][i]) BY <1>8, <1>15, <3>4
      <4> QED BY <4>1, <4>2, <4>3
    <3>5. ASSUME NEW p \in Ops,
                 \/ \E i \in DOMAIN task[p].window : k = task[p].window[i].turn /\ m = task[p].window[i].text
                 \/ stage[p] = "set" /\ k = found[p].entry.turn /\ m = found[p].entry.text
          PROVE  Says(k, m)
      BY <3>5 DEF Says
    <3>6. \A p \in Ops : stage'[p] = "set" => stage[p] = "set" BY <1>11, <1>14
    <3>7. (k = t /\ m = Messages(o)[n]) \/ Says(k, m)
      BY <1>10, <2>1, <3>2, <3>3, <3>4, <3>5, <3>6 DEF Says
    <3> QED BY <3>1, <3>7
  <2>2. ASSUME NEW k \in Nat, NEW m \in Texts, NEW l \in Texts, Says(k, m)', Says(k, l)' PROVE m = l
    <3>1. CASE k = t BY <2>1, <2>2, <3>1
    <3>2. CASE k # t
      <4>1. Says(k, m) /\ Says(k, l) BY <2>1, <2>2, <3>2
      <4> QED BY <1>0, <4>1 DEF OneText
    <3> QED BY <3>1, <3>2
  <2> QED BY <2>2 DEF OneText
<1>20. OwnTurns'
  <2>1. \A p \in Ops : \A i \in DOMAIN turns[p] : turns[p][i] # t
    <3>1. \A p \in Ops : \A i \in DOMAIN turns[p] : turns[p][i] \in Nat
      BY <1>0, LenProperties, ElementOfSeq DEF TypeOK
    <3> QED BY <1>2, <1>3, <3>1 DEF CopiesUpTo
  <2>2. ASSUME NEW a \in Ops, NEW b \in Ops, a # b,
               NEW i \in DOMAIN turns'[a], NEW j \in DOMAIN turns'[b]
        PROVE  turns'[a][i] # turns'[b][j]
    <3>1. \/ a = o /\ turns'[a][i] = t
          \/ i \in DOMAIN turns[a] /\ turns'[a][i] = turns[a][i]
      BY <1>8, <1>15, <2>2
    <3>2. \/ b = o /\ turns'[b][j] = t
          \/ j \in DOMAIN turns[b] /\ turns'[b][j] = turns[b][j]
      BY <1>8, <1>15, <2>2
    <3> QED BY <1>0, <2>1, <2>2, <3>1, <3>2 DEF OwnTurns
  <2> QED BY <2>2 DEF OwnTurns
<1>21. RowsThere' BY <1>0, <1>10, <1>11, <1>14, <1>15 DEF RowsThere, Through
<1> QED BY <1>17, <1>18, <1>19, <1>20, <1>21 DEF Settled

\* The rows that a turn inserts have the indexes it was given.
LEMMA InsertSettled ==
  ASSUME Typed, Settled, NEW o \in Ops, Insert(o)
  PROVE  Settled'
<1>0. TypeOK /\ StagesFit /\ Exclusive /\ Ahead /\ OneText /\ OwnTurns /\ RowsThere
  BY DEF Typed, Settled
<1>1. stage[o] = "insert" /\ stage' = [stage EXCEPT ![o] = AfterInsert(o)] /\ AfterInsert(o) \in {"done", "find"}
  BY DEF Insert, Moves, AfterInsert
<1>2. UNCHANGED <<window, meta, lock, turns, seen, found, task>> BY DEF Insert, redisVars, opVars
<1>3. turns[o] \in Seq(Nat) /\ Len(turns[o]) <= Len(Messages(o)) BY <1>0 DEF TypeOK, StagesFit, TurnsFit
<1>4. /\ DOMAIN RowsOf(o) = ToSet(turns[o]) /\ ToSet(turns[o]) \subseteq Nat
      /\ \A t \in DOMAIN RowsOf(o) :
           \E i \in DOMAIN turns[o] : t = turns[o][i] /\ RowsOf(o)[t] = Messages(o)[i]
  BY <1>3, RowsOfTurn
<1>5. rows' = Inserted(rows, RowsOf(o)) BY DEF Insert
<1>6. DOMAIN rows' = DOMAIN rows \cup ToSet(turns[o])
  <2>1. DOMAIN Inserted(rows, RowsOf(o)) = DOMAIN rows \cup DOMAIN RowsOf(o) BY InsertedRows
  <2> QED BY <1>4, <1>5, <2>1, Zenon
<1>7. \A t \in DOMAIN rows' : \/ t \in DOMAIN rows /\ rows'[t] = rows[t]
                              \/ \E i \in DOMAIN turns[o] : t = turns[o][i] /\ rows'[t] = Messages(o)[i]
  <2>1. \A t \in DOMAIN Inserted(rows, RowsOf(o)) :
           \/ t \in DOMAIN rows /\ Inserted(rows, RowsOf(o))[t] = rows[t]
           \/ t \in DOMAIN RowsOf(o) /\ Inserted(rows, RowsOf(o))[t] = RowsOf(o)[t]
    BY InsertedRows
  <2>2. \A t \in DOMAIN rows' : \/ t \in DOMAIN rows /\ rows'[t] = rows[t]
                                \/ t \in DOMAIN RowsOf(o) /\ rows'[t] = RowsOf(o)[t]
    BY <1>5, <2>1, Zenon
  <2> QED BY <1>4, <2>2
<1>8. \A p \in Ops : stage'[p] = IF p = o THEN AfterInsert(o) ELSE stage[p]
  BY <1>0, <1>1 DEF TypeOK
<1>9. \A p \in Ops : \/ stage'[p] = stage[p]
                     \/ p = o /\ stage'[p] \in {"done", "find"}
  BY <1>1, <1>8
<1>10. Exclusive' BY <1>0, <1>2, <1>9 DEF Exclusive, Locked
<1>11. meta.turn \in Nat /\ CopiesUpTo(meta.turn) BY <1>0 DEF TypeOK, Metas, Ahead
<1>12. Ahead'
  <2>1. \A p \in Ops : stage'[p] = "set" => stage[p] = "set" BY <1>9
  <2>2. CopiesUpTo(meta.turn)' BY <1>2, <1>11, <2>1 DEF CopiesUpTo
  <2>3. ASSUME NEW n \in Nat, meta.turn <= n, RowsUpTo(n) PROVE \A t \in DOMAIN rows' : t <= n
    <3>1. \A t \in ToSet(turns[o]) : t \in Nat /\ t <= meta.turn BY <1>4, <1>11 DEF CopiesUpTo, ToSet
    <3> QED BY <1>6, <1>11, <2>3, <3>1 DEF RowsUpTo
  <2>4. ASSUME NEW p \in Ops
        PROVE  /\ stage'[p] = "compare" => seen'[p] = meta'.turn
               /\ stage'[p] = "raise" => meta'.turn <= seen'[p] /\ \A t \in DOMAIN rows' : t <= seen'[p]
               /\ Kind(p) = "turn" /\ stage'[p] \in Locked \ {"read", "compare", "raise"}
                  => \A t \in DOMAIN rows' : t <= meta'.turn
    <3>1. stage'[p] = "compare" => seen'[p] = meta'.turn BY <1>0, <1>2, <1>9 DEF Ahead
    <3>2. ASSUME stage'[p] = "raise" PROVE meta'.turn <= seen'[p] /\ \A t \in DOMAIN rows' : t <= seen'[p]
      <4>1. stage[p] = "raise" BY <1>9, <3>2
      <4>2. seen[p] \in Nat /\ meta.turn <= seen[p] /\ RowsUpTo(seen[p]) BY <1>0, <4>1 DEF Ahead, TypeOK
      <4> QED BY <1>2, <2>3, <4>2
    <3>3. ASSUME Kind(p) = "turn", stage'[p] \in Locked \ {"read", "compare", "raise"}
          PROVE  \A t \in DOMAIN rows' : t <= meta'.turn
      <4>1. stage[p] \in Locked \ {"read", "compare", "raise"} BY <1>9, <3>3 DEF Locked
      <4>2. RowsUpTo(meta.turn) BY <1>0, <3>3, <4>1 DEF Ahead
      <4> QED BY <1>2, <1>11, <2>3, <4>2
    <3> QED BY <3>1, <3>2, <3>3
  <2> QED BY <2>2, <2>4 DEF Ahead, RowsUpTo
<1>13. OneText'
  <2>1. ASSUME NEW t \in Nat, NEW m \in Texts, Says(t, m)' PROVE Says(t, m)
    <3>1. CASE t \in DOMAIN rows' /\ m = rows'[t] BY <1>7, <3>1 DEF Says
    <3>2. \A p \in Ops : stage'[p] = "set" => stage[p] = "set" BY <1>9
    <3>3. CASE ~(t \in DOMAIN rows' /\ m = rows'[t]) BY <1>2, <2>1, <3>2, <3>3 DEF Says
    <3> QED BY <3>1, <3>3
  <2> QED BY <1>0, <2>1 DEF OneText
<1>14. OwnTurns' BY <1>0, <1>2 DEF OwnTurns
<1>15. RowsThere'
  <2>1. \A i \in DOMAIN turns[o] : turns[o][i] \in DOMAIN rows' BY <1>6 DEF ToSet
  <2> QED BY <1>0, <1>2, <1>6, <1>9, <2>1 DEF RowsThere
<1> QED BY <1>10, <1>12, <1>13, <1>14, <1>15 DEF Settled

\* A deletion reads an entry of the window, and writes it back.
LEMMA FindSettled ==
  ASSUME Typed, Settled, NEW o \in Ops, Find(o)
  PROVE  Settled'
<1> DEFINE hits == {i \in DOMAIN window : window[i].turn = Target(o) /\ ~window[i].deleted}
           s == stage'[o]
<1>0. TypeOK /\ StagesFit /\ Exclusive /\ Ahead /\ OneText /\ OwnTurns /\ RowsThere
  BY DEF Typed, Settled
<1>1. UNCHANGED <<window, meta, rows, lock, turns, seen, task>> BY DEF Find, redisVars, dbVars
<1>2. /\ stage[o] = "find" \/ (stage[o] = "idle" /\ Kind(o) # "turn")
      /\ s \in {"set", "hide", "done"} /\ stage' = [stage EXCEPT ![o] = s]
  BY <1>0 DEF Find, Moves, AfterDelete, TypeOK
<1>3. s = "set" => \E i \in DOMAIN window : found'[o].entry = window[i]
  <2> SUFFICES ASSUME s = "set" PROVE \E i \in DOMAIN window : found'[o].entry = window[i] OBVIOUS
  <2>1. hits # {} BY <1>0 DEF Find, Moves, AfterDelete, TypeOK
  <2>2. hits \in SUBSET Nat BY <1>0, WindowTurns
  <2>3. Min(hits) \in hits BY <2>1, <2>2, LeastNat
  <2>4. found' = [found EXCEPT ![o] = [place |-> Min(hits), entry |-> window[Min(hits)]]] BY <2>1 DEF Find
  <2>5. found'[o].entry = window[Min(hits)] BY <1>0, <2>4 DEF TypeOK
  <2> QED BY <2>3, <2>5
<1>4. \A p \in Ops : p # o => found'[p] = found[p] BY <1>0 DEF Find, TypeOK
<1> HIDE DEF s
<1>5. \A p \in Ops : stage'[p] = IF p = o THEN s ELSE stage[p] BY <1>0, <1>2 DEF TypeOK
<1>6. Exclusive' BY <1>0, <1>1, <1>2, <1>5 DEF Exclusive, Locked
<1>7. \A p \in Ops : stage'[p] = "set" =>
        \/ p = o /\ \E i \in DOMAIN window : found'[p].entry = window[i]
        \/ p # o /\ stage[p] = "set" /\ found'[p] = found[p]
  BY <1>3, <1>4, <1>5
<1>8. Ahead'
  <2>1. CopiesUpTo(meta.turn)' BY <1>0, <1>1, <1>7 DEF Ahead, CopiesUpTo
  <2> QED BY <1>0, <1>1, <1>2, <1>5, <2>1 DEF Ahead, RowsUpTo, Locked
<1>9. OneText'
  <2>1. ASSUME NEW t \in Nat, NEW m \in Texts, Says(t, m)' PROVE Says(t, m)
    <3>1. ASSUME NEW p \in Ops, stage'[p] = "set", t = found'[p].entry.turn, m = found'[p].entry.text
          PROVE  Says(t, m)
      BY <1>7, <3>1 DEF Says
    <3> QED BY <1>1, <2>1, <3>1 DEF Says
  <2> QED BY <1>0, <2>1 DEF OneText
<1>10. OwnTurns' BY <1>0, <1>1 DEF OwnTurns
<1>11. RowsThere'
  <2> SUFFICES ASSUME NEW p \in Ops, stage'[p] \in Through
               PROVE  \A i \in DOMAIN turns[p] : turns[p][i] \in DOMAIN rows
    BY <1>1 DEF RowsThere
  <2>1. CASE stage[p] \in Through BY <1>0, <2>1 DEF RowsThere
  <2>2. CASE stage[p] \notin Through
    <3>1. Kind(p) # "turn" BY <1>2, <1>5, <2>2 DEF Through
    <3>2. turns[p] = <<>> BY <1>0, <3>1 DEF StagesFit, TurnsFit
    <3> QED BY <3>2, EmptySeq
  <2> QED BY <2>1, <2>2
<1> QED BY <1>6, <1>8, <1>9, <1>10, <1>11 DEF Settled

\* Wherever LSET writes the entry, it says under its index what was said there.
LEMMA SetSettled ==
  ASSUME Typed, Settled, NEW o \in Ops, SetDeleted(o)
  PROVE  Settled'
<1>0. TypeOK /\ StagesFit /\ Exclusive /\ Ahead /\ OneText /\ OwnTurns /\ RowsThere
  BY DEF Typed, Settled
<1>1. UNCHANGED <<meta, rows, lock, turns, seen, found, task>> BY DEF SetDeleted, dbVars, opVars
<1>2. PICK s \in {"discount", "hide", "done"} : stage' = [stage EXCEPT ![o] = s]
  BY DEF SetDeleted, Moves, AfterDelete
<1>3. stage[o] = "set" BY DEF SetDeleted, Moves
<1>4. \A p \in Ops : \/ stage'[p] = stage[p]
                     \/ stage[p] \in Through /\ stage'[p] \in Through \ {"set"}
  BY <1>0, <1>2, <1>3 DEF TypeOK, Through
<1>5. \A i \in DOMAIN window' :
        \/ \E j \in DOMAIN window : window'[i] = window[j]
        \/ window'[i].turn = found[o].entry.turn /\ window'[i].text = found[o].entry.text
  BY SetKeeps
<1>6. Exclusive' BY <1>0, <1>1, <1>4 DEF Exclusive, Locked, Through
<1>7. \A p \in Ops : stage'[p] = "set" => stage[p] = "set" BY <1>4
<1>8. Ahead'
  <2>1. \A i \in DOMAIN window' : window'[i].turn <= meta.turn BY <1>0, <1>3, <1>5 DEF Ahead, CopiesUpTo
  <2>2. CopiesUpTo(meta.turn)' BY <1>0, <1>1, <1>7, <2>1 DEF Ahead, CopiesUpTo
  <2> QED BY <1>0, <1>1, <1>4, <2>2 DEF Ahead, RowsUpTo, Locked, Through
<1>9. OneText'
  <2>1. ASSUME NEW t \in Nat, NEW m \in Texts, Says(t, m)' PROVE Says(t, m)
    <3>1. ASSUME NEW i \in DOMAIN window', t = window'[i].turn, m = window'[i].text PROVE Says(t, m)
      BY <1>3, <1>5, <3>1 DEF Says
    <3> QED BY <1>1, <1>7, <2>1, <3>1 DEF Says
  <2> QED BY <1>0, <2>1 DEF OneText
<1>10. OwnTurns' BY <1>0, <1>1 DEF OwnTurns
<1>11. RowsThere' BY <1>0, <1>1, <1>4 DEF RowsThere
<1> QED BY <1>6, <1>8, <1>9, <1>10, <1>11 DEF Settled

\* A lock that runs out after its turn's end, or nothing happens.
LEMMA ExpirySettled ==
  ASSUME Typed, Settled, calm', LockExpires \/ UNCHANGED vars
  PROVE  Settled'
<1>0. TypeOK /\ Exclusive /\ Ahead /\ OneText /\ OwnTurns /\ RowsThere
  BY DEF Typed, Settled
<1>1. UNCHANGED <<window, meta, rows, turns, seen, found, task, stage>>
  BY DEF LockExpires, vars, redisVars, dbVars, opVars
<1>2. Exclusive'
  <2>1. CASE LockExpires
    <3>1. stage[lock] \notin Locked BY <2>1 DEF LockExpires
    <3> QED BY <1>0, <1>1, <3>1 DEF Exclusive
  <2>2. CASE UNCHANGED vars BY <1>0, <2>2 DEF Exclusive, vars
  <2> QED BY <2>1, <2>2
<1>3. Ahead' BY <1>0, <1>1 DEF Ahead, CopiesUpTo, RowsUpTo
<1>4. OneText'
  <2>1. \A t \in Nat, m \in Texts : Says(t, m)' => Says(t, m) BY <1>1 DEF Says
  <2> QED BY <1>0, <2>1 DEF OneText
<1>5. OwnTurns' /\ RowsThere' BY <1>0, <1>1 DEF OwnTurns, RowsThere
<1> QED BY <1>2, <1>3, <1>4, <1>5 DEF Settled

\* Once calm is lost it stays lost.
LEMMA CalmBefore == [Next]_vars /\ calm' => calm
BY DEF Next, Works, Turn, Delete, Idle, Asks, Summarize, Acquire, GiveUp, ReadTurn, Compare, Raise,
  SyncFails, AppendMessage, CheckBusy, MarkBusy, Dispatch, MarkAgain, AppendFails, Release, Touch,
  Reserve, Insert, Find, SetDeleted, Discount, DeleteFails, Hide, Clear, IdleSkips, IdleRead,
  IdleSummary, IdleFails, Load, LoadNothing, SummarizeFails, TaskEnds, Cache, Persist, Close, Crash,
  WorkerCrash, LockExpires, vars

\* Every step of a calm session leaves it settled.
LEMMA SettledStep == IInv /\ [Next]_vars => (calm' => Settled')
<1> SUFFICES ASSUME IInv, [Next]_vars, calm' PROVE Settled' OBVIOUS
<1>1. Typed /\ Settled BY CalmBefore DEF IInv
<1>2. ASSUME NEW o \in Ops, Turn(o) PROVE Settled'
  <2>1. ~SyncFails(o) /\ ~AppendFails(o) BY DEF SyncFails, AppendFails
  <2>2. ~Reserve(o) BY <1>1 DEF Reserve, Moves, Settled, Exclusive
  <2> QED BY <1>1, <1>2, <2>1, <2>2, CalmSteps, CalmlySettled, AppendSettled, InsertSettled DEF Turn
<1>3. ASSUME NEW o \in Ops, Delete(o) PROVE Settled'
  BY <1>1, <1>3, CalmSteps, CalmlySettled, FindSettled, SetSettled DEF Delete
<1>4. ASSUME NEW o \in Ops PROVE ~Clear(o) BY DEF Clear
<1>5. ASSUME NEW o \in Ops, Idle(o) PROVE Settled'
  BY <1>1, <1>5, CalmSteps, CalmlySettled DEF Idle
<1>6. ASSUME NEW o \in Ops, Asks(o) PROVE Settled'
  <2>1. ASSUME Dispatch(o) PROVE Settled'
    <3>1. stage[o] = "dispatch" BY <2>1 DEF Dispatch, Moves
    <3> QED BY <1>1, <2>1, <3>1, TaskSteps, TaskStepSettled
  <2> QED BY <1>1, <1>6, <2>1, CalmSteps, CalmlySettled DEF Asks
<1>7. ASSUME NEW o \in Ops, Summarize(o) \/ WorkerCrash(o) PROVE Settled'
  BY <1>1, <1>7, TaskSteps, TaskStepSettled
<1>8. ASSUME NEW o \in Ops, Crash(o) PROVE Settled' BY <1>1, <1>8, CalmSteps, CalmlySettled
<1> QED BY <1>1, <1>2, <1>3, <1>4, <1>5, <1>6, <1>7, <1>8, ExpirySettled DEF Next, Works

\* The inductive invariant.
LEMMA Invariance == Spec => []IInv
<1>1. Init => IInv BY TypedInit, SettledInit DEF IInv
<1>2. IInv /\ [Next]_vars => IInv' BY TypedStep, SettledStep DEF IInv
<1> QED BY <1>1, <1>2, PTL DEF Spec

\* Whatever turns, deletions, idle checks and summarize tasks there are and however they
\* interleave, in a session nobody clears and whose synchronisation and appends do not
\* fail every message of a turn that is through is in the database under its index.
THEOREM EveryMessagePersisted == Spec => []Persisted
<1>1. IInv => Persisted
  <2> SUFFICES ASSUME IInv, calm, NEW o \in Ops, stage[o] \in Through, NEW i \in DOMAIN turns[o]
               PROVE  rows[turns[o][i]] = Messages(o)[i]
    BY DEF Persisted, Through
  <2> DEFINE t == turns[o][i]
  <2>1. TypeOK /\ StagesFit /\ OneText /\ RowsThere BY DEF IInv, Typed, Settled
  <2>2. t \in DOMAIN rows /\ t \in Nat /\ rows[t] \in Texts BY <2>1 DEF RowsThere, TypeOK
  <2>3. Messages(o)[i] \in Texts
    <3>1. turns[o] \in Seq(Nat) /\ Len(turns[o]) <= Len(Messages(o)) /\ Messages(o) \in Seq(Texts)
      BY <2>1, WindowAssumption DEF TypeOK, StagesFit, TurnsFit
    <3>2. i \in 1 .. Len(Messages(o)) BY <3>1, LenProperties
    <3> QED BY <3>1, <3>2, LenProperties, ElementOfSeq
  <2>4. Says(t, rows[t]) /\ Says(t, Messages(o)[i]) BY <2>2 DEF Says
  <2> QED BY <2>1, <2>2, <2>3, <2>4 DEF OneText
<1> QED BY <1>1, Invariance, PTL

\* In such a session what the window shows under an index is what the history has under
\* it, and no index is given to two turns.
THEOREM WindowAgrees == Spec => []TurnsAgree
<1>1. IInv => TurnsAgree
  <2> SUFFICES ASSUME IInv, calm
               PROVE  /\ \A i \in DOMAIN window :
                           window[i].turn \in DOMAIN rows => window[i].text = rows[window[i].turn]
                      /\ \A o, p \in Ops : o # p => ToSet(turns[o]) \cap ToSet(turns[p]) = {}
    BY DEF TurnsAgree
  <2>1. TypeOK /\ OneText /\ OwnTurns BY DEF IInv, Typed, Settled
  <2>2. ASSUME NEW i \in DOMAIN window, window[i].turn \in DOMAIN rows
        PROVE  window[i].text = rows[window[i].turn]
    <3> DEFINE t == window[i].turn
    <3>1. t \in Nat /\ window[i].text \in Texts /\ rows[t] \in Texts
      BY <2>1, <2>2, WindowTurns DEF TypeOK, Entries
    <3>2. Says(t, rows[t]) /\ Says(t, window[i].text) BY <2>2 DEF Says
    <3> QED BY <2>1, <3>1, <3>2 DEF OneText
  <2>3. \A o, p \in Ops : o # p => ToSet(turns[o]) \cap ToSet(turns[p]) = {}
    BY <2>1 DEF OwnTurns, ToSet
  <2> QED BY <2>2, <2>3
<1> QED BY <1>1, Invariance, PTL

-----------------------------------------------------------------------------
(* The history *)

\* bulk_insert_messages and _persist_summary are the only writers of the table.
LEMMA RowsWritten ==
  ASSUME [Next]_vars
  PROVE  rows' = rows \/ \E g : rows' = Inserted(rows, g)
<1>1. CASE UNCHANGED vars
  BY <1>1 DEF vars, dbVars
<1>2. ASSUME NEW o \in Ops, Turn(o) PROVE rows' = rows \/ \E g : rows' = Inserted(rows, g)
  BY <1>2 DEF Turn, Acquire, GiveUp, ReadTurn, Compare, Raise, SyncFails, AppendMessage, CheckBusy,
     MarkBusy, AppendFails, Release, Touch, Reserve, Insert, Hide, dbVars
<1>3. ASSUME NEW o \in Ops, Delete(o) \/ Clear(o) \/ Idle(o) \/ Asks(o) PROVE rows' = rows
  BY <1>3 DEF Delete, Find, SetDeleted, Discount, DeleteFails, Clear, Idle, IdleSkips, IdleRead,
     IdleSummary, IdleFails, Asks, Dispatch, MarkAgain, dbVars
<1>4. ASSUME NEW o \in Ops, Summarize(o) PROVE rows' = rows \/ \E g : rows' = Inserted(rows, g)
  BY <1>4 DEF Summarize, Load, LoadNothing, SummarizeFails, TaskEnds, Cache, Persist, Close, dbVars
<1>5. ASSUME NEW o \in Ops, Crash(o) \/ WorkerCrash(o) PROVE rows' = rows
  BY <1>5 DEF Crash, WorkerCrash, dbVars
<1>6. CASE LockExpires
  BY <1>6 DEF LockExpires, dbVars
<1> QED
  BY <1>1, <1>2, <1>3, <1>4, <1>5, <1>6 DEF Next, Works

\* No operation, task, fault or crash ever changes or removes a stored message.
THEOREM HistoryIsKept == Spec => HistoryKept
<1> DEFINE kept == \A t \in DOMAIN rows : t \in DOMAIN rows' /\ rows'[t] = rows[t]
<1>1. [Next]_vars => [kept]_vars
  BY RowsWritten, OldRowsWin
<1> HIDE DEF kept
<1>2. [][Next]_vars => [][kept]_vars
  BY <1>1, PTL
<1> QED
  BY <1>2, PTL DEF Spec, HistoryKept, kept
=============================================================================
