---------------------------- MODULE AccessProofs ----------------------------
(***************************************************************************)
(* Proofs about MCAccess, for any keys, users, requests, orders and bounds *)
(* (AccessAssumption): what it decides lasts (DecisionsLast), and nobody   *)
(* gets in on what was spent or revoked (AdmittedRightly).                 *)
(*                                                                         *)
(* One section a component: an invariant of its own (KeyInv, LimitInv,     *)
(* SessInv, SignInv, DeskInv, PaidInv, MarketInv, KnowInv), which relates  *)
(* what requests in progress hold to the rows they will write, and the     *)
(* lemmas that it starts, that each step keeps it, and what follows. The   *)
(* last section joins them: AccessInv is all of them together, since a     *)
(* step of one component leaves the variables of the others alone.         *)
(***************************************************************************)
EXTENDS MCAccess, FiniteSetTheorems, TLAPS

-----------------------------------------------------------------------------
(* API keys: what is withdrawn stays so, whatever rows a desk has read. *)

\* Rows keep their types, and the rows a user's request writes back revive no key.
KeyInv ==
  /\ Key!TypeOK
  /\ desk.route = "user" =>
       \A k \in DOMAIN desk.rows :
         keyRow[k].status # "none" /\ ~Key!Usable(keyRow[k])
           => desk.rows[k].status # "none" /\ ~Key!Usable(desk.rows[k])

\* It holds before anything was written.
LEMMA KeyInit == Key!Init => KeyInv
<1> SUFFICES ASSUME Key!Init PROVE KeyInv OBVIOUS
<1>1. desk.route = "none" /\ DOMAIN desk.rows = {} BY DEF Key!Init, Key!Closed
<1>2. keyRow \in [Keys -> Key!Row] BY DEF Key!Init, Key!Row, Key!Status, Key!Expiry
<1>3. /\ principal \in [Keys -> BOOLEAN] /\ sigFails \in [Keys -> 0..FailThreshold]
      /\ frozen \in [Keys -> BOOLEAN]
  <2>1. FailThreshold \in Nat BY AccessAssumption DEF AccessAssumption
  <2> QED BY <2>1 DEF Key!Init
<1>4. caller \in [Callers -> [at : {"idle", "fill", "check", "sign", "accepted", "refused"},
                             key : Keys \cup {Key!NoKey}]]
  BY DEF Key!Init, Key!Waiting
<1> QED BY <1>1, <1>2, <1>3, <1>4 DEF KeyInv, Key!TypeOK

\* A transaction that flushes rows of the table.
LEMMA KeyFlush ==
  ASSUME KeyInv, NEW d \in Key!Desks, NEW rows, Key!Flush(d, rows),
         DOMAIN rows \subseteq Keys, \A k \in DOMAIN rows : rows[k] \in Key!Row,
         d = "user" => \A k \in DOMAIN rows :
           keyRow[k].status # "none" /\ ~Key!Usable(keyRow[k])
             => rows[k].status # "none" /\ ~Key!Usable(rows[k])
  PROVE  KeyInv'
<1>1. desk'.route = d /\ desk'.rows = rows BY DEF Key!Flush
<1> QED BY <1>1 DEF Key!Flush, KeyInv, Key!TypeOK, Key!Usable

\* Each operation on keys keeps it.
LEMMA KeyStep == KeyInv /\ Key!Next => KeyInv'
<1> SUFFICES ASSUME KeyInv, Key!Next PROVE KeyInv' OBVIOUS
<1>1. ASSUME NEW k \in Keys PROVE keyRow[k] \in Key!Row BY DEF KeyInv, Key!TypeOK
<1>2. ASSUME NEW k \in Keys, NEW d \in Key!Desks, Key!GenerateKey(d, k) PROVE KeyInv'
  <2>1. PICK e \in {"never", "later"} :
          Key!Flush(d, Key!Only(k, [status |-> "active", expires |-> e, secret |-> TRUE]))
    BY <1>2 DEF Key!GenerateKey
  <2> DEFINE rows == Key!Only(k, [status |-> "active", expires |-> e, secret |-> TRUE])
  <2>2. DOMAIN rows = {k} /\ rows[k] \in Key!Row
    BY DEF Key!Only, Key!Row, Key!Status, Key!Expiry
  <2>3. keyRow[k].status = "none" BY <1>2 DEF Key!GenerateKey
  <2> HIDE DEF rows
  <2> QED BY <2>1, <2>2, <2>3, KeyFlush DEF rows
<1>3. ASSUME NEW k \in Keys, NEW d \in Key!Desks, NEW n \in Keys, Key!RotateKey(d, k, n)
      PROVE  KeyInv'
  <2> DEFINE rows == [j \in {k, n} |->
                 IF j = k THEN [keyRow[k] EXCEPT !.status = "expiring", !.expires = "later"]
                 ELSE [status |-> "active", expires |-> "later", secret |-> TRUE]]
  <2>1. Key!Flush(d, rows) /\ keyRow[n].status = "none" BY <1>3 DEF Key!RotateKey
  <2>2. DOMAIN rows = {k, n} /\ \A j \in {k, n} : rows[j] \in Key!Row
    BY <1>1 DEF Key!Row, Key!Status, Key!Expiry
  <2>3. rows[k].status = "expiring" BY <1>1 DEF Key!Row
  <2> HIDE DEF rows
  <2> QED BY <2>1, <2>2, <2>3, KeyFlush DEF Key!Usable
<1>4. ASSUME NEW k \in Keys, NEW d \in Key!Desks, NEW s \in {"revoked", "deleted"},
             Key!Flush(d, Key!Only(k, [keyRow[k] EXCEPT !.status = s]))
      PROVE  KeyInv'
  <2> DEFINE rows == Key!Only(k, [keyRow[k] EXCEPT !.status = s])
  <2>1. DOMAIN rows = {k} /\ rows[k] \in Key!Row /\ rows[k].status = s
    BY <1>1 DEF Key!Only, Key!Row, Key!Status
  <2> HIDE DEF rows
  <2> QED BY <1>4, <2>1, KeyFlush DEF rows, Key!Usable
<1>5. ASSUME NEW k \in Keys, Key!UpdateKey(k) PROVE KeyInv'
  <2> DEFINE rows == Key!Only(k, [keyRow[k] EXCEPT !.expires = "later"])
  <2>1. DOMAIN rows = {k} /\ rows[k] \in Key!Row BY <1>1 DEF Key!Only, Key!Row, Key!Expiry
  <2>2. Key!Flush("admin", rows) BY <1>5 DEF Key!UpdateKey
  <2> HIDE DEF rows
  <2> QED BY <2>1, <2>2, KeyFlush DEF Key!Desks
<1>6. CASE Key!CommitKeys
  <2>1. keyRow' \in [Keys -> Key!Row] BY <1>1, <1>6 DEF Key!CommitKeys, KeyInv, Key!TypeOK
  <2>2. desk'.route = "none" /\ DOMAIN desk'.rows = {} BY <1>6 DEF Key!CommitKeys, Key!Closed
  <2> QED BY <1>6, <2>1, <2>2 DEF Key!CommitKeys, KeyInv, Key!TypeOK
<1>7. CASE Key!CloseDesk
  <2>1. desk'.route = "none" /\ DOMAIN desk'.rows = {} BY <1>7 DEF Key!CloseDesk, Key!Closed
  <2> QED BY <1>7, <2>1 DEF Key!CloseDesk, KeyInv, Key!TypeOK
<1>8. ASSUME UNCHANGED <<keyRow, desk>>, principal' \in [Keys -> BOOLEAN],
             sigFails' \in [Keys -> 0..FailThreshold], frozen' \in [Keys -> BOOLEAN],
             caller' \in [Callers -> [at : {"idle", "fill", "check", "sign", "accepted", "refused"},
                                      key : Keys \cup {Key!NoKey}]]
      PROVE KeyInv'
  BY <1>8 DEF KeyInv, Key!TypeOK, Key!Usable
<1>9. /\ principal \in [Keys -> BOOLEAN] /\ sigFails \in [Keys -> 0..FailThreshold]
      /\ frozen \in [Keys -> BOOLEAN]
      /\ caller \in [Callers -> [at : {"idle", "fill", "check", "sign", "accepted", "refused"},
                                 key : Keys \cup {Key!NoKey}]]
  BY DEF KeyInv, Key!TypeOK
<1>10. CASE Key!BanOwner BY <1>8, <1>9, <1>10 DEF Key!BanOwner
<1>11. ASSUME NEW c \in Callers, NEW k \in Keys, Key!ValidateKey(c, k) PROVE KeyInv'
  <2>1. Key!Validate(k) \in {"check", "fill", "refused"} BY <1>9 DEF Key!Validate
  <2> QED BY <1>8, <1>9, <1>11, <2>1 DEF Key!ValidateKey
<1>12. ASSUME NEW c \in Callers, Key!CachePrincipal(c) PROVE KeyInv'
  BY <1>8, <1>9, <1>12 DEF Key!CachePrincipal, Key!Go, Key!At
<1>13. ASSUME NEW c \in Callers, Key!CheckKey(c) PROVE KeyInv'
  BY <1>8, <1>9, <1>13 DEF Key!CheckKey, Key!Refuse, Key!Go
<1>14. ASSUME NEW c \in Callers, Key!SignatureFails(c) PROVE KeyInv'
  <2>1. principal' \in [Keys -> BOOLEAN] BY <1>9, <1>14 DEF Key!SignatureFails
  <2>2. frozen' \in [Keys -> BOOLEAN] BY <1>9, <1>14 DEF Key!SignatureFails
  <2>3. sigFails' \in [Keys -> 0..FailThreshold]
    <3>1. FailThreshold \in Nat BY AccessAssumption DEF AccessAssumption
    <3> DEFINE k == caller[c].key
    <3>2. sigFails' = [sigFails EXCEPT ![k] = IF @ < FailThreshold THEN @ + 1 ELSE @]
      BY <1>14 DEF Key!SignatureFails
    <3> HIDE DEF k
    <3>3. sigFails \in [Keys -> 0..FailThreshold] BY <1>9
    <3>4. \A j \in Keys : sigFails'[j] \in 0..FailThreshold BY <3>1, <3>2, <3>3
    <3> QED BY <3>2, <3>3, <3>4
  <2> QED BY <1>8, <1>9, <1>14, <2>1, <2>2, <2>3 DEF Key!SignatureFails, Key!Refuse, Key!Go
<1>15. ASSUME NEW c \in Callers, Key!SignatureMatches(c) PROVE KeyInv'
  <2>1. FailThreshold \in Nat BY AccessAssumption DEF AccessAssumption
  <2>2. sigFails' \in [Keys -> 0..FailThreshold]
    <3> DEFINE k == caller[c].key
    <3>1. sigFails' = [sigFails EXCEPT ![k] = 0] BY <1>15 DEF Key!SignatureMatches
    <3>2. sigFails \in [Keys -> 0..FailThreshold] BY <1>9
    <3> HIDE DEF k
    <3>3. \A j \in Keys : sigFails'[j] \in 0..FailThreshold BY <2>1, <3>1, <3>2
    <3> QED BY <3>1, <3>2, <3>3
  <2> QED BY <1>8, <1>9, <1>15, <2>2 DEF Key!SignatureMatches, Key!Go
<1>16. ASSUME NEW c \in Callers, Key!Answer(c) PROVE KeyInv'
  BY <1>8, <1>9, <1>16 DEF Key!Answer, Key!Waiting
<1>17. ASSUME NEW k \in Keys,
    Key!PrincipalExpires(k) \/ Key!FailuresExpire(k) \/ Key!FreezeExpires(k)
       PROVE KeyInv'
  <2>1. FailThreshold \in Nat BY AccessAssumption DEF AccessAssumption
  <2>2. principal' \in [Keys -> BOOLEAN] /\ frozen' \in [Keys -> BOOLEAN] /\ caller' = caller
        /\ UNCHANGED <<keyRow, desk>>
    BY <1>9, <1>17 DEF Key!PrincipalExpires, Key!FailuresExpire, Key!FreezeExpires
  <2>3. sigFails' \in [Keys -> 0..FailThreshold]
    BY <1>9, <1>17, <2>1 DEF Key!PrincipalExpires, Key!FailuresExpire, Key!FreezeExpires
  <2> QED BY <1>8, <1>9, <2>2, <2>3
<1>18. ASSUME NEW k \in Keys, Key!ExpiryComes(k) PROVE KeyInv'
  <2>1. keyRow' \in [Keys -> Key!Row] /\ \A j \in Keys \ {k} : keyRow'[j] = keyRow[j]
    BY <1>1, <1>18 DEF Key!ExpiryComes, KeyInv, Key!TypeOK, Key!Row, Key!Expiry
  <2>2. k \notin DOMAIN desk.rows BY <1>18 DEF Key!ExpiryComes, Key!Unlocked
  <2> QED BY <1>18, <2>1, <2>2 DEF Key!ExpiryComes, KeyInv, Key!TypeOK, Key!Usable
<1> QED
  BY <1>2, <1>3, <1>4, <1>5, <1>6, <1>7, <1>10, <1>11, <1>12, <1>13, <1>14, <1>15, <1>16, <1>17,
     <1>18 DEF Key!Next, Key!RevokeKey, Key!DeleteKey

\* A withdrawn key stays withdrawn.
LEMMA KeyStays ==
  ASSUME KeyInv, Key!Next, NEW k \in Keys, Key!Withdrawn(k)
  PROVE  Key!Withdrawn(k)'
<1>1. /\ keyRow \in [Keys -> Key!Row] /\ principal \in [Keys -> BOOLEAN]
      /\ caller \in [Callers -> [at : {"idle", "fill", "check", "sign", "accepted", "refused"},
                                 key : Keys \cup {Key!NoKey}]]
      /\ keyRow[k].status # "none" /\ ~Key!Usable(keyRow[k]) /\ principal[k] = FALSE
      /\ \A c \in Callers : caller[c].key = k => caller[c].at = "refused"
  BY DEF KeyInv, Key!TypeOK, Key!Withdrawn, Key!At
<1>2. keyRow'[k].status # "none" /\ ~Key!Usable(keyRow'[k])
  <2>1. CASE UNCHANGED keyRow BY <1>1, <2>1
  <2>2. CASE Key!CommitKeys BY <1>1, <2>2 DEF Key!CommitKeys, KeyInv
  <2>3. ASSUME NEW j \in Keys, Key!ExpiryComes(j)
      PROVE keyRow'[k].status # "none" /\ ~Key!Usable(keyRow'[k])
    BY <1>1, <2>3 DEF Key!ExpiryComes, Key!Row, Key!Usable
  <2> QED BY <2>1, <2>2, <2>3 DEF Key!Next, Key!GenerateKey, Key!RevokeKey, Key!DeleteKey,
      Key!RotateKey,
             Key!UpdateKey, Key!Flush, Key!CloseDesk, Key!BanOwner, Key!ValidateKey,
                 Key!CachePrincipal,
             Key!CheckKey, Key!SignatureFails, Key!SignatureMatches, Key!Answer,
                 Key!PrincipalExpires,
             Key!FailuresExpire, Key!FreezeExpires
<1>3. ASSUME NEW c \in Callers, NEW j \in Keys, Key!ValidateKey(c, j)
      PROVE  principal'[k] = FALSE /\ \A d \in Callers : caller'[d].key = k
          => caller'[d].at = "refused"
  <2>1. j = k => Key!Validate(j) = "refused" BY <1>1 DEF Key!Validate
  <2> QED BY <1>1, <1>3, <2>1 DEF Key!ValidateKey
<1>4. ASSUME NEW c \in Callers, Key!CachePrincipal(c)
      PROVE  principal'[k] = FALSE /\ \A d \in Callers : caller'[d].key = k
          => caller'[d].at = "refused"
  <2>1. caller[c].key # k BY <1>1, <1>4 DEF Key!CachePrincipal, Key!At
  <2> QED BY <1>1, <1>4, <2>1 DEF Key!CachePrincipal, Key!Go
<1>5. ASSUME NEW c \in Callers, Key!CheckKey(c) \/ Key!SignatureMatches(c)
      PROVE  principal'[k] = FALSE /\ \A d \in Callers : caller'[d].key = k
          => caller'[d].at = "refused"
  <2>1. caller[c].key # k BY <1>1, <1>5 DEF Key!CheckKey, Key!SignatureMatches, Key!At
  <2> QED BY <1>1, <1>5, <2>1 DEF Key!CheckKey, Key!SignatureMatches, Key!Refuse, Key!Go
<1>6. ASSUME NEW c \in Callers, Key!SignatureFails(c)
      PROVE  principal'[k] = FALSE /\ \A d \in Callers : caller'[d].key = k
          => caller'[d].at = "refused"
  <2>1. caller[c].key # k BY <1>1, <1>6 DEF Key!SignatureFails, Key!At
  <2>2. principal'[k] = FALSE BY <1>1, <1>6, <2>1 DEF Key!SignatureFails
  <2> QED BY <1>1, <1>6, <2>1, <2>2 DEF Key!SignatureFails, Key!Refuse, Key!Go
<1>7. ASSUME NEW c \in Callers, Key!Answer(c)
      PROVE  principal'[k] = FALSE /\ \A d \in Callers : caller'[d].key = k
          => caller'[d].at = "refused"
  BY <1>1, <1>7, AccessAssumption DEF AccessAssumption, Key!Answer, Key!Waiting, Key!NoKey
<1> DEFINE Out == principal[k] = FALSE /\ \A d \in Callers : caller[d].key = k
    => caller[d].at = "refused"
<1>a. Out BY <1>1
<1>8. ASSUME Key!BanOwner \/ \E j \in Keys : Key!PrincipalExpires(j) PROVE Out'
  <2>1. caller' = caller BY <1>8 DEF Key!BanOwner, Key!PrincipalExpires
  <2>2. ASSUME Key!BanOwner PROVE Out'
    <3>1. principal'[k] = (principal[k] /\ keyRow[k].status # "active") BY <2>2 DEF Key!BanOwner
    <3>2. principal'[k] = FALSE BY <1>a, <3>1, Zenon
    <3> QED BY <1>a, <2>1, <3>2
  <2>3. ASSUME NEW j \in Keys, Key!PrincipalExpires(j) PROVE Out'
    <3>1. principal'[k] = FALSE BY <1>1, <2>3 DEF Key!PrincipalExpires
    <3> QED BY <1>a, <2>1, <3>1
  <2> QED BY <1>8, <2>2, <2>3
<1>9. ASSUME UNCHANGED <<principal, caller>> PROVE Out' BY <1>a, <1>9
<1>10. principal'[k] = FALSE /\ \A d \in Callers : caller'[d].key = k => caller'[d].at = "refused"
  BY <1>3, <1>4, <1>5, <1>6, <1>7, <1>8, <1>9
  DEF Key!Next, Key!GenerateKey, Key!RevokeKey, Key!DeleteKey, Key!RotateKey, Key!UpdateKey,
      Key!Flush,
      Key!CommitKeys, Key!CloseDesk, Key!FailuresExpire, Key!FreezeExpires, Key!ExpiryComes
<1> QED BY <1>2, <1>10 DEF Key!Withdrawn, Key!At

-----------------------------------------------------------------------------
(* The rate limiter: windows hold, a request counts at all its levels or none. *)

\* Of a set of members, those in the window that ends at time t.
Counted(S, t) == {m \in S : m.at > t - Window /\ m.at <= t}

\* A level that holds members up to time c and in no window more than lim of them.
Held(S, c, lim) ==
  /\ IsFiniteSet(S)
  /\ \A m \in S : m.at \in 0..c
  /\ \A t \in Limiter!Times : Cardinality(Counted(S, t)) <= lim

\* The live members of key k at the gateway's level, and at its own.
AtGate(k) == {m \in hits["global"] : m.of = k /\ m.at > clock - Window}
AtKey(k) == {m \in hits[k] : m.at > clock - Window}

\* Requests are where the limiter's mode lets them be; but for the fallback every window holds.
LimitInv ==
  /\ clock \in Nat
  /\ DOMAIN request = Requests
  /\ \A r \in Requests :
       /\ DOMAIN request[r] = {"at", "key", "level"}
       /\ request[r].at \in {"rpm", "add"} => request[r].key \in ApiKeyIds
       /\ request[r].at = "add" => mode = "serial"
  /\ mode # "serial" =>
       DOMAIN hits = Limiter!Levels /\ \A l \in Limiter!Levels : Held(hits[l], clock, Limit[l])
  /\ mode = "script" => \A k \in ApiKeyIds : AtGate(k) = AtKey(k)

\* What the constants are, of the levels and their limits.
LEMMA LimitTypes ==
  /\ Window \in Nat \ {0} /\ MaxClock \in Nat
  /\ \A l \in Limiter!Levels : Limit[l] \in Nat \ {0}
  /\ "global" \in Limiter!Levels /\ "global" \notin ApiKeyIds
  /\ \A k \in ApiKeyIds : k \in Limiter!Levels
BY AccessAssumption DEF AccessAssumption, Limiter!Levels

\* The count of a window, with the cardinality the theorems are about.
LEMMA SameWithin ==
  ASSUME NEW l, NEW t
  PROVE  Limiter!Within(l, t) = Cardinality(Counted(hits[l], t))
BY DEF Limiter!Within, Limiter!Cardinality, Cardinality, Counted

\* No member, no count.
LEMMA EmptyHeld == ASSUME NEW lim \in Nat PROVE Held({}, 0, lim)
<1>1. \A t : Counted({}, t) = {} BY DEF Counted
<1> QED BY <1>1, FS_EmptySet DEF Held

\* Fewer members fill no window more.
LEMMA HeldLess ==
  ASSUME NEW S, NEW T, NEW c \in Nat, NEW lim \in Nat, Held(S, c, lim), T \subseteq S
  PROVE  Held(T, c, lim)
<1>1. IsFiniteSet(T) BY FS_Subset DEF Held
<1>2. ASSUME NEW t \in Limiter!Times PROVE Cardinality(Counted(T, t)) <= lim
  <2>1. Counted(T, t) \subseteq Counted(S, t) BY DEF Counted
  <2>2. IsFiniteSet(Counted(S, t)) BY FS_Subset DEF Held, Counted
  <2>3. Cardinality(Counted(T, t)) <= Cardinality(Counted(S, t)) BY <2>1, <2>2, FS_Subset
  <2>4. Cardinality(Counted(S, t)) <= lim BY DEF Held
  <2>5. Cardinality(Counted(S, t)) \in Nat /\ Cardinality(Counted(T, t)) \in Nat
    BY <2>1, <2>2, FS_Subset, FS_CardinalityType
  <2> QED BY <2>3, <2>4, <2>5
<1> QED BY <1>1, <1>2 DEF Held

\* A level that is not full now has room for one member of now.
LEMMA HeldMore ==
  ASSUME NEW S, NEW T, NEW n, NEW c \in Nat, NEW lim \in Nat, Held(S, c, lim),
         Cardinality(Counted(S, c)) < lim, n.at = c, T \subseteq S \cup {n}
  PROVE  Held(T, c, lim)
<1>1. IsFiniteSet(S \cup {n}) BY FS_AddElement DEF Held
<1>2. IsFiniteSet(T) BY <1>1, FS_Subset
<1>3. \A m \in T : m.at \in 0..c BY DEF Held
<1>4. ASSUME NEW t \in Limiter!Times PROVE Cardinality(Counted(T, t)) <= lim
  <2>0. t \in Nat /\ Window \in Nat /\ MaxClock \in Nat BY LimitTypes DEF Limiter!Times
  <2>1. /\ IsFiniteSet(Counted(S, t)) /\ IsFiniteSet(Counted(S, c)) /\ IsFiniteSet(Counted(T, t))
        /\ Cardinality(Counted(S, t)) <= lim
    BY <1>2, FS_Subset DEF Held, Counted
  <2>2. /\ Cardinality(Counted(S, t)) \in Nat /\ Cardinality(Counted(S, c)) \in Nat
        /\ Cardinality(Counted(T, t)) \in Nat
    BY <2>1, FS_CardinalityType
  <2>3. CASE t < c
    <3>1. Counted(T, t) \subseteq Counted(S, t) BY <2>0, <2>3 DEF Counted
    <3> QED BY <2>1, <2>2, <3>1, FS_Subset
  <2>4. CASE t >= c
    <3>1. Counted(T, t) \subseteq Counted(S, c) \cup {n}
      BY <2>0, <2>4 DEF Counted, Held
    <3>2. /\ IsFiniteSet(Counted(S, c) \cup {n})
          /\ Cardinality(Counted(S, c) \cup {n}) <= Cardinality(Counted(S, c)) + 1
      <4> PICK C : C = Counted(S, c) OBVIOUS
      <4>1. IsFiniteSet(C) /\ Cardinality(C) \in Nat BY <2>1, <2>2
      <4>2. IsFiniteSet(C \cup {n}) /\ Cardinality(C \cup {n}) <= Cardinality(C) + 1
        BY <4>1, FS_AddElement
      <4> QED BY <4>2
    <3>3. Cardinality(Counted(T, t)) <= Cardinality(Counted(S, c) \cup {n})
          /\ Cardinality(Counted(S, c) \cup {n}) \in Nat
      BY <3>1, <3>2, FS_Subset, FS_CardinalityType
    <3> QED BY <2>2, <3>2, <3>3
  <2> QED BY <2>0, <2>3, <2>4
<1> QED BY <1>2, <1>3, <1>4 DEF Held

\* It holds with empty levels.
LEMMA LimitInit == Limiter!Init => LimitInv
<1> SUFFICES ASSUME Limiter!Init PROVE LimitInv OBVIOUS
<1>1. \A l \in Limiter!Levels : Held(hits[l], 0, Limit[l])
  BY EmptyHeld, LimitTypes DEF Limiter!Init
<1>2. \A k \in ApiKeyIds : AtGate(k) = AtKey(k)
  BY LimitTypes DEF AtGate, AtKey, Limiter!Init
<1>3. \A r \in Requests : DOMAIN request[r] = {"at", "key", "level"} /\ request[r].at = "idle"
  BY DEF Limiter!Init, Limiter!New
<1> QED BY <1>1, <1>2, <1>3 DEF Limiter!Init, LimitInv

\* A request moves, and the levels are as they may be.
LEMMA LimitMove ==
  ASSUME LimitInv, NEW r \in Requests, NEW x, request' = [request EXCEPT ![r] = x],
         DOMAIN x = {"at", "key", "level"}, x.at \in {"rpm", "add"} => x.key \in ApiKeyIds,
         x.at = "add" => mode = "serial", UNCHANGED <<mode, clock>>,
         mode # "serial" =>
           /\ DOMAIN hits' = Limiter!Levels
           /\ \A l \in Limiter!Levels : Held(hits'[l], clock, Limit[l]),
         mode = "script" => \A k \in ApiKeyIds : AtGate(k)' = AtKey(k)'
  PROVE  LimitInv'
BY DEF LimitInv

\* A request moves and counts nowhere.
LEMMA LimitGo ==
  ASSUME LimitInv, NEW r \in Requests, NEW x, request' = [request EXCEPT ![r] = x],
         DOMAIN x = {"at", "key", "level"}, x.at \in {"rpm", "add"} => x.key \in ApiKeyIds,
         x.at = "add" => mode = "serial", UNCHANGED <<mode, clock, hits>>
  PROVE  LimitInv'
BY LimitMove DEF LimitInv, AtGate, AtKey

\* A request goes to a stage that needs nothing.
LEMMA LimitGoes ==
  ASSUME LimitInv, NEW r \in Requests, NEW s, s \notin {"rpm", "add"}, Limiter!Move(r, s),
         UNCHANGED <<mode, clock>>,
         mode # "serial" =>
           /\ DOMAIN hits' = Limiter!Levels
           /\ \A l \in Limiter!Levels : Held(hits'[l], clock, Limit[l]),
         mode = "script" => \A k \in ApiKeyIds : AtGate(k)' = AtKey(k)'
  PROVE  LimitInv'
<1> DEFINE x == [request[r] EXCEPT !.at = s]
<1>1. request' = [request EXCEPT ![r] = x] BY DEF Limiter!Move
<1>2. DOMAIN x = {"at", "key", "level"} /\ x.at = s BY DEF LimitInv
<1> HIDE DEF x
<1> QED BY <1>1, <1>2, LimitMove

\* Without the script the levels may hold anything, and no request's key matters there.
LEMMA LimitSerial ==
  ASSUME LimitInv, NEW r \in Requests, NEW x, request' = [request EXCEPT ![r] = x],
         DOMAIN x = {"at", "key", "level"}, x.at \in {"rpm", "add"} => x.key \in ApiKeyIds,
         mode = "serial", UNCHANGED <<mode, clock>>
  PROVE  LimitInv'
BY LimitMove

\* Each step of the limiter keeps it.
LEMMA LimitStep == LimitInv /\ Limiter!Next => LimitInv'
<1> SUFFICES ASSUME LimitInv, Limiter!Next PROVE LimitInv' OBVIOUS
<1> USE DEF Limiter!At
<1>1. ASSUME NEW r \in Requests, NEW k \in ApiKeyIds, Limiter!Arrive(r, k) PROVE LimitInv'
  <2> DEFINE x == [Limiter!New EXCEPT !.at = "rpm", !.key = k, !.level = 1]
  <2>1. request' = [request EXCEPT ![r] = x] /\ UNCHANGED <<mode, clock, hits>>
    BY <1>1 DEF Limiter!Arrive
  <2>2. DOMAIN x = {"at", "key", "level"} /\ x.at = "rpm" /\ x.key = k BY DEF Limiter!New
  <2> HIDE DEF x
  <2> QED BY <2>1, <2>2, LimitGo
<1>2. ASSUME NEW r \in Requests, Limiter!CheckScript(r) PROVE LimitInv'
  <2> DEFINE k == request[r].key
             n == Limiter!NewMember(k)
             live(l) == {m \in hits[l] : m.at > clock - Window}
  <2>1. /\ mode = "script" /\ UNCHANGED <<mode, clock>> /\ k \in ApiKeyIds
        /\ \/ /\ Limiter!Full(k) \/ Limiter!Full("global")
              /\ Limiter!Trim(IF Limiter!Full(k) THEN {k} ELSE {k, "global"}, {})
              /\ Limiter!Move(r, "refused")
           \/ /\ ~Limiter!Full(k) /\ ~Limiter!Full("global")
              /\ Limiter!Trim({k, "global"}, {n}) /\ Limiter!Move(r, "tpm")
    BY <1>2 DEF Limiter!CheckScript, Limiter!Specs, LimitInv
  <2>2. /\ DOMAIN hits = Limiter!Levels /\ \A l \in Limiter!Levels : Held(hits[l], clock, Limit[l])
        /\ \A j \in ApiKeyIds : AtGate(j) = AtKey(j)
        /\ clock \in Nat
    BY <2>1 DEF LimitInv
  <2>3. n.at = clock /\ n.of = k BY DEF Limiter!NewMember
  <2>4. k \in Limiter!Levels /\ "global" \in Limiter!Levels /\ k # "global" /\ Window \in Nat \ {0}
    BY <2>1, LimitTypes
  <2>5. ASSUME NEW levels \in SUBSET {k, "global"}, Limiter!Trim(levels, {}) PROVE
          /\ DOMAIN hits' = Limiter!Levels
          /\ \A l \in Limiter!Levels : Held(hits'[l], clock, Limit[l])
          /\ \A j \in ApiKeyIds : AtGate(j)' = AtKey(j)'
    <3>1. /\ DOMAIN hits' = Limiter!Levels
          /\ \A l \in Limiter!Levels : hits'[l] \in {hits[l], live(l)}
      BY <2>5 DEF Limiter!Trim
    <3>2. \A l \in Limiter!Levels : hits'[l] \subseteq hits[l] BY <3>1
    <3>3. \A j \in ApiKeyIds : AtGate(j)' = AtGate(j) /\ AtKey(j)' = AtKey(j)
      BY <2>1, <3>1, LimitTypes DEF AtGate, AtKey
    <3> QED BY <2>2, <3>1, <3>2, <3>3, HeldLess, LimitTypes
  <2>6. ASSUME Limiter!Trim({k, "global"}, {n}), ~Limiter!Full(k), ~Limiter!Full("global") PROVE
          /\ DOMAIN hits' = Limiter!Levels
          /\ \A l \in Limiter!Levels : Held(hits'[l], clock, Limit[l])
          /\ \A j \in ApiKeyIds : AtGate(j)' = AtKey(j)'
    <3> HIDE DEF k, n
    <3>1. /\ DOMAIN hits' = Limiter!Levels
          /\ \A l \in Limiter!Levels \ {k, "global"} : hits'[l] = hits[l]
          /\ hits'[k] = live(k) \cup {n} /\ hits'["global"] = live("global") \cup {n}
      BY <2>4, <2>6 DEF Limiter!Trim
    <3>2. ASSUME NEW l \in {k, "global"} PROVE Held(hits'[l], clock, Limit[l])
      <4>1. ~Limiter!Full(l) /\ l \in Limiter!Levels BY <2>4, <2>6
      <4>2. Held(hits[l], clock, Limit[l]) /\ Limit[l] \in Nat BY <2>2, <4>1, LimitTypes
      <4>3. Cardinality(Counted(hits[l], clock)) \in Nat
        BY <4>2, FS_Subset, FS_CardinalityType DEF Held, Counted
      <4>4. Cardinality(Counted(hits[l], clock)) < Limit[l]
        BY <4>1, <4>2, <4>3, SameWithin DEF Limiter!Full
      <4>5. hits'[l] \subseteq hits[l] \cup {n} BY <3>1
      <4> QED BY <2>2, <2>3, <4>2, <4>4, <4>5, HeldMore
    <3>3. \A l \in Limiter!Levels : Held(hits'[l], clock, Limit[l]) BY <2>2, <3>1, <3>2
    <3>4. ASSUME NEW j \in ApiKeyIds PROVE AtGate(j)' = AtKey(j)'
      <4>1. j \in Limiter!Levels /\ j # "global" BY LimitTypes
      <4>2. n.at > clock - Window BY <2>2, <2>3, <2>4
      <4>3. AtGate(j) = AtKey(j) /\ clock' = clock BY <2>1, <2>2
      <4>4. CASE j = k
        <5>1. AtGate(j)' = AtGate(j) \cup {n} BY <2>3, <3>1, <4>2, <4>3, <4>4 DEF AtGate
        <5>2. AtKey(j)' = AtKey(j) \cup {n} BY <3>1, <4>2, <4>3, <4>4 DEF AtKey
        <5> QED BY <4>3, <5>1, <5>2
      <4>5. CASE j # k
        <5>1. AtGate(j)' = AtGate(j) BY <2>3, <3>1, <4>3, <4>5 DEF AtGate
        <5>2. AtKey(j)' = AtKey(j) BY <3>1, <4>1, <4>3, <4>5 DEF AtKey
        <5> QED BY <4>3, <5>1, <5>2
      <4> QED BY <4>4, <4>5
    <3> QED BY <3>1, <3>3, <3>4
  <2>7. \/ (\E levels \in SUBSET {k, "global"} : Limiter!Trim(levels, {}))
           /\ Limiter!Move(r, "refused")
        \/ /\ Limiter!Trim({k, "global"}, {n}) /\ ~Limiter!Full(k) /\ ~Limiter!Full("global")
           /\ Limiter!Move(r, "tpm")
    BY <2>1
  <2> HIDE DEF k, n
  <2> QED BY <2>1, <2>5, <2>6, <2>7, LimitGoes
<1>3. ASSUME NEW r \in Requests, Limiter!ScriptFails(r) \/ Limiter!NoTpm(r) \/ Limiter!CheckTpm(r)
      PROVE  LimitInv'
  <2>1. /\ UNCHANGED <<mode, clock, hits>>
        /\ \E s \in {"tpm", "passed", "refused"} : Limiter!Move(r, s)
    BY <1>3 DEF Limiter!ScriptFails, Limiter!NoTpm, Limiter!CheckTpm
  <2>2. /\ mode # "serial" =>
             /\ DOMAIN hits' = Limiter!Levels
             /\ \A l \in Limiter!Levels : Held(hits'[l], clock, Limit[l])
        /\ mode = "script" => \A k \in ApiKeyIds : AtGate(k)' = AtKey(k)'
    BY <2>1 DEF LimitInv, AtGate, AtKey
  <2> QED BY <2>1, <2>2, LimitGoes
<1>4. ASSUME NEW r \in Requests, Limiter!SerialCheck(r) PROVE LimitInv'
  <2> DEFINE s == IF Limiter!Full(Limiter!Specs(r)[request[r].level]) THEN "refused" ELSE "add"
             x == [request[r] EXCEPT !.at = s]
  <2>1. request' = [request EXCEPT ![r] = x] /\ mode = "serial" /\ UNCHANGED <<mode, clock>>
    BY <1>4 DEF Limiter!SerialCheck, Limiter!Move
  <2> HIDE DEF s
  <2>3. /\ DOMAIN x = {"at", "key", "level"} /\ x.key = request[r].key
        /\ request[r].key \in ApiKeyIds
    BY <1>4 DEF Limiter!SerialCheck, LimitInv
  <2> HIDE DEF x
  <2> QED BY <2>1, <2>3, LimitSerial
<1>5. ASSUME NEW r \in Requests, Limiter!SerialAdd(r) PROVE LimitInv'
  <2> DEFINE s == IF request[r].level = 2 THEN "tpm" ELSE "rpm"
             x == [request[r] EXCEPT !.at = s, !.level = 2]
  <2>1. request' = [request EXCEPT ![r].at = s, ![r].level = 2] /\ UNCHANGED <<mode, clock>>
        /\ mode = "serial"
    BY <1>5 DEF Limiter!SerialAdd, LimitInv
  <2> HIDE DEF s
  <2>2. request' = [request EXCEPT ![r] = x] BY <2>1 DEF LimitInv
  <2>3. /\ DOMAIN x = {"at", "key", "level"} /\ x.key = request[r].key
        /\ request[r].key \in ApiKeyIds
    BY <1>5 DEF Limiter!SerialAdd, LimitInv
  <2> HIDE DEF x
  <2> QED BY <2>1, <2>2, <2>3, LimitSerial
<1>6. ASSUME NEW r \in Requests, Limiter!CheckMemory(r) PROVE LimitInv'
  <2> DEFINE k == request[r].key
             n == Limiter!NewMember(k)
             live(l) == {m \in hits[l] : m.at > clock - Window}
  <2>1. /\ mode = "memory" /\ UNCHANGED <<mode, clock>> /\ k \in ApiKeyIds
        /\ \/ UNCHANGED hits /\ Limiter!Move(r, "refused")
           \/ ~Limiter!Full(k) /\ Limiter!Trim({k}, {n}) /\ Limiter!Move(r, "passed")
    BY <1>6 DEF Limiter!CheckMemory, Limiter!Specs, LimitInv
  <2>2. /\ DOMAIN hits = Limiter!Levels /\ \A l \in Limiter!Levels : Held(hits[l], clock, Limit[l])
        /\ clock \in Nat
    BY <2>1 DEF LimitInv
  <2>3. n.at = clock BY DEF Limiter!NewMember
  <2>4. k \in Limiter!Levels BY <2>1, LimitTypes
  <2> HIDE DEF k, n
  <2>5. ASSUME Limiter!Trim({k}, {n}), ~Limiter!Full(k) PROVE
          DOMAIN hits' = Limiter!Levels /\ \A l \in Limiter!Levels : Held(hits'[l], clock, Limit[l])
    <3>1. /\ DOMAIN hits' = Limiter!Levels
          /\ \A l \in Limiter!Levels \ {k} : hits'[l] = hits[l]
          /\ hits'[k] = live(k) \cup {n}
      BY <2>4, <2>5 DEF Limiter!Trim
    <3>2. Held(hits[k], clock, Limit[k]) /\ Limit[k] \in Nat BY <2>2, <2>4, LimitTypes
    <3>3. Cardinality(Counted(hits[k], clock)) \in Nat
      BY <3>2, FS_Subset, FS_CardinalityType DEF Held, Counted
    <3>4. Cardinality(Counted(hits[k], clock)) < Limit[k]
      BY <2>5, <3>2, <3>3, SameWithin DEF Limiter!Full
    <3>5. hits'[k] \subseteq hits[k] \cup {n} BY <3>1
    <3>6. Held(hits'[k], clock, Limit[k]) BY <2>2, <2>3, <3>2, <3>4, <3>5, HeldMore
    <3> QED BY <2>2, <3>1, <3>6
  <2> QED BY <2>1, <2>2, <2>5, LimitGoes
<1>7. ASSUME NEW r \in Requests, Limiter!Leave(r) PROVE LimitInv'
  <2>1. DOMAIN Limiter!New = {"at", "key", "level"} /\ Limiter!New.at = "idle" BY DEF Limiter!New
  <2> QED BY <1>7, <2>1, LimitGo DEF Limiter!Leave
<1>8. ASSUME Limiter!Tick PROVE LimitInv'
  <2>1. clock' = clock + 1 /\ UNCHANGED <<mode, hits, request>> /\ clock \in Nat /\ clock' \in Nat
    BY <1>8 DEF Limiter!Tick, LimitInv
  <2>2. ASSUME mode # "serial", NEW l \in Limiter!Levels PROVE Held(hits[l], clock + 1, Limit[l])
    BY <2>1, <2>2 DEF LimitInv, Held
  <2>9. ASSUME mode' # "serial"
        PROVE  /\ DOMAIN hits' = Limiter!Levels
               /\ \A l \in Limiter!Levels : Held(hits'[l], clock', Limit[l])
    BY <2>1, <2>2, <2>9 DEF LimitInv
  <2>3. ASSUME mode = "script", NEW k \in ApiKeyIds PROVE AtGate(k)' = AtKey(k)'
    <3>1. /\ AtGate(k) = AtKey(k) /\ Window \in Nat
          /\ \A m \in hits["global"] \cup hits[k] : m.at \in Nat
      BY <2>1, <2>3, LimitTypes DEF LimitInv, Held
    <3>2. AtGate(k)' = {m \in AtGate(k) : m.at > clock + 1 - Window} BY <2>1, <3>1 DEF AtGate
    <3>3. AtKey(k)' = {m \in AtKey(k) : m.at > clock + 1 - Window} BY <2>1, <3>1 DEF AtKey
    <3> QED BY <3>1, <3>2, <3>3
  <2> QED BY <2>1, <2>3, <2>9 DEF LimitInv
<1> QED BY <1>1, <1>2, <1>3, <1>4, <1>5, <1>6, <1>7, <1>8 DEF Limiter!Next

\* And it says what the limiter promises.
LEMMA LimitHolds == LimitInv => Limiter!WindowsHold
<1> SUFFICES ASSUME LimitInv PROVE Limiter!WindowsHold OBVIOUS
<1>1. \A l \in Limiter!Levels, t \in Limiter!Times :
        mode # "serial" => Limiter!Within(l, t) <= Limit[l]
  BY SameWithin DEF LimitInv, Held
<1> QED BY <1>1 DEF LimitInv, Limiter!WindowsHold, AtGate, AtKey

-----------------------------------------------------------------------------
(* Sessions: no rotation revives a session it had read before it was revoked. *)

\* The stages at which a handler needs what it has read, and those past the look-up of the mark.
Needing == {"session", "mark", "user", "rotate", "blacklist", "user row", "row", "logout", "revoke",
            "accepted"}
Checks == {"blacklist", "user row", "row"}
\* What a handler holds.
HandlerRow ==
  [at : Needing \cup {"idle", "compare", "consume", "create", "list", "commit"},
   aim : {"none", "login", "refresh", "purge", "call", "logout", "revoke"},
   pair : Session!Pairs \cup {Session!NoPair}, seen : Nat,
   rows : UNION {[S -> Session!LoginRow] : S \in SUBSET SessionKeys}, dead : BOOLEAN]

\* The first pair of a session was issued.
First(s) == MaxPairs >= 1 /\ issued[<<s, 1>>] # -1

\* A row that does not revive session s.
Lasting(s, row) == row.status = "revoked" \/ (row.status = "active"
    /\ loginRow[s].status # "revoked")

\* What a handler may hold: the rows it has flushed are of sessions begun and revive none,
\* and a request that came too late is stopped by one of the checks ahead of it.
Fits(x) ==
  /\ x \in HandlerRow
  /\ x.at \in Needing => x.pair \in Session!Pairs
  /\ x.at \in Checks => x.aim \in {"call", "logout", "revoke"}
  /\ x.at # "commit" => DOMAIN x.rows = {}
  /\ x.at \in {"create", "rotate"} => x.seen <= version
  /\ \A s \in DOMAIN x.rows : First(s) /\ Lasting(s, x.rows[s])
  /\ x.dead => /\ x.at \in Checks
               /\ issued[x.pair] # -1
               /\ loginRow[x.pair[1]].status = "revoked" \/ issued[x.pair] < version
               /\ x.at = "row" => loginRow[x.pair[1]].status = "revoked"

\* The pairs of a session are issued in their order.
Numbered(s) == \E k \in 0..MaxPairs : \A n \in 1..MaxPairs : issued[<<s, n>>] # -1 <=> n <= k

\* No pair is newer than the version, and rows and handlers fit them.
SessInv ==
  /\ version \in Nat
  /\ loginRow \in [SessionKeys -> Session!LoginRow]
  /\ issued \in [Session!Pairs -> Nat \cup {-1}]
  /\ \A p \in Session!Pairs : issued[p] <= version
  /\ DOMAIN handler = Handlers
  /\ \A h \in Handlers : Fits(handler[h])
  /\ \A g, h \in Handlers : g # h => DOMAIN handler[g].rows \cap DOMAIN handler[h].rows = {}
  /\ \A s \in SessionKeys : Numbered(s) /\ (loginRow[s].status # "none" => First(s))

\* A handler at rest fits.
LEMMA RestingFits == ASSUME SessInv PROVE Fits(Session!Resting)
<1>1. DOMAIN Session!NoRows = {} /\ Session!NoRows \in [{} -> Session!LoginRow]
    BY DEF Session!NoRows
<1>2. Session!NoRows \in UNION {[S -> Session!LoginRow] : S \in SUBSET SessionKeys} BY <1>1
<1>3. Session!Resting \in HandlerRow /\ Session!Resting.dead = FALSE
      /\ Session!Resting.at = "idle" /\ Session!Resting.rows = Session!NoRows
  BY <1>2 DEF Session!Resting, HandlerRow
<1> QED BY <1>1, <1>3 DEF Fits, Needing, Checks

\* It holds before any sign-in.
LEMMA SessInit == Session!Init => SessInv
<1> SUFFICES ASSUME Session!Init PROVE SessInv OBVIOUS
<1>1. MaxPairs \in Nat BY AccessAssumption DEF AccessAssumption
<1>2. /\ version \in Nat /\ version = 0 /\ issued \in [Session!Pairs -> Nat \cup {-1}]
      /\ \A p \in Session!Pairs : issued[p] = -1
      /\ DOMAIN handler = Handlers
  BY DEF Session!Init
<1>3. loginRow \in [SessionKeys -> Session!LoginRow]
    /\ \A s \in SessionKeys : loginRow[s].status = "none"
  BY <1>1 DEF Session!Init, Session!LoginRow
<1>4. DOMAIN Session!NoRows = {} /\ Session!NoRows \in [{} -> Session!LoginRow]
    BY DEF Session!NoRows
<1>5. Session!NoRows \in UNION {[S -> Session!LoginRow] : S \in SUBSET SessionKeys} BY <1>4
<1>6. Session!Resting \in HandlerRow /\ Session!Resting.dead = FALSE
      /\ Session!Resting.at = "idle" /\ Session!Resting.rows = Session!NoRows
  BY <1>5 DEF Session!Resting, HandlerRow
<1>7. Fits(Session!Resting) BY <1>4, <1>6 DEF Fits, Needing, Checks
<1>8. \A h \in Handlers : handler[h] = Session!Resting BY DEF Session!Init
<1>9. \A s \in SessionKeys : Numbered(s)
  <2>1. \A s \in SessionKeys, n \in 1..MaxPairs : <<s, n>> \in Session!Pairs BY DEF Session!Pairs
  <2> QED BY <1>1, <1>2, <2>1 DEF Numbered
<1> QED BY <1>2, <1>3, <1>4, <1>6, <1>7, <1>8, <1>9 DEF SessInv

\* Both cardinalities are one.
LEMMA SameCount == ASSUME NEW S PROVE Session!Cardinality(S) = Cardinality(S)
BY DEF Session!Cardinality, Cardinality

\* The next pair of a session is the first that was not issued.
LEMMA NextIsNew ==
  ASSUME SessInv, NEW s \in SessionKeys
  PROVE  /\ Session!NextPair(s) \in Nat \ {0}
         /\ \A n \in 1..MaxPairs : issued[<<s, n>>] # -1 <=> n < Session!NextPair(s)
<1>1. MaxPairs \in Nat BY AccessAssumption DEF AccessAssumption
<1>2. PICK k \in 0..MaxPairs : \A n \in 1..MaxPairs : issued[<<s, n>>] # -1 <=> n <= k
  BY DEF SessInv, Numbered
<1>3. {n \in 1..MaxPairs : issued[<<s, n>>] # -1} = 1..k
  <2>1. k <= MaxPairs /\ k \in Nat BY <1>1, <1>2
  <2>2. \A n : n \in 1..k <=> n \in 1..MaxPairs /\ n <= k BY <1>1, <2>1
  <2>3. \A n : n \in 1..k <=> n \in 1..MaxPairs /\ issued[<<s, n>>] # -1 BY <1>2, <2>2, Zenon
  <2> QED BY <2>3, Zenon
<1>4. Cardinality(1..k) = k
  <2>1. k \in Nat /\ 1 \in Int BY <1>1, <1>2
  <2>2. Cardinality(1..k) = IF 1 > k THEN 0 ELSE k - 1 + 1 BY <2>1, FS_Interval
  <2> QED BY <2>1, <2>2
<1>5. Session!NextPair(s) = k + 1 BY <1>3, <1>4, SameCount DEF Session!NextPair
<1> QED BY <1>1, <1>2, <1>5

\* A handler moves on, or flushes rows that nobody else has.
LEMMA SessMove ==
  ASSUME SessInv, NEW h \in Handlers, NEW x, handler' = [handler EXCEPT ![h] = x],
         UNCHANGED <<version, loginRow, issued>>, Fits(x),
         \A g \in Handlers \ {h} : DOMAIN x.rows \cap DOMAIN handler[g].rows = {}
  PROVE  SessInv'
<1>1. DOMAIN handler' = Handlers /\ handler'[h] = x
    /\ \A g \in Handlers \ {h} : handler'[g] = handler[g]
  BY DEF SessInv
<1>2. \A y : Fits(y) => Fits(y)' BY DEF Fits, First, Lasting
<1>3. \A g \in Handlers : Fits(handler'[g]) BY <1>1 DEF SessInv
<1>4. \A g \in Handlers : Fits(handler[g])' BY <1>2, <1>3
<1>5. \A g, j \in Handlers : g # j => DOMAIN handler'[g].rows \cap DOMAIN handler'[j].rows = {}
  BY <1>1 DEF SessInv
<1>6. \A s \in SessionKeys : Numbered(s)' /\ (loginRow'[s].status # "none" => First(s)')
  BY DEF SessInv, Numbered, First
<1> QED BY <1>1, <1>4, <1>5, <1>6 DEF SessInv

\* A pair is issued for a session whose row nobody else has flushed.
LEMMA SessIssue ==
  ASSUME SessInv, NEW h \in Handlers, NEW s \in SessionKeys, Session!CreateTokens(h, s),
         handler[h].seen <= version, UNCHANGED <<version, loginRow>>,
         NEW x, handler' = [handler EXCEPT ![h] = x],
         x \in HandlerRow, x.at = "commit", x.dead = FALSE, DOMAIN x.rows \subseteq {s},
         \A t \in DOMAIN x.rows : Lasting(t, x.rows[t]),
         DOMAIN x.rows = {} \/ \A g \in Handlers \ {h} : s \notin DOMAIN handler[g].rows
  PROVE  SessInv'
<1> DEFINE m == Session!NextPair(s)
           p == <<s, m>>
<1>1. MaxPairs \in Nat BY AccessAssumption DEF AccessAssumption
<1>2. m \in 1..MaxPairs /\ \A n \in 1..MaxPairs : issued[<<s, n>>] # -1 <=> n < m
  BY <1>1, NextIsNew DEF Session!CreateTokens
<1>3. p \in Session!Pairs /\ issued[p] = -1 BY <1>2 DEF Session!Pairs
<1>4. handler[h].seen \in Nat BY DEF SessInv, Fits, HandlerRow
<1>5. issued' = [issued EXCEPT ![p] = handler[h].seen] BY DEF Session!CreateTokens
<1> HIDE DEF m
<1>6. issued' \in [Session!Pairs -> Nat \cup {-1}] /\ issued'[p] = handler[h].seen
      /\ \A q \in Session!Pairs \ {p} : issued'[q] = issued[q]
  BY <1>3, <1>4, <1>5 DEF SessInv
<1>7. \A q \in Session!Pairs : issued'[q] <= version' BY <1>6 DEF SessInv
<1>8. \A t \in SessionKeys,
    n \in 1..MaxPairs : <<t, n>> \in Session!Pairs /\ (<<t, n>> = p <=> t = s /\ n = m)
  BY DEF Session!Pairs
<1>9. \A t \in SessionKeys : First(t) => First(t)'
  BY <1>1, <1>3, <1>4, <1>6, <1>8 DEF First
<1>10. First(s)'
  <2>1. 1 \in 1..MaxPairs BY <1>1, <1>2
  <2>2. m = 1 \/ issued[<<s, 1>>] # -1 BY <1>2, <2>1
  <2> QED BY <1>1, <1>4, <1>6, <1>8, <2>1, <2>2 DEF First
<1>11. \A t \in SessionKeys : Numbered(t)'
  <2>1. Numbered(s)'
    <3>1. \A n \in 1..MaxPairs : issued'[<<s, n>>] # -1 <=> n <= m BY <1>2, <1>4, <1>6, <1>8
    <3>2. m \in 0..MaxPairs BY <1>1, <1>2
    <3> QED BY <3>1, <3>2 DEF Numbered
  <2>2. ASSUME NEW t \in SessionKeys \ {s} PROVE Numbered(t)'
    <3>1. \A n \in 1..MaxPairs : issued'[<<t, n>>] = issued[<<t, n>>] BY <1>6, <1>8
    <3> QED BY <3>1 DEF SessInv, Numbered
  <2> QED BY <2>1, <2>2
<1>12. DOMAIN handler' = Handlers /\ handler'[h] = x
    /\ \A g \in Handlers \ {h} : handler'[g] = handler[g]
  BY DEF SessInv
<1>13. ASSUME NEW y, Fits(y) PROVE Fits(y)'
  <2>1. DOMAIN y.rows \subseteq SessionKeys
    <3>1. y.rows \in UNION {[S -> Session!LoginRow] : S \in SUBSET SessionKeys}
      BY <1>13 DEF Fits, HandlerRow
    <3> QED BY <3>1
  <2>2. y.dead => y.pair \in Session!Pairs /\ issued'[y.pair] = issued[y.pair]
    BY <1>3, <1>6, <1>13 DEF Fits, Needing, Checks
  <2> QED BY <1>9, <1>13, <2>1, <2>2 DEF Fits, Lasting
<1>14. Fits(x)'
  <2>1. x' = x BY <1>12
  <2>2. \A t \in DOMAIN x.rows : t = s OBVIOUS
  <2> QED BY <1>10, <2>1, <2>2 DEF Fits, Needing, Checks, Lasting
<1>15. \A g, j \in Handlers : g # j => DOMAIN handler'[g].rows \cap DOMAIN handler'[j].rows = {}
  BY <1>12 DEF SessInv
<1>16. \A g \in Handlers : Fits(handler[g])' BY <1>12, <1>13, <1>14 DEF SessInv
<1> QED BY <1>6, <1>7, <1>9, <1>11, <1>12, <1>15, <1>16 DEF SessInv

\* Nothing of it moves.
LEMMA SessRest == SessInv /\ UNCHANGED <<version, loginRow, issued, handler>> => SessInv'
<1> SUFFICES ASSUME SessInv, UNCHANGED <<version, loginRow, issued, handler>> PROVE SessInv' OBVIOUS
<1>1. \A y : Fits(y) => Fits(y)' BY DEF Fits, First, Lasting
<1>2. \A h \in Handlers : Fits(handler[h])' BY <1>1 DEF SessInv
<1>3. \A s \in SessionKeys : Numbered(s)' /\ (loginRow'[s].status # "none" => First(s)')
  BY DEF SessInv, Numbered, First
<1> QED BY <1>2, <1>3 DEF SessInv

\* A step of a handler that flushes nothing.
LEMMA SessGo ==
  ASSUME SessInv, NEW h \in Handlers, NEW x, handler' = [handler EXCEPT ![h] = x],
         UNCHANGED <<version, loginRow, issued>>, Fits(x), x.at # "commit"
  PROVE  SessInv'
<1>1. DOMAIN x.rows = {} BY DEF Fits
<1> QED BY <1>1, SessMove

\* A handler comes to rest.
LEMMA SessEnd ==
  ASSUME SessInv, NEW h \in Handlers, Session!End(h), UNCHANGED <<version, loginRow, issued>>
  PROVE  SessInv'
<1>1. Session!Resting.at # "commit" BY DEF Session!Resting
<1> QED BY <1>1, RestingFits, SessGo DEF Session!End

\* A handler starts on a pair.
LEMMA SessStart ==
  ASSUME SessInv, NEW h \in Handlers, NEW aim \in {"login", "refresh", "purge"},
         NEW p \in Session!Pairs \cup {Session!NoPair}, NEW s \in {"compare", "session", "list"},
         s = "session" => p \in Session!Pairs,
         Session!Start(h, aim, p, s), UNCHANGED <<version, loginRow, issued>>
  PROVE  SessInv'
<1> DEFINE x == [Session!Resting EXCEPT !.at = s, !.aim = aim, !.pair = p]
<1>1. Fits(Session!Resting) BY RestingFits
<1>2. /\ Session!Resting \in HandlerRow /\ Session!Resting.dead = FALSE
      /\ DOMAIN Session!Resting.rows = {}
  BY <1>1 DEF Session!Resting, Fits, Session!NoRows
<1>3. /\ x.at = s /\ x.pair = p /\ x.dead = FALSE /\ DOMAIN x.rows = {} /\ x \in HandlerRow
  BY <1>2 DEF HandlerRow, Needing
<1>4. handler' = [handler EXCEPT ![h] = x] BY DEF Session!Start
<1> HIDE DEF x
<1>5. Fits(x) BY <1>3 DEF Fits, Needing, Checks
<1> QED BY <1>3, <1>4, <1>5, SessGo

\* A handler flushes the revocation of sessions that it has locked.
LEMMA SessInvalidate ==
  ASSUME SessInv, NEW h \in Handlers, NEW ss \in SUBSET SessionKeys, NEW ps,
         Session!Invalidate(h, ss, ps), UNCHANGED <<version, loginRow, issued>>,
         handler[h].dead = FALSE,
         \A s \in ss : ~Session!Locked(h, s) /\ loginRow[s].status # "none"
  PROVE  SessInv'
<1> DEFINE rows == [s \in ss |-> [loginRow[s] EXCEPT !.status = "revoked"]]
           x == [handler[h] EXCEPT !.at = "commit", !.rows = rows]
<1>1. \A s \in ss : rows[s] \in Session!LoginRow /\ rows[s].status = "revoked"
  BY DEF SessInv, Session!LoginRow
<1>2. DOMAIN rows = ss /\ rows \in [ss -> Session!LoginRow] BY <1>1
<1>3. handler[h] \in HandlerRow /\ handler[h] = handler[h] BY DEF SessInv, Fits
<1>4. handler' = [handler EXCEPT ![h] = x] BY DEF Session!Invalidate, SessInv
<1> HIDE DEF rows
<1>5. rows \in UNION {[S -> Session!LoginRow] : S \in SUBSET SessionKeys} BY <1>2
<1>6. x \in HandlerRow /\ x.at = "commit" /\ x.rows = rows /\ x.dead = FALSE
  BY <1>3, <1>5 DEF HandlerRow
<1> HIDE DEF x
<1>7. \A s \in ss : First(s) /\ Lasting(s, rows[s]) BY <1>1 DEF SessInv, Lasting
<1>8. Fits(x) BY <1>2, <1>6, <1>7 DEF Fits, Needing, Checks
<1>9. \A g \in Handlers \ {h} : DOMAIN x.rows \cap DOMAIN handler[g].rows = {}
  BY <1>2, <1>6 DEF Session!Locked
<1> QED BY <1>4, <1>8, <1>9, SessMove

\* A handler that moves on with what it holds, having read the version perhaps.
LEMMA SessAdvance ==
  ASSUME SessInv, NEW h \in Handlers, NEW s \in Needing \cup {"consume", "create"}, NEW v \in Nat,
         handler' = [handler EXCEPT ![h] = [handler[h] EXCEPT !.at = s, !.seen = v]],
         UNCHANGED <<version, loginRow, issued>>,
         handler[h].at # "commit", v <= version \/ s \notin {"create", "rotate"},
         s \in Needing => handler[h].pair \in Session!Pairs,
         s \in Checks => handler[h].at \in Checks,
         handler[h].dead =>
           /\ s \in Checks
           /\ s = "row" => loginRow[handler[h].pair[1]].status = "revoked"
  PROVE  SessInv'
<1> DEFINE y == handler[h]
           x == [y EXCEPT !.at = s, !.seen = v]
<1>1. Fits(y) /\ y \in HandlerRow BY DEF SessInv, Fits
<1>2. /\ x.at = s /\ x.seen = v /\ x.pair = y.pair /\ x.rows = y.rows /\ x.dead = y.dead
         /\ x.aim = y.aim
      /\ x \in HandlerRow
  <2> HIDE DEF y
  <2>1. s \in Needing \cup {"idle", "compare", "consume", "create", "list", "commit"} OBVIOUS
  <2> QED BY <1>1, <2>1 DEF HandlerRow
<1>3. handler' = [handler EXCEPT ![h] = x] OBVIOUS
<1>4. s # "commit" BY DEF Needing
<1> HIDE DEF x
<1>5. Fits(x)
  <2>1. DOMAIN x.rows = {} BY <1>1, <1>2 DEF Fits
  <2>3. x.at \in Checks => x.aim \in {"call", "logout", "revoke"} BY <1>1, <1>2 DEF Fits
  <2>2. x.dead => issued[x.pair] # -1
                  /\ (loginRow[x.pair[1]].status = "revoked" \/ issued[x.pair] < version)
    BY <1>1, <1>2 DEF Fits
  <2> QED BY <1>2, <1>4, <2>1, <2>2, <2>3 DEF Fits
<1> QED BY <1>2, <1>3, <1>4, <1>5, SessGo

\* A handler moves on with what it holds.
LEMMA SessGoOn ==
  ASSUME SessInv, NEW h \in Handlers, NEW s \in {"consume", "mark", "user"}, Session!Go(h, s),
         (handler[h].at = "compare" /\ s = "consume") \/ handler[h].at \in {"session", "mark"},
         UNCHANGED <<version, loginRow, issued>>
  PROVE  SessInv'
<1> DEFINE y == handler[h]
<1>1. Fits(y) /\ y \in HandlerRow BY DEF SessInv, Fits
<1>2. handler' = [handler EXCEPT ![h] = [y EXCEPT !.at = s, !.seen = y.seen]]
  <2>1. y = [y EXCEPT !.seen = y.seen] BY <1>1 DEF HandlerRow
  <2> QED BY <1>1, <2>1 DEF Session!Go, SessInv, HandlerRow
<1> HIDE DEF y
<1>3. y.seen \in Nat /\ y.at # "commit" /\ s \notin Checks /\ ~y.dead
      /\ (s \in Needing => y.pair \in Session!Pairs)
  BY <1>1 DEF Fits, HandlerRow, Needing, Checks, y
<1> QED BY <1>2, <1>3, SessAdvance DEF y, Needing, Checks

\* A commit keeps the invariant, and what it writes keeps what is revoked so.
LEMMA SessCommit ==
  ASSUME SessInv, NEW h \in Handlers, Session!Commit(h)
  PROVE  /\ SessInv'
         /\ \A s \in SessionKeys : loginRow[s].status = "revoked" => loginRow'[s].status = "revoked"
<1> DEFINE y == handler[h]
<1>1. Fits(y) /\ y \in HandlerRow /\ Fits(Session!Resting) BY RestingFits DEF SessInv, Fits
<1>2. PICK S \in SUBSET SessionKeys : y.rows \in [S -> Session!LoginRow]
  <2>1. y.rows \in UNION {[S -> Session!LoginRow] : S \in SUBSET SessionKeys} BY <1>1 DEF HandlerRow
  <2> QED BY <2>1
<1>3. \A s \in SessionKeys :
        loginRow'[s] = IF s \in DOMAIN y.rows THEN y.rows[s] ELSE loginRow[s]
  BY DEF Session!Commit
<1>4. loginRow' \in [SessionKeys -> Session!LoginRow]
  <2>1. \A s \in SessionKeys : loginRow'[s] \in Session!LoginRow BY <1>2, <1>3 DEF SessInv
  <2>2. DOMAIN loginRow' = SessionKeys /\ loginRow' = [s \in SessionKeys |-> loginRow'[s]]
    BY DEF Session!Commit
  <2> QED BY <2>1, <2>2
<1>5. \A s \in SessionKeys : loginRow[s].status = "revoked" => loginRow'[s].status = "revoked"
  BY <1>1, <1>3 DEF Fits, Lasting
<1>6. version' \in Nat /\ version <= version' BY DEF Session!Commit, SessInv
<1>7. issued' = issued BY DEF Session!Commit
<1>8. \A p \in Session!Pairs : issued'[p] <= version' BY <1>6, <1>7 DEF SessInv
<1>9. /\ DOMAIN handler' = Handlers /\ handler'[h] = Session!Resting
      /\ \A g \in Handlers \ {h} : handler'[g] = handler[g]
  BY DEF Session!Commit, Session!End, SessInv
<1>10. DOMAIN Session!Resting.rows = {} /\ Session!Resting.dead = FALSE
       /\ Session!Resting.at = "idle"
  BY DEF Session!Resting, Session!NoRows
<1>11. \A s : First(s) => First(s)' BY <1>7 DEF First
<1>12. Fits(Session!Resting)'
    BY <1>1, <1>10 DEF Fits, Needing, Checks, Session!Resting, Session!NoRows
<1>13. ASSUME NEW x, Fits(x), DOMAIN x.rows \cap DOMAIN y.rows = {} PROVE Fits(x)'
  <2>1. DOMAIN x.rows \subseteq SessionKeys
    <3>1. x.rows \in UNION {[T -> Session!LoginRow] : T \in SUBSET SessionKeys}
      BY <1>13 DEF Fits, HandlerRow
    <3> QED BY <3>1
  <2>2. \A s \in DOMAIN x.rows : First(s)' /\ Lasting(s, x.rows[s])'
    BY <1>3, <1>11, <1>13, <2>1 DEF Fits, Lasting
  <2>3. x.dead => x.pair[1] \in SessionKeys /\ issued[x.pair] \in Int
    <3>1. x.dead => x.pair \in Session!Pairs BY <1>13 DEF Fits, Needing, Checks
    <3>2. \A p \in Session!Pairs : p[1] \in SessionKeys BY DEF Session!Pairs
    <3>3. \A p \in Session!Pairs : issued[p] \in Int BY DEF SessInv
    <3> QED BY <3>1, <3>2, <3>3
  <2>4. x.seen \in Nat /\ version \in Nat BY <1>13 DEF Fits, HandlerRow, SessInv
  <2>5. x.at \in {"create", "rotate"} => x.seen <= version'
    <3>1. x.at \in {"create", "rotate"} => x.seen <= version BY <1>13 DEF Fits
    <3> QED BY <1>6, <2>4, <3>1
  <2>6. x.dead => /\ x.at \in Checks
                  /\ issued'[x.pair] # -1
                  /\ x.at = "row" => loginRow'[x.pair[1]].status = "revoked"
    BY <1>5, <1>7, <1>13, <2>3 DEF Fits
  <2>7. x.dead => loginRow'[x.pair[1]].status = "revoked" \/ issued'[x.pair] < version'
    <3>1. x.dead => loginRow[x.pair[1]].status = "revoked" \/ issued[x.pair] < version
      BY <1>13 DEF Fits
    <3> QED BY <1>5, <1>6, <1>7, <2>3, <2>4, <3>1
  <2>8. x \in HandlerRow /\ (x.at \in Needing => x.pair \in Session!Pairs)
        /\ (x.at # "commit" => DOMAIN x.rows = {})
        /\ (x.at \in Checks => x.aim \in {"call", "logout", "revoke"})
    BY <1>13 DEF Fits
  <2> QED BY <2>2, <2>5, <2>6, <2>7, <2>8 DEF Fits
<1>14. \A g \in Handlers : Fits(handler[g])' BY <1>9, <1>12, <1>13 DEF SessInv
<1>15. \A g, j \in Handlers : g # j => DOMAIN handler'[g].rows \cap DOMAIN handler'[j].rows = {}
  BY <1>9, <1>10 DEF SessInv
<1>16. \A s \in SessionKeys : Numbered(s)' /\ (loginRow'[s].status # "none" => First(s)')
  <2>1. ASSUME NEW s \in SessionKeys PROVE loginRow'[s].status # "none" => First(s)
    BY <1>1, <1>3 DEF SessInv, Fits
  <2> QED BY <1>7, <1>11, <2>1 DEF SessInv, Numbered
<1>17. issued' \in [Session!Pairs -> Nat \cup {-1}] BY <1>7 DEF SessInv
<1> QED BY <1>4, <1>5, <1>6, <1>8, <1>9, <1>14, <1>15, <1>16, <1>17 DEF SessInv

\* Each step of a session's handlers keeps it.
LEMMA SessStep == SessInv /\ Session!Next => SessInv'
<1> SUFFICES ASSUME SessInv, Session!Next PROVE SessInv' OBVIOUS
<1> USE DEF Session!At
<1>1. /\ version \in Nat
      /\ \A p \in Session!Pairs : issued[p] <= version /\ issued[p] \in Int
  BY DEF SessInv
<1>2. \A h \in Handlers : handler[h].seen \in Nat /\ Fits(handler[h])
  BY DEF SessInv, Fits, HandlerRow
<1>3. ASSUME Session!SendVerificationCode \/ Session!CodeExpires \/ Session!UnbanUser
             \/ \E p \in Session!Pairs : Session!TimePasses(p)
      PROVE  SessInv'
  BY <1>3, SessRest DEF Session!SendVerificationCode, Session!CodeExpires, Session!UnbanUser,
       Session!TimePasses
<1>4. ASSUME NEW h \in Handlers, Session!CountAttempt(h) PROVE SessInv'
  <2>1. Session!Start(h, "login", Session!NoPair, "compare") \/ UNCHANGED handler
    BY <1>4 DEF Session!CountAttempt
  <2>2. UNCHANGED <<version, loginRow, issued>> BY <1>4 DEF Session!CountAttempt
  <2> QED BY <2>1, <2>2, SessStart, SessRest
<1>5. ASSUME NEW h \in Handlers, Session!Compare(h) PROVE SessInv'
  <2>1. Session!Go(h, "consume") \/ Session!End(h) BY <1>5 DEF Session!Compare
  <2>2. UNCHANGED <<version, loginRow, issued>> /\ handler[h].at = "compare"
    BY <1>5 DEF Session!Compare
  <2> QED BY <2>1, <2>2, SessGoOn, SessEnd
<1>6. ASSUME NEW h \in Handlers, Session!Consume(h) PROVE SessInv'
  <2>1. handler' = [handler EXCEPT ![h] = [handler[h] EXCEPT !.at = "create", !.seen = version]]
    BY <1>6 DEF Session!Consume, SessInv
  <2>2. UNCHANGED <<version, loginRow, issued>> /\ handler[h].at = "consume"
    BY <1>6 DEF Session!Consume
  <2>3. ~handler[h].dead BY <1>2, <2>2 DEF Fits, Checks
  <2>4. version <= version /\ "create" \notin Needing \cup Checks BY <1>1 DEF Needing, Checks
  <2> QED BY <1>1, <2>1, <2>2, <2>3, <2>4, SessAdvance
<1>7. ASSUME NEW h \in Handlers, NEW s \in SessionKeys, Session!CreateSession(h, s) PROVE SessInv'
  <2> DEFINE row == [status |-> "active", cur |-> 1]
             x == [handler[h] EXCEPT !.at = "commit", !.rows = [t \in {s} |-> row]]
  <2>1. /\ handler[h].at = "create" /\ loginRow[s].status = "none" /\ Session!NextPair(s) = 1
        /\ Session!CreateTokens(h, s) /\ UNCHANGED <<version, loginRow>>
    BY <1>7 DEF Session!CreateSession
  <2>2. handler' = [handler EXCEPT ![h] = x] BY <1>7 DEF Session!CreateSession, SessInv
  <2>3. MaxPairs \in Nat /\ MaxPairs >= 1
    BY <2>1, AccessAssumption DEF AccessAssumption, Session!CreateTokens
  <2>4. row \in Session!LoginRow /\ row.status = "active" BY <2>3 DEF Session!LoginRow
  <2>5. ~First(s)
    <3>1. 1 \in 1..MaxPairs BY <2>3
    <3>2. ~(1 < Session!NextPair(s)) BY <2>1
    <3> QED BY <3>1, <3>2, NextIsNew DEF First
  <2>6. \A g \in Handlers \ {h} : s \notin DOMAIN handler[g].rows BY <2>5 DEF SessInv, Fits
  <2>7. handler[h].seen <= version /\ handler[h].dead = FALSE
    BY <1>2, <2>1 DEF Fits, HandlerRow, Checks
  <2> HIDE DEF row
  <2>8. [t \in {s} |-> row] \in [{s} -> Session!LoginRow] BY <2>4
  <2>9. [t \in {s} |-> row] \in UNION {[S -> Session!LoginRow] : S \in SUBSET SessionKeys}
    BY <2>8
  <2>10. x \in HandlerRow /\ x.at = "commit" /\ x.dead = FALSE /\ x.rows = [t \in {s} |-> row]
    BY <1>2, <2>7, <2>9 DEF Fits, HandlerRow, Checks
  <2> HIDE DEF x
  <2>11. \A t \in DOMAIN x.rows : Lasting(t, x.rows[t]) BY <2>1, <2>4, <2>10 DEF Lasting
  <2> QED BY <2>1, <2>2, <2>6, <2>7, <2>10, <2>11, SessIssue
<1>8. ASSUME NEW h \in Handlers, NEW p \in Session!Pairs, Session!RefreshTokens(h, p) PROVE SessInv'
  <2>1. \/ Session!Start(h, "refresh", p, "session")
        \/ Session!Start(h, "purge", p, "list")
        \/ UNCHANGED handler
    BY <1>8 DEF Session!RefreshTokens
  <2>2. UNCHANGED <<version, loginRow, issued>> BY <1>8 DEF Session!RefreshTokens
  <2> QED BY <2>1, <2>2, SessStart, SessRest
<1>9. ASSUME NEW h \in Handlers, Session!CheckSession(h) PROVE SessInv'
  <2>1. Session!Go(h, "mark") \/ Session!End(h) BY <1>9 DEF Session!CheckSession
  <2>2. UNCHANGED <<version, loginRow, issued>> /\ handler[h].at = "session"
    BY <1>9 DEF Session!CheckSession
  <2> QED BY <2>1, <2>2, SessGoOn, SessEnd
<1>10. ASSUME NEW h \in Handlers, Session!MarkUsed(h) PROVE SessInv'
  BY <1>10, SessGoOn DEF Session!MarkUsed
<1>11. ASSUME NEW h \in Handlers, Session!CheckUser(h) PROVE SessInv'
  <2>1. \/ Session!End(h)
        \/ handler' = [handler EXCEPT ![h] = [handler[h] EXCEPT !.at = "rotate", !.seen = version]]
    BY <1>11 DEF Session!CheckUser, SessInv
  <2>2. UNCHANGED <<version, loginRow, issued>> /\ handler[h].at = "user"
    BY <1>11 DEF Session!CheckUser
  <2>3. ~handler[h].dead /\ handler[h].pair \in Session!Pairs
      BY <1>2, <2>2 DEF Fits, Needing, Checks
  <2>4. version <= version /\ "rotate" \in Needing \ Checks BY <1>1 DEF Needing, Checks
  <2> QED BY <1>1, <2>1, <2>2, <2>3, <2>4, SessAdvance, SessEnd
<1>12. ASSUME NEW h \in Handlers, Session!RotateTokens(h) PROVE SessInv'
  <2> DEFINE s == handler[h].pair[1]
             n == Session!NextPair(s)
             rows == IF loginRow[s].status = "active"
                     THEN [t \in {s} |-> [loginRow[s] EXCEPT !.cur = n]] ELSE Session!NoRows
             x == [handler[h] EXCEPT !.at = "commit", !.rows = rows]
  <2>1. /\ handler[h].at = "rotate" /\ ~Session!Locked(h, s)
        /\ Session!CreateTokens(h, s) /\ UNCHANGED <<version, loginRow>>
    BY <1>12 DEF Session!RotateTokens
  <2>2. handler' = [handler EXCEPT ![h] = x] BY <1>12 DEF Session!RotateTokens, SessInv
  <2>3. s \in SessionKeys BY <1>2, <2>1 DEF Fits, Needing, Session!Pairs, Checks
  <2>4. n \in 0..MaxPairs
    <3>1. n \in Nat \ {0} /\ n <= MaxPairs BY <2>1, <2>3, NextIsNew DEF Session!CreateTokens
    <3>2. MaxPairs \in Nat BY AccessAssumption DEF AccessAssumption
    <3> HIDE DEF n
    <3> QED BY <3>1, <3>2
  <2>5. handler[h].seen <= version /\ handler[h].dead = FALSE
    BY <1>2, <2>1 DEF Fits, HandlerRow, Checks
  <2> HIDE DEF s, n
  <2>6. rows \in UNION {[S -> Session!LoginRow] : S \in SUBSET SessionKeys}
        /\ DOMAIN rows \subseteq {s} /\ \A t \in DOMAIN rows : Lasting(t, rows[t])
    <3>1. CASE loginRow[s].status = "active"
      <4>1. loginRow[s] \in Session!LoginRow BY <2>3 DEF SessInv
      <4>2. [loginRow[s] EXCEPT !.cur = n] \in Session!LoginRow
            /\ [loginRow[s] EXCEPT !.cur = n].status = "active"
        BY <2>4, <3>1, <4>1 DEF Session!LoginRow
      <4> DEFINE row == [loginRow[s] EXCEPT !.cur = n]
      <4>3. rows = [t \in {s} |-> row] BY <3>1
      <4> HIDE DEF row, rows
      <4>4. rows \in [{s} -> Session!LoginRow] BY <4>2, <4>3 DEF row
      <4> QED BY <2>3, <3>1, <4>2, <4>3, <4>4 DEF row, Lasting
    <3>2. CASE loginRow[s].status # "active"
      <4>1. rows = Session!NoRows BY <3>2
      <4>2. Session!NoRows \in [{} -> Session!LoginRow] /\ DOMAIN Session!NoRows = {}
        BY DEF Session!NoRows
      <4> HIDE DEF rows
      <4> QED BY <4>1, <4>2
    <3> QED BY <3>1, <3>2
  <2> HIDE DEF rows
  <2>7. x \in HandlerRow /\ x.at = "commit" /\ x.dead = FALSE /\ x.rows = rows
    BY <1>2, <2>5, <2>6 DEF Fits, HandlerRow, Checks
  <2>8. \A g \in Handlers \ {h} : s \notin DOMAIN handler[g].rows BY <2>1 DEF Session!Locked
  <2> HIDE DEF x
  <2> QED BY <2>1, <2>2, <2>3, <2>5, <2>6, <2>7, <2>8, SessIssue
<1>13. ASSUME NEW h \in Handlers, NEW p \in Session!Pairs, NEW aim \in {"call", "logout", "revoke"},
              Session!Authenticate(h, aim, p)
       PROVE  SessInv'
  <2> DEFINE d == aim = "call" /\ Session!Revoked(p)
             x == [Session!Resting EXCEPT !.at = "blacklist", !.aim = aim, !.pair = p, !.dead = d]
  <2>1. issued[p] # -1 /\ UNCHANGED <<version, loginRow, issued>>
    BY <1>13 DEF Session!Authenticate
  <2>2. handler' = [handler EXCEPT ![h] = x] BY <1>13 DEF Session!Authenticate
  <2>3. d \in BOOLEAN OBVIOUS
  <2>4. d => loginRow[p[1]].status = "revoked" \/ issued[p] < version
    BY <1>1 DEF Session!Revoked
  <2> HIDE DEF d
  <2>5. Fits(Session!Resting) BY RestingFits
  <2>6. Session!Resting \in HandlerRow /\ DOMAIN Session!Resting.rows = {}
    BY <2>5 DEF Session!Resting, Fits, Session!NoRows, Checks
  <2>7. /\ x.at = "blacklist" /\ x.aim = aim /\ x.pair = p /\ x.dead = d /\ DOMAIN x.rows = {}
        /\ x \in HandlerRow
    BY <2>3, <2>6 DEF HandlerRow, Needing
  <2> HIDE DEF x
  <2>8. Fits(x) BY <2>1, <2>4, <2>7 DEF Fits, Checks
  <2> QED BY <2>1, <2>2, <2>7, <2>8, SessGo
<1>14. ASSUME NEW h \in Handlers, Session!Check(h) PROVE SessInv'
  <2> DEFINE y == handler[h]
  <2>1. /\ UNCHANGED <<version, loginRow, issued>> /\ y.at \in Checks
        /\ y.pair \in Session!Pairs /\ y.pair[1] \in SessionKeys
    BY <1>2, <1>14 DEF Session!Check, Fits, Needing, Checks, Session!Pairs
  <2>2. CASE ~Session!Passes(y.at, y.pair)
    BY <1>14, <2>1, <2>2, SessEnd DEF Session!Check
  <2>3. CASE Session!Passes(y.at, y.pair)
    <3> DEFINE s == Session!After(y.at, y.aim)
               v == IF y.at = "row" THEN loginRow[y.pair[1]].cur ELSE 0
    <3>1. handler' = [handler EXCEPT ![h] = [y EXCEPT !.at = s, !.seen = v]]
      BY <1>14, <2>3 DEF Session!Check, SessInv
    <3>2. v \in Nat
      <4>1. loginRow[y.pair[1]].cur \in 0..MaxPairs BY <2>1 DEF SessInv, Session!LoginRow
      <4>2. MaxPairs \in Nat BY AccessAssumption DEF AccessAssumption
      <4> QED BY <4>1, <4>2
    <3>3. CASE y.at = "blacklist"
      <4>1. s = "user row" BY <3>3 DEF Session!After
      <4> QED BY <1>2, <2>1, <3>1, <3>2, <3>3, <4>1, SessAdvance DEF Needing, Checks, Fits
    <3>4. CASE y.at = "user row"
      <4>1. s = "row" /\ issued[y.pair] = version BY <2>3, <3>4 DEF Session!After, Session!Passes
      <4>2. y.dead => loginRow[y.pair[1]].status = "revoked"
        <5>1. Fits(y) /\ ~(issued[y.pair] < version) BY <1>1, <1>2, <4>1
        <5> HIDE DEF y
        <5> QED BY <5>1 DEF Fits
      <4> QED BY <2>1, <3>1, <3>2, <3>4, <4>1, <4>2, SessAdvance DEF Needing, Checks
    <3>5. CASE y.at = "row"
      <4>1. /\ s = IF y.aim = "call" THEN "accepted" ELSE y.aim
            /\ loginRow[y.pair[1]].status = "active"
        BY <2>3, <3>5 DEF Session!After, Session!Passes
      <4>2. ~y.dead BY <1>2, <3>5, <4>1 DEF Fits, Checks
      <4>3. y.aim \in {"call", "logout", "revoke"} BY <1>2, <2>1 DEF Fits, Checks
      <4> QED BY <2>1, <3>1, <3>2, <3>5, <4>1, <4>2, <4>3, SessAdvance DEF Needing, Checks
    <3> QED BY <2>1, <3>3, <3>4, <3>5 DEF Checks
  <2> QED BY <2>2, <2>3
<1>15. ASSUME NEW h \in Handlers, Session!Answered(h) \/ Session!Abort(h) PROVE SessInv'
  BY <1>15, SessEnd DEF Session!Answered, Session!Abort
<1>16. ASSUME NEW h \in Handlers, Session!Logout(h) PROVE SessInv'
  <2> DEFINE s == handler[h].pair[1]
  <2>1. UNCHANGED <<version, loginRow, issued>> /\ handler[h].at = "logout" /\ ~Session!Locked(h, s)
    BY <1>16 DEF Session!Logout
  <2>2. s \in SessionKeys BY <1>2, <2>1 DEF Fits, Needing, Session!Pairs, Checks
  <2>3. handler[h].dead = FALSE BY <1>2, <2>1 DEF Fits, HandlerRow, Checks
  <2>4. \/ /\ loginRow[s].status = "active"
           /\ Session!Invalidate(h, {s}, {handler[h].pair, <<s, handler[h].seen>>})
        \/ Session!Invalidate(h, {}, {handler[h].pair})
    BY <1>16 DEF Session!Logout
  <2> HIDE DEF s
  <2>5. {s} \in SUBSET SessionKeys /\ {} \in SUBSET SessionKeys BY <2>2
  <2> QED BY <2>1, <2>3, <2>4, <2>5, SessInvalidate
<1>17. ASSUME NEW h \in Handlers, NEW s \in SessionKeys, Session!RevokeLoginSession(h, s)
       PROVE  SessInv'
  <2>1. UNCHANGED <<version, loginRow, issued>> /\ handler[h].at = "revoke" /\ ~Session!Locked(h, s)
    BY <1>17 DEF Session!RevokeLoginSession
  <2>2. handler[h].dead = FALSE BY <1>2, <2>1 DEF Fits, HandlerRow, Checks
  <2>3. \/ loginRow[s].status = "active" /\ Session!Invalidate(h, {s}, {<<s, loginRow[s].cur>>})
        \/ Session!End(h)
    BY <1>17 DEF Session!RevokeLoginSession
  <2>4. {s} \in SUBSET SessionKeys OBVIOUS
  <2> QED BY <2>1, <2>2, <2>3, <2>4, SessInvalidate, SessEnd
<1>18. ASSUME NEW h \in Handlers, Session!BanUser(h) PROVE SessInv'
  BY <1>18, SessStart DEF Session!BanUser
<1>19. ASSUME NEW h \in Handlers, Session!RevokeAllTokens(h) PROVE SessInv'
  <2> DEFINE ss == {s \in SessionKeys : loginRow[s].status = "active"}
             ps == {<<s, loginRow[s].cur>> : s \in ss}
  <2>1. /\ UNCHANGED <<version, loginRow, issued>> /\ handler[h].at = "list"
        /\ \A s \in ss : ~Session!Locked(h, s)
        /\ Session!Invalidate(h, ss, ps)
    BY <1>19 DEF Session!RevokeAllTokens
  <2>2. handler[h].dead = FALSE BY <1>2, <2>1 DEF Fits, HandlerRow, Checks
  <2>3. ss \in SUBSET SessionKeys /\ \A s \in ss : loginRow[s].status # "none" OBVIOUS
  <2> HIDE DEF ss, ps
  <2> QED BY <2>1, <2>2, <2>3, SessInvalidate
<1> QED BY <1>3, <1>4, <1>5, <1>6, <1>7, <1>8, <1>9, <1>10, <1>11, <1>12, <1>13, <1>14, <1>15,
           <1>16, <1>17, <1>18, <1>19, SessCommit DEF Session!Next

\* Only a commit changes a row, and no handler holds a row that revives its session.
LEMMA SessStays ==
  ASSUME SessInv, Session!Next, NEW s \in SessionKeys, loginRow[s].status = "revoked"
  PROVE  loginRow'[s].status = "revoked"
<1>1. CASE \E h \in Handlers : Session!Commit(h) BY <1>1, SessCommit
<1>2. CASE ~\E h \in Handlers : Session!Commit(h)
  <2>1. UNCHANGED loginRow
    BY <1>2 DEF Session!Next, Session!SendVerificationCode, Session!CodeExpires, Session!UnbanUser,
      Session!TimePasses, Session!CountAttempt, Session!Compare, Session!Consume,
      Session!CheckSession, Session!MarkUsed, Session!CheckUser, Session!RotateTokens,
      Session!Check, Session!Answered, Session!Logout, Session!BanUser, Session!RevokeAllTokens,
      Session!Abort, Session!CreateSession, Session!RevokeLoginSession, Session!RefreshTokens,
      Session!Authenticate
  <2> QED BY <2>1
<1> QED BY <1>1, <1>2

\* What a check refused has ended, so no accepted request was dead on arrival.
LEMMA SessRefuses == SessInv => Session!RevokedIsRefused
<1> SUFFICES ASSUME SessInv, NEW h \in Handlers, handler[h].at = "accepted", handler[h].dead
             PROVE  FALSE
  BY DEF Session!RevokedIsRefused, Session!At
<1> QED BY DEF SessInv, Fits, Checks

-----------------------------------------------------------------------------
(* Invitation codes: while codes are required, who reserved one holds it alone. *)

\* The stages of a sign-up that has reserved its code and has no account yet.
Holding == {"window", "claim", "keep", "create", "give back", "undo"}

\* A code, or none.
AnInvite == Invites \cup {Signup!NoInvite}

\* What a sign-up holds.
Sign(x) ==
  /\ DOMAIN x = {"at", "who", "code", "way", "read"}
  /\ x.code \in AnInvite
  /\ x.at # "idle" => x.who \in Emails
  /\ control /\ x.at \in Holding \cup {"reserve"} => x.code \in Invites

\* One sign-up in progress or one account has a code that is not unused.
SignInv ==
  /\ invite \in [Invites -> Signup!InviteStatus]
  /\ tempInvite \in [Emails -> AnInvite]
  /\ account \in [Emails -> AnInvite \cup {Signup!NoEmail}]
  /\ DOMAIN applicant = Applicants
  /\ \A a \in Applicants : Sign(applicant[a])
  /\ control =>
       /\ \A e, f \in Emails : account[e] = account[f] /\ account[e] # Signup!NoEmail => e = f
       /\ \A a, b \in Applicants : applicant[a].at \in Holding /\ applicant[b].at \in Holding
            /\ applicant[a].code = applicant[b].code => a = b
       /\ \A a \in Applicants, e \in Emails :
            applicant[a].at \in Holding => account[e] # applicant[a].code
       /\ \A a \in Applicants : applicant[a].at \in Holding => invite[applicant[a].code] # "unused"
       /\ \A e \in Emails : account[e] # Signup!NoEmail =>
            account[e] \in Invites /\ invite[account[e]] # "unused"

\* The names of what is absent are no codes and no addresses.
LEMMA SignNames == /\ Signup!NoInvite \notin Invites /\ Signup!NoEmail \notin Invites
                   /\ Signup!NoEmail \notin Emails /\ Signup!NoEmail # Signup!NoInvite
BY AccessAssumption DEF AccessAssumption, Signup!NoInvite, Signup!NoEmail

\* It holds before the first sign-up.
LEMMA SignInit == Signup!Init => SignInv
<1> SUFFICES ASSUME Signup!Init PROVE SignInv OBVIOUS
<1>1. \A a \in Applicants : applicant[a].at = "idle" /\ applicant[a].code = Signup!NoInvite
  BY DEF Signup!Init, Signup!Gone
<1>2. \A e \in Emails : account[e] = Signup!NoEmail BY DEF Signup!Init
<1>3. /\ invite \in [Invites -> Signup!InviteStatus] /\ tempInvite \in [Emails -> AnInvite]
      /\ account \in [Emails -> AnInvite \cup {Signup!NoEmail}] /\ DOMAIN applicant = Applicants
  BY DEF Signup!Init, Signup!InviteStatus, AnInvite
<1>4. Sign(Signup!Gone) BY DEF Signup!Gone, Sign, Holding, AnInvite
<1>5. \A a \in Applicants : Sign(applicant[a]) BY <1>4 DEF Signup!Init
<1> QED BY <1>1, <1>2, <1>3, <1>5 DEF SignInv, Holding

\* A sign-up that moves on, while no code becomes unused.
LEMMA SignMove ==
  ASSUME SignInv, NEW a \in Applicants, NEW x, applicant' = [applicant EXCEPT ![a] = x], Sign(x),
         UNCHANGED <<control, account>>, tempInvite' \in [Emails -> AnInvite],
         invite' \in [Invites -> Signup!InviteStatus],
         \A c \in Invites : invite'[c] = "unused" => invite[c] = "unused",
         control /\ x.at \in Holding => applicant[a].at \in Holding /\ x.code = applicant[a].code
  PROVE  SignInv'
<1>1. DOMAIN applicant' = Applicants /\ applicant'[a] = x
      /\ \A b \in Applicants \ {a} : applicant'[b] = applicant[b]
  BY DEF SignInv
<1>2. \A b \in Applicants : Sign(applicant[b])'
  <2>1. \A y : Sign(y) => Sign(y)' BY DEF Sign, AnInvite
  <2> QED BY <1>1, <2>1 DEF SignInv
<1>3. control => \A b \in Applicants : applicant'[b].at \in Holding =>
        applicant[b].at \in Holding /\ applicant'[b].code = applicant[b].code
  BY <1>1
<1>4. account' \in [Emails -> AnInvite \cup {Signup!NoEmail}] BY DEF SignInv
<1>5. control => \A b \in Applicants : applicant[b].at \in Holding => applicant[b].code \in Invites
  BY DEF SignInv, Sign
<1> QED BY <1>1, <1>2, <1>3, <1>4, <1>5 DEF SignInv, AnInvite

\* No sign-up moves, and no code becomes free.
LEMMA SignRest ==
  ASSUME SignInv, UNCHANGED <<control, account, applicant>>, tempInvite' \in [Emails -> AnInvite],
         invite' \in [Invites -> Signup!InviteStatus],
         \A c \in Invites : invite'[c] = "unused" => invite[c] = "unused"
  PROVE  SignInv'
<1>1. \A b \in Applicants : Sign(applicant[b])' BY DEF SignInv, Sign, AnInvite
<1>2. control => \A b \in Applicants : applicant[b].at \in Holding => applicant[b].code \in Invites
  BY DEF SignInv, Sign
<1>3. DOMAIN applicant' = Applicants /\ account' \in [Emails -> AnInvite \cup {Signup!NoEmail}]
  BY DEF SignInv
<1> QED BY <1>1, <1>2, <1>3 DEF SignInv, AnInvite

\* A sign-up ends.
LEMMA SignEnd ==
  ASSUME SignInv, NEW a \in Applicants, Signup!End(a), UNCHANGED <<control, account>>,
         tempInvite' \in [Emails -> AnInvite], invite' \in [Invites -> Signup!InviteStatus],
         \A c \in Invites : invite'[c] = "unused" => invite[c] = "unused"
  PROVE  SignInv'
<1>1. Signup!Gone.at = "idle" /\ Sign(Signup!Gone) BY DEF Signup!Gone, Sign, AnInvite, Holding
<1> QED BY <1>1, SignMove DEF Signup!End, Holding

\* A sign-up goes to a stage with the code it has.
LEMMA SignGo ==
  ASSUME SignInv, NEW a \in Applicants, NEW s, Signup!Go(a, s),
      UNCHANGED <<control, account, tempInvite>>,
         applicant[a].at # "idle", s # "reserve",
         invite' \in [Invites -> Signup!InviteStatus],
         \A c \in Invites : invite'[c] = "unused" => invite[c] = "unused",
         control /\ s \in Holding => applicant[a].at \in Holding
  PROVE  SignInv'
<1> DEFINE y == applicant[a]
           x == [y EXCEPT !.at = s]
<1>1. Sign(y) BY DEF SignInv
<1>2. applicant' = [applicant EXCEPT ![a] = x] BY DEF Signup!Go
<1> HIDE DEF y
<1>3. x.at = s /\ x.who = y.who /\ x.code = y.code /\ Sign(x)
  BY <1>1 DEF Sign, Holding, y
<1> HIDE DEF x
<1>4. tempInvite' \in [Emails -> AnInvite] BY DEF SignInv
<1> QED BY <1>2, <1>3, <1>4, SignMove DEF y

\* Each step of a sign-up keeps it.
LEMMA SignStep == SignInv /\ Signup!Next => SignInv'
<1> SUFFICES ASSUME SignInv, Signup!Next PROVE SignInv' OBVIOUS
<1> USE DEF Signup!At
<1>1. ASSUME NEW a \in Applicants PROVE Sign(applicant[a]) BY DEF SignInv
<1>2. /\ tempInvite \in [Emails -> AnInvite] /\ invite \in [Invites -> Signup!InviteStatus]
  BY DEF SignInv
<1>3. ASSUME Signup!ActivateWindow \/ Signup!CloseWindow \/ Signup!WindowTime
             \/ \E c \in Invites : Signup!InviteExpires(c)
      PROVE  SignInv'
  BY <1>2, <1>3, SignRest DEF Signup!ActivateWindow, Signup!CloseWindow, Signup!WindowTime,
    Signup!InviteExpires
<1>4. ASSUME NEW c \in Invites, Signup!RevokeInvite(c) PROVE SignInv'
  <2>1. invite' = [invite EXCEPT ![c] = "revoked"] BY <1>4 DEF Signup!RevokeInvite
  <2>2. invite' \in [Invites -> Signup!InviteStatus] BY <1>2, <2>1 DEF Signup!InviteStatus
  <2> QED BY <1>2, <1>4, <2>1, <2>2, SignRest DEF Signup!RevokeInvite
<1>5. ASSUME NEW e \in Emails, Signup!TempInviteExpires(e) PROVE SignInv'
  <2>1. tempInvite' \in [Emails -> AnInvite]
    BY <1>2, <1>5 DEF Signup!TempInviteExpires, AnInvite
  <2> QED BY <1>2, <1>5, <2>1, SignRest DEF Signup!TempInviteExpires
<1>6. ASSUME NEW a \in Applicants, NEW e \in Emails, NEW c \in Invites,
             Signup!SendLoginCode(a, e, c)
      PROVE  SignInv'
  <2> DEFINE x == [Signup!Gone EXCEPT !.at = "reserve", !.who = e, !.code = c, !.way = "send"]
  <2>1. applicant' = [applicant EXCEPT ![a] = x] BY <1>6 DEF Signup!SendLoginCode
  <2>2. x.at = "reserve" /\ Sign(x) BY DEF Signup!Gone, Sign, Holding, AnInvite
  <2> HIDE DEF x
  <2> QED BY <1>2, <1>6, <2>1, <2>2, SignMove DEF Signup!SendLoginCode, Holding
<1>7. ASSUME NEW a \in Applicants, NEW e \in Emails, NEW c \in AnInvite,
             NEW way \in {"mail", "oauth"}, Signup!Provision(a, e, c, way)
      PROVE  SignInv'
  <2> DEFINE k == IF way = "mail" /\ c = Signup!NoInvite THEN tempInvite[e] ELSE c
             x == [Signup!Gone EXCEPT !.at = IF control THEN "reserve" ELSE "create",
                                      !.who = e, !.code = k, !.way = way]
  <2>1. applicant' = [applicant EXCEPT ![a] = x] /\ (control => k # Signup!NoInvite)
        /\ UNCHANGED <<control, invite, tempInvite, account>>
    BY <1>7 DEF Signup!Provision, Signup!EnsureCanRegister
  <2>2. k \in AnInvite BY <1>2
  <2> HIDE DEF k
  <2>3. x.at = (IF control THEN "reserve" ELSE "create") /\ Sign(x)
    BY <2>1, <2>2 DEF Signup!Gone, Sign, Holding, AnInvite
  <2> HIDE DEF x
  <2> QED BY <1>2, <2>1, <2>3, SignMove DEF Holding
<1>8. ASSUME NEW a \in Applicants, Signup!Reserve(a) PROVE SignInv'
  <2> DEFINE c == applicant[a].code
  <2>1. applicant[a].at = "reserve" /\ UNCHANGED <<control, account, tempInvite>>
    BY <1>8 DEF Signup!Reserve
  <2>2. CASE invite[c] # "unused"
    <3>1. Signup!Go(a, "refused") /\ UNCHANGED invite BY <1>8, <2>2 DEF Signup!Reserve, Signup!Fail
    <3> QED BY <1>2, <2>1, <3>1, SignGo DEF Holding
  <2>3. CASE invite[c] = "unused"
    <3>1. invite' = [invite EXCEPT ![c] = IF c \in expired THEN "revoked" ELSE "reserved"]
      BY <1>8, <2>3 DEF Signup!Reserve
    <3>2. /\ invite' \in [Invites -> Signup!InviteStatus]
          /\ \A k \in Invites : invite'[k] = "unused" => invite[k] = "unused" /\ k # c
      BY <1>2, <3>1 DEF Signup!InviteStatus
    <3>3. CASE c \in expired
      <4>1. Signup!Go(a, "refused") BY <1>8, <2>3, <3>3 DEF Signup!Reserve, Signup!Fail
      <4> QED BY <2>1, <3>2, <4>1, SignGo DEF Holding
    <3>4. CASE c \notin expired
      <4> DEFINE x == [applicant[a] EXCEPT !.at = "window"]
      <4>1. applicant' = [applicant EXCEPT ![a] = x]
        BY <1>8, <2>3, <3>4 DEF Signup!Reserve, Signup!Go
      <4>2. Sign(x) /\ x.at = "window" /\ x.code = c BY <1>1, <2>1 DEF Sign, Holding
      <4> HIDE DEF x
      <4>3. /\ DOMAIN applicant' = Applicants /\ applicant'[a] = x
            /\ \A b \in Applicants \ {a} : applicant'[b] = applicant[b]
        BY <4>1 DEF SignInv
      <4>4. \A b \in Applicants : Sign(applicant[b])'
        <5>1. \A y : Sign(y) => Sign(y)' BY <2>1 DEF Sign, AnInvite
        <5> QED BY <4>2, <4>3, <5>1 DEF SignInv
      <4>5. control => c \in Invites
            /\ \A b \in Applicants : applicant[b].at \in Holding =>
                 applicant[b].code \in Invites /\ applicant[b].code # c
        BY <1>1, <2>1, <2>3 DEF Sign, SignInv
      <4>6. control => \A e \in Emails : account[e] # c
        BY <2>3, <4>5, SignNames DEF SignInv
      <4> HIDE DEF c
      <4>7. control =>
              \A b, d \in Applicants : applicant'[b].at \in Holding /\ applicant'[d].at \in Holding
                /\ applicant'[b].code = applicant'[d].code => b = d
        BY <4>2, <4>3, <4>5 DEF SignInv
      <4>8. control => \A b \in Applicants : applicant'[b].at \in Holding =>
              /\ \A e \in Emails : account[e] # applicant'[b].code
              /\ invite'[applicant'[b].code] # "unused"
        BY <3>2, <4>2, <4>3, <4>5, <4>6 DEF SignInv
      <4>9. /\ tempInvite' \in [Emails -> AnInvite]
            /\ account' \in [Emails -> AnInvite \cup {Signup!NoEmail}]
        BY <2>1 DEF SignInv
      <4> QED BY <2>1, <3>2, <4>3, <4>4, <4>7, <4>8, <4>9 DEF SignInv
    <3> QED BY <3>3, <3>4
  <2> QED BY <2>2, <2>3
<1>9. ASSUME NEW a \in Applicants, Signup!ReadWindow(a) PROVE SignInv'
  <2> DEFINE x == [applicant[a] EXCEPT !.at = "claim", !.read = Signup!Synced.count]
  <2>1. /\ applicant[a].at = "window" /\ UNCHANGED <<control, account, invite, tempInvite>>
        /\ applicant' = [applicant EXCEPT ![a] = x] \/ Signup!Go(a, "give back")
    BY <1>9 DEF Signup!ReadWindow, SignInv
  <2>2. x.at = "claim" /\ x.code = applicant[a].code /\ Sign(x) BY <1>1, <2>1 DEF Sign, Holding
  <2> HIDE DEF x
  <2> QED BY <1>2, <2>1, <2>2, SignGo, SignMove DEF Holding
<1>10. ASSUME NEW a \in Applicants, Signup!ClaimSlot(a) PROVE SignInv'
  <2>1. /\ applicant[a].at = "claim" /\ UNCHANGED <<control, account, invite, tempInvite>>
        /\ Signup!Go(a, "keep") \/ Signup!Go(a, "create")
    BY <1>10 DEF Signup!ClaimSlot
  <2> QED BY <1>2, <2>1, SignGo DEF Holding
<1>11. ASSUME NEW a \in Applicants, Signup!GiveBack(a) PROVE SignInv'
  <2> DEFINE c == applicant[a].code
             s == IF applicant[a].at = "undo" THEN "release" ELSE "refused"
             x == [applicant[a] EXCEPT !.at = s]
  <2>1. /\ applicant[a].at \in {"give back", "undo"} /\ UNCHANGED <<control, account, tempInvite>>
        /\ invite' = [invite EXCEPT ![c] = IF @ = "reserved" THEN "unused" ELSE @]
        /\ applicant' = [applicant EXCEPT ![a] = x]
    BY <1>11 DEF Signup!GiveBack, Signup!Go
  <2>2. Sign(x) /\ x.at \notin Holding BY <1>1, <2>1 DEF Sign, Holding
  <2> HIDE DEF x
  <2>3. /\ invite' \in [Invites -> Signup!InviteStatus]
        /\ \A k \in Invites : k # c => invite'[k] = invite[k]
    BY <1>2, <2>1 DEF Signup!InviteStatus
  <2>4. /\ DOMAIN applicant' = Applicants /\ applicant'[a] = x
        /\ \A b \in Applicants \ {a} : applicant'[b] = applicant[b]
    BY <2>1 DEF SignInv
  <2>5. \A b \in Applicants : Sign(applicant[b])'
    <3>1. \A y : Sign(y) => Sign(y)' BY <2>1 DEF Sign, AnInvite
    <3> QED BY <2>2, <2>4, <3>1 DEF SignInv
  <2>6. control => /\ \A b \in Applicants \ {a} : applicant[b].at \in Holding
                      => applicant[b].code # c
                   /\ \A e \in Emails : account[e] # c
    BY <2>1 DEF SignInv, Holding
  <2>7. control => \A b \in Applicants : applicant'[b].at \in Holding =>
          b # a /\ applicant[b].at \in Holding /\ applicant'[b].code = applicant[b].code
          /\ applicant[b].code \in Invites
    BY <1>1, <2>2, <2>4 DEF Sign
  <2> HIDE DEF c
  <2>8. /\ tempInvite' \in [Emails -> AnInvite]
        /\ account' \in [Emails -> AnInvite \cup {Signup!NoEmail}]
    BY <2>1 DEF SignInv
  <2> QED BY <2>1, <2>3, <2>4, <2>5, <2>6, <2>7, <2>8 DEF SignInv
<1>12. ASSUME NEW a \in Applicants, Signup!KeepInvite(a) PROVE SignInv'
  <2>1. tempInvite' \in [Emails -> AnInvite]
    BY <1>1, <1>2, <1>12 DEF Signup!KeepInvite, Sign
  <2> QED BY <1>2, <1>12, <2>1, SignEnd DEF Signup!KeepInvite
<1>13. ASSUME NEW a \in Applicants, Signup!CreateUser(a) PROVE SignInv'
  <2> DEFINE c == applicant[a].code
             e == applicant[a].who
  <2>1. applicant[a].at = "create" /\ UNCHANGED <<control, invite, tempInvite>> /\ e \in Emails
    BY <1>1, <1>13 DEF Signup!CreateUser, Sign
  <2>2. CASE Signup!HasAccount(e)
    <3>1. UNCHANGED account /\ (Signup!Go(a, "undo") \/ Signup!Go(a, "refused"))
      BY <1>13, <2>2 DEF Signup!CreateUser
    <3> QED BY <1>2, <2>1, <3>1, SignGo DEF Holding
  <2>3. CASE ~Signup!HasAccount(e)
    <3> DEFINE x == [applicant[a] EXCEPT !.at = "finalize"]
    <3>1. account' = [account EXCEPT ![e] = c] /\ applicant' = [applicant EXCEPT ![a] = x]
      BY <1>13, <2>3 DEF Signup!CreateUser, Signup!Go
    <3>2. Sign(x) /\ x.at \notin Holding BY <1>1, <2>1 DEF Sign, Holding
    <3> HIDE DEF x
    <3>3. /\ DOMAIN applicant' = Applicants /\ applicant'[a] = x
          /\ \A b \in Applicants \ {a} : applicant'[b] = applicant[b]
      BY <3>1 DEF SignInv
    <3>4. \A b \in Applicants : Sign(applicant[b])'
      <4>1. \A y : Sign(y) => Sign(y)' BY <2>1 DEF Sign, AnInvite
      <4> QED BY <3>2, <3>3, <4>1 DEF SignInv
    <3>5. c \in AnInvite /\ (control => c \in Invites /\ invite[c] # "unused")
          /\ (control => \A f \in Emails : account[f] # c)
          /\ (control => \A b \in Applicants \ {a} : applicant[b].at \in Holding
              => applicant[b].code # c)
      BY <1>1, <2>1 DEF Sign, SignInv, Holding
    <3> HIDE DEF c, e
    <3>6. /\ account' \in [Emails -> AnInvite \cup {Signup!NoEmail}] /\ account'[e] = c
          /\ \A f \in Emails \ {e} : account'[f] = account[f]
      BY <2>1, <3>1, <3>5 DEF SignInv
    <3>7. \A b \in Applicants : applicant'[b].at \in Holding =>
            b # a /\ applicant[b].at \in Holding /\ applicant'[b].code = applicant[b].code
      BY <3>2, <3>3
    <3>8. tempInvite' \in [Emails -> AnInvite] /\ invite' \in [Invites -> Signup!InviteStatus]
      BY <1>2, <2>1
    <3> QED BY <2>1, <3>3, <3>4, <3>5, <3>6, <3>7, <3>8 DEF SignInv
  <2> QED BY <2>2, <2>3
<1>14. ASSUME NEW a \in Applicants, Signup!ReadSlot(a) PROVE SignInv'
  <2> DEFINE x == [applicant[a] EXCEPT !.at = "return", !.read = window.count]
  <2>1. /\ applicant[a].at = "release" /\ UNCHANGED <<control, account, invite, tempInvite>>
        /\ applicant' = [applicant EXCEPT ![a] = x]
    BY <1>14 DEF Signup!ReadSlot, SignInv
  <2>2. x.at = "return" /\ Sign(x) BY <1>1, <2>1 DEF Sign, Holding
  <2> HIDE DEF x
  <2> QED BY <1>2, <2>1, <2>2, SignMove DEF Holding
<1>15. ASSUME NEW a \in Applicants, Signup!ReturnSlot(a) PROVE SignInv'
  <2>1. /\ applicant[a].at = "return" /\ UNCHANGED <<control, account, invite, tempInvite>>
        /\ Signup!Go(a, "refused")
    BY <1>15 DEF Signup!ReturnSlot, Signup!Fail
  <2> QED BY <1>2, <2>1, SignGo DEF Holding
<1>16. ASSUME NEW a \in Applicants, Signup!Finalize(a) PROVE SignInv'
  <2> DEFINE c == applicant[a].code
             e == applicant[a].who
  <2>1. UNCHANGED <<control, account>> /\ Signup!End(a) BY <1>16 DEF Signup!Finalize
  <2>2. \/ UNCHANGED invite
        \/ invite' = [invite EXCEPT ![c] = "used"]
    BY <1>16 DEF Signup!Finalize
  <2>3. UNCHANGED tempInvite \/ tempInvite' = [tempInvite EXCEPT ![e] = Signup!NoInvite]
    BY <1>16 DEF Signup!Finalize
  <2>4. tempInvite' \in [Emails -> AnInvite] BY <1>2, <2>3 DEF AnInvite
  <2>5. /\ invite' \in [Invites -> Signup!InviteStatus]
        /\ \A k \in Invites : invite'[k] = "unused" => invite[k] = "unused"
    BY <1>2, <2>2 DEF Signup!InviteStatus
  <2> QED BY <2>1, <2>4, <2>5, SignEnd
<1>17. ASSUME NEW a \in Applicants, Signup!Leave(a) \/ Signup!Crash(a) PROVE SignInv'
  BY <1>2, <1>17, SignEnd DEF Signup!Leave, Signup!Crash
<1> QED BY <1>3, <1>4, <1>5, <1>6, <1>7, <1>8, <1>9, <1>10, <1>11, <1>12, <1>13, <1>14, <1>15,
           <1>16, <1>17 DEF Signup!Next, AnInvite

\* A step that changes the status of a code finds it unused or reserved.
LEMMA SignStays ==
  ASSUME SignInv, Signup!Next, NEW c \in Invites, invite[c] \in {"used", "revoked"}
  PROVE  invite'[c] = invite[c]
<1> USE DEF SignInv
<1>1. ASSUME NEW d \in Invites, Signup!RevokeInvite(d) PROVE invite'[c] = invite[c]
  BY <1>1 DEF Signup!RevokeInvite
<1>2. ASSUME NEW a \in Applicants, Signup!Reserve(a) PROVE invite'[c] = invite[c]
  BY <1>2 DEF Signup!Reserve
<1>3. ASSUME NEW a \in Applicants, Signup!GiveBack(a) PROVE invite'[c] = invite[c]
  BY <1>3 DEF Signup!GiveBack
<1>4. ASSUME NEW a \in Applicants, Signup!Finalize(a) PROVE invite'[c] = invite[c]
  BY <1>4 DEF Signup!Finalize
<1>5. CASE UNCHANGED invite BY <1>5
<1> QED BY <1>1, <1>2, <1>3, <1>4, <1>5 DEF Signup!Next, Signup!ActivateWindow,
  Signup!CloseWindow, Signup!WindowTime, Signup!InviteExpires, Signup!TempInviteExpires,
  Signup!ReadWindow, Signup!ClaimSlot, Signup!KeepInvite, Signup!CreateUser, Signup!ReadSlot,
  Signup!ReturnSlot, Signup!Leave, Signup!Crash, Signup!SendLoginCode, Signup!Provision

\* And so a code admits one account.
LEMMA SignAdmits == SignInv => Signup!InviteAdmitsOne
BY DEF SignInv, Signup!InviteAdmitsOne, Signup!HasAccount

-----------------------------------------------------------------------------
(* Sign-in of the desktop: who has a grant has been vouched for. *)

\* The user of a session is an account that may complete it.
Vouched(d, u) == u \in Users /\ (login[d].kind # "browser" => u \in identity)

\* What a request holds of a session that has begun.
Signs(x) ==
  /\ DOMAIN x = {"at", "login", "grant", "user", "stale"}
  /\ x.at # "idle" => x.login \in Logins /\ login[x.login].status # "none" /\ x.user \in Users
  /\ x.at = "issue" => Vouched(x.login, x.user)
  /\ x.at \in {"exchange", "signed in"} =>
       /\ ~x.stale /\ Vouched(x.login, x.user)
       /\ login[x.login].status \in {"grant issued", "exchanged"}

\* A session that has begun has its kind and, with a grant, a user vouched for.
LoginFits(d) ==
  /\ DOMAIN login[d] = {"status", "kind", "user", "late"}
  /\ login[d].status # "none" /\ login[d].kind = "bind" => login[d].user \in Users
  /\ login[d].status \in {"grant issued", "exchanged"} => Vouched(d, login[d].user)

\* Sessions, requests and grants fit each other.
DeskInv ==
  /\ DOMAIN login = Logins /\ DOMAIN desktop = Desktops
  /\ \A d \in Logins : LoginFits(d)
  /\ \A r \in Desktops : Signs(desktop[r])
  /\ \A g \in DOMAIN grantRow :
       /\ DOMAIN grantRow[g] = {"login", "status"} /\ grantRow[g].login \in Logins
       /\ login[grantRow[g].login].status \in {"grant issued", "exchanged"}

\* A request at rest fits.
LEMMA FreeSigns == Signs(Desktop!Free) BY DEF Signs, Desktop!Free

\* It holds before any session.
LEMMA DeskInit == Desktop!Init => DeskInv
<1> SUFFICES ASSUME Desktop!Init PROVE DeskInv OBVIOUS
<1>1. \A d \in Logins : LoginFits(d) BY DEF Desktop!Init, LoginFits
<1>2. \A r \in Desktops : Signs(desktop[r]) BY FreeSigns DEF Desktop!Init
<1>3. DOMAIN grantRow = {} BY DEF Desktop!Init
<1> QED BY <1>1, <1>2, <1>3 DEF Desktop!Init, DeskInv

\* What never goes back, of a session that has begun: its kind, and that it has a grant.
Later(d) ==
  login[d].status # "none" =>
    /\ login'[d].status # "none" /\ login'[d].kind = login[d].kind
    /\ login[d].status \in {"grant issued", "exchanged"} =>
         login'[d].status \in {"grant issued", "exchanged"}

\* What a request holds stays true of it while sessions go on.
LEMMA SignsOn ==
  ASSUME DeskInv, \A d \in Logins : Later(d), identity \subseteq identity', NEW x, Signs(x)
  PROVE  Signs(x)'
BY DEF Signs, Vouched, Later

\* A request moves while sessions, grants and identities change as they may.
LEMMA DeskMove ==
  ASSUME DeskInv, NEW r \in Desktops, NEW x, desktop' = [desktop EXCEPT ![r] = x], Signs(x)',
         DOMAIN login' = Logins, \A d \in Logins : Later(d) /\ LoginFits(d)',
         identity \subseteq identity',
         \A g \in DOMAIN grantRow' :
           /\ DOMAIN grantRow'[g] = {"login", "status"} /\ grantRow'[g].login \in Logins
           /\ login'[grantRow'[g].login].status \in {"grant issued", "exchanged"}
  PROVE  DeskInv'
<1>1. DOMAIN desktop' = Desktops /\ desktop'[r] = x
      /\ \A q \in Desktops \ {r} : desktop'[q] = desktop[q]
  BY DEF DeskInv
<1>2. \A q \in Desktops \ {r} : Signs(desktop'[q])
  BY <1>1 DEF DeskInv
<1>3. \A q \in Desktops : Signs(desktop[q])' BY <1>1, <1>2, SignsOn
<1> QED BY <1>1, <1>3 DEF DeskInv

\* A request moves, and an identity may be bound.
LEMMA DeskGo ==
  ASSUME DeskInv, NEW r \in Desktops, NEW x, desktop' = [desktop EXCEPT ![r] = x],
         UNCHANGED <<login, grantRow>>, identity \subseteq identity',
         Signs(x)'
  PROVE  DeskInv'
<1>1. \A d \in Logins : Later(d) /\ LoginFits(d)' BY DEF DeskInv, LoginFits, Later, Vouched
<1> QED BY <1>1, DeskMove DEF DeskInv

\* A request ends.
LEMMA DeskEnd ==
  ASSUME DeskInv, NEW r \in Desktops, Desktop!End(r), UNCHANGED <<login, grantRow, identity>>
  PROVE  DeskInv'
<1>1. Signs(Desktop!Free)' BY DEF Signs, Desktop!Free
<1> QED BY <1>1, DeskGo DEF Desktop!End

\* Nobody moves.
LEMMA DeskRest ==
  ASSUME DeskInv, UNCHANGED <<desktop, identity>>, DOMAIN login' = Logins,
         \A d \in Logins : Later(d) /\ LoginFits(d)',
         \A g \in DOMAIN grantRow' :
           /\ DOMAIN grantRow'[g] = {"login", "status"} /\ grantRow'[g].login \in Logins
           /\ login'[grantRow'[g].login].status \in {"grant issued", "exchanged"}
  PROVE  DeskInv'
<1>1. \A q \in Desktops : Signs(desktop[q])' BY SignsOn DEF DeskInv
<1> QED BY <1>1 DEF DeskInv

\* Each step of the sign-in keeps it.
LEMMA DeskStep == DeskInv /\ Desktop!Next => DeskInv'
<1> SUFFICES ASSUME DeskInv, Desktop!Next PROVE DeskInv' OBVIOUS
<1> USE DEF Desktop!At, Desktop!Kind
<1>1. /\ \A d \in Logins : LoginFits(d)
      /\ \A r \in Desktops : Signs(desktop[r])
      /\ DOMAIN login = Logins
      /\ \A g \in DOMAIN grantRow :
           /\ DOMAIN grantRow[g] = {"login", "status"} /\ grantRow[g].login \in Logins
           /\ login[grantRow[g].login].status \in {"grant issued", "exchanged"}
  BY DEF DeskInv
<1>2. ASSUME NEW d \in Logins, NEW row, login' = [login EXCEPT ![d] = row],
             DOMAIN row = {"status", "kind", "user", "late"},
             login[d].status # "none" =>
               /\ row.status # "none" /\ row.kind = login[d].kind
               /\ login[d].status \in {"grant issued", "exchanged"} =>
                    row.status \in {"grant issued", "exchanged"},
             row.status # "none" /\ row.kind = "bind" => row.user \in Users,
             row.status \in {"grant issued", "exchanged"} =>
               row.user \in Users /\ (row.kind # "browser" => row.user \in identity),
             identity' = identity
      PROVE  DOMAIN login' = Logins /\ \A e \in Logins : Later(e) /\ LoginFits(e)'
  <2>1. /\ DOMAIN login' = Logins /\ login'[d] = row
        /\ \A e \in Logins \ {d} : login'[e] = login[e]
    BY <1>1, <1>2
  <2>2. \A e \in Logins : Later(e) BY <1>2, <2>1 DEF Later
  <2>3. LoginFits(d)' BY <1>2, <2>1 DEF LoginFits, Vouched
  <2>4. \A e \in Logins \ {d} : LoginFits(e)' BY <1>1, <1>2, <2>1 DEF LoginFits, Vouched
  <2> QED BY <2>1, <2>2, <2>3, <2>4
<1>3. ASSUME NEW d \in Logins, Desktop!SessionExpires(d) PROVE DeskInv'
  <2> DEFINE row == [login[d] EXCEPT !.late = TRUE]
  <2>1. login' = [login EXCEPT ![d] = row] /\ UNCHANGED <<grantRow, identity, desktop>>
    BY <1>3 DEF Desktop!SessionExpires
  <2>2. LoginFits(d) BY <1>1
  <2>3. DOMAIN row = DOMAIN login[d] /\ row.status = login[d].status /\ row.kind = login[d].kind
        /\ row.user = login[d].user
    BY <2>2 DEF LoginFits
  <2> HIDE DEF row
  <2>4. DOMAIN login' = Logins /\ \A e \in Logins : Later(e) /\ LoginFits(e)'
    BY <1>2, <2>1, <2>2, <2>3 DEF LoginFits, Vouched
  <2> QED BY <1>1, <2>1, <2>4, DeskRest DEF Later
<1>4. ASSUME NEW d \in Logins, NEW k \in Desktop!Kinds, NEW u \in Users,
    Desktop!StartSession(d, k, u)
      PROVE  DeskInv'
  <2> DEFINE row == [login[d] EXCEPT !.status = "created", !.kind = k,
                       !.user = IF k = "bind" THEN u ELSE Desktop!NoUser]
  <2>1. /\ login' = [login EXCEPT ![d] = row] /\ UNCHANGED <<grantRow, identity, desktop>>
        /\ login[d].status = "none"
    BY <1>1, <1>4 DEF Desktop!StartSession
  <2>2. DOMAIN row = DOMAIN login[d] /\ row.status = "created" /\ row.kind = k
        /\ (k = "bind" => row.user = u) /\ DOMAIN login[d] = {"status", "kind", "user", "late"}
    BY <1>1 DEF LoginFits
  <2> HIDE DEF row
  <2>4. DOMAIN login' = Logins /\ \A e \in Logins : Later(e) /\ LoginFits(e)'
    BY <1>2, <2>1, <2>2
  <2> QED BY <1>1, <2>1, <2>4, DeskRest DEF Later
<1>5. ASSUME NEW g \in Grants, Desktop!GrantExpires(g) PROVE DeskInv'
  <2>1. /\ grantRow' = [grantRow EXCEPT ![g].status = "expired"]
           /\ UNCHANGED <<login, identity, desktop>>
    BY <1>5 DEF Desktop!GrantExpires
  <2>2. \A d \in Logins : Later(d) /\ LoginFits(d)' BY <1>1, <2>1 DEF Later, LoginFits, Vouched
  <2>3. \A h \in DOMAIN grantRow' : h \in DOMAIN grantRow /\ grantRow'[h].login = grantRow[h].login
          /\ DOMAIN grantRow'[h] = DOMAIN grantRow[h]
    BY <1>1, <2>1
  <2> QED BY <1>1, <2>1, <2>2, <2>3, DeskRest
<1>6. ASSUME NEW r \in Desktops, NEW d \in Logins, NEW u \in Users, Desktop!BeginCallback(r, d, u)
      PROVE  DeskInv'
  <2> DEFINE v == IF login[d].kind = "bind" THEN login[d].user ELSE u
  <2>0. PICK x : x = [Desktop!Free EXCEPT !.at = "provider", !.login = d, !.user = v] OBVIOUS
  <2>1. /\ desktop' = [desktop EXCEPT ![r] = x] /\ UNCHANGED <<login, grantRow, identity>>
        /\ login[d].status # "none"
    BY <1>6, <2>0 DEF Desktop!BeginCallback, Desktop!SessionActive
  <2>2. v \in Users BY <1>1, <2>1 DEF LoginFits
  <2> HIDE DEF v
  <2>3. /\ DOMAIN x = {"at", "login", "grant", "user", "stale"}
        /\ x.at = "provider" /\ x.login = d /\ x.user = v
    BY <2>0 DEF Desktop!Free
  <2>4. Signs(x) BY <2>1, <2>2, <2>3 DEF Signs
  <2>5. Signs(x)' BY <2>1, <2>4 DEF Signs, Vouched
  <2> QED BY <2>1, <2>5, DeskGo
<1>7. ASSUME NEW r \in Desktops, Desktop!ProviderFails(r) \/ Desktop!Leave(r) \/ Desktop!Drop(r)
      PROVE  DeskInv'
  BY <1>7, DeskEnd DEF Desktop!ProviderFails, Desktop!Leave, Desktop!Drop
<1>8. ASSUME NEW r \in Desktops, Desktop!BindIdentity(r) PROVE DeskInv'
  <2> DEFINE y == desktop[r]
  <2>0. PICK x : x = [y EXCEPT !.at = "issue"] OBVIOUS
  <2>1. /\ desktop' = [desktop EXCEPT ![r] = x] /\ UNCHANGED <<login, grantRow>>
        /\ y.at = "provider" /\ login[y.login].kind # "browser" /\ identity' = identity
            \cup {y.user}
    BY <1>8, <2>0 DEF Desktop!BindIdentity
  <2>2. Signs(y) BY <1>1
  <2>3. DOMAIN x = DOMAIN y /\ x.at = "issue" /\ x.login = y.login /\ x.user = y.user
    BY <2>0, <2>2 DEF Signs
  <2>4. x.login \in Logins /\ login'[x.login].status # "none" /\ x.user \in Users
      /\ x.user \in identity'
    BY <2>1, <2>2, <2>3 DEF Signs
  <2>5. DOMAIN x = {"at", "login", "grant", "user", "stale"} BY <2>2, <2>3 DEF Signs
  <2>6. Signs(x)' BY <2>3, <2>4, <2>5 DEF Signs, Vouched
  <2> QED BY <2>1, <2>6, DeskGo
<1>9. ASSUME NEW r \in Desktops, NEW g \in Grants, Desktop!ReadGrant(r, g) PROVE DeskInv'
  <2> DEFINE d == grantRow[g].login
  <2>0. PICK x : x = [Desktop!Free EXCEPT !.at = "exchange", !.login = d, !.grant = g,
                       !.user = login[d].user, !.stale = grantRow[g].status # "active"]
    OBVIOUS
  <2>1. /\ desktop' = [desktop EXCEPT ![r] = x] /\ UNCHANGED <<login, grantRow, identity>>
        /\ g \in DOMAIN grantRow /\ grantRow[g].status = "active"
    BY <1>9, <2>0 DEF Desktop!ReadGrant
  <2>2. d \in Logins /\ login[d].status \in {"grant issued", "exchanged"} BY <1>1, <2>1
  <2>3. Vouched(d, login[d].user) BY <1>1, <2>2 DEF LoginFits
  <2>4. DOMAIN x = {"at", "login", "grant", "user", "stale"} /\ x.at = "exchange" /\ x.login = d
        /\ x.user = login[d].user
    BY <2>0 DEF Desktop!Free
  <2>5. x.stale = (grantRow[g].status # "active") BY <2>0, Zenon DEF Desktop!Free
  <2> HIDE DEF d
  <2>6. Signs(x) BY <2>1, <2>2, <2>3, <2>4, <2>5 DEF Signs, Vouched
  <2>7. Signs(x)' BY <2>1, <2>6 DEF Signs, Vouched
  <2> QED BY <2>1, <2>7, DeskGo
<1>10. ASSUME NEW r \in Desktops, Desktop!Exchange(r) PROVE DeskInv'
  <2> DEFINE y == desktop[r]
             d == y.login
             g == y.grant
             row == [login[d] EXCEPT !.status = "exchanged"]
  <2>0. PICK x : x = [y EXCEPT !.at = "signed in"] OBVIOUS
  <2>1. /\ desktop' = [desktop EXCEPT ![r] = x] /\ y.at = "exchange" /\ UNCHANGED identity
        /\ grantRow' = [grantRow EXCEPT ![g].status = "consumed"]
        /\ login' = [login EXCEPT ![d] = row]
    BY <1>10, <2>0 DEF Desktop!Exchange
  <2>2. Signs(y) /\ d \in Logins /\ LoginFits(d) BY <1>1, <2>1 DEF Signs
  <2>3. DOMAIN x = DOMAIN y /\ x.at = "signed in" /\ x.login = d /\ x.user = y.user
      /\ x.stale = y.stale
    BY <2>0, <2>2 DEF Signs
  <2>4. DOMAIN row = DOMAIN login[d] /\ row.status = "exchanged" /\ row.kind = login[d].kind
        /\ row.user = login[d].user
    BY <2>2 DEF LoginFits
  <2>5. login[d].status \in {"grant issued", "exchanged"} BY <2>1, <2>2 DEF Signs
  <2>12. Vouched(y.login, y.user) /\ DOMAIN y = {"at", "login", "grant", "user", "stale"}
    BY <2>1, <2>2 DEF Signs
  <2>13. ~y.stale BY <2>1, <2>2 DEF Signs
  <2>14. x.login = y.login BY <2>3
  <2> HIDE DEF d, row, g, y
  <2>6. DOMAIN login' = Logins /\ \A e \in Logins : Later(e) /\ LoginFits(e)'
    BY <1>2, <2>1, <2>2, <2>4, <2>5 DEF LoginFits, Vouched
  <2>7. \A h \in DOMAIN grantRow' : h \in DOMAIN grantRow /\ grantRow'[h].login = grantRow[h].login
          /\ DOMAIN grantRow'[h] = DOMAIN grantRow[h]
    BY <1>1, <2>1
  <2>8. \A h \in DOMAIN grantRow' :
           /\ DOMAIN grantRow'[h] = {"login", "status"} /\ grantRow'[h].login \in Logins
           /\ login'[grantRow'[h].login].status \in {"grant issued", "exchanged"}
    BY <1>1, <2>6, <2>7 DEF Later
  <2>15. Vouched(x.login, x.user) BY <2>3, <2>12, <2>14
  <2>16. ~x.stale BY <2>3, <2>13, Zenon
  <2>9. /\ x.login \in Logins /\ Vouched(x.login, x.user) /\ ~x.stale
        /\ DOMAIN x = {"at", "login", "grant", "user", "stale"}
    BY <2>2, <2>3, <2>12, <2>15, <2>16, Zenon
  <2>10. /\ login'[x.login].status \in {"grant issued", "exchanged"}
         /\ login'[x.login].kind = login[x.login].kind
    BY <2>2, <2>3, <2>5, <2>6 DEF Later
  <2>11. Signs(x)' BY <2>1, <2>3, <2>9, <2>10 DEF Signs, Vouched
  <2> QED BY <2>1, <2>6, <2>8, <2>11, DeskMove
<1>11. ASSUME NEW r \in Desktops, NEW g \in Grants, Desktop!IssueGrant(r, g) PROVE DeskInv'
  <2> DEFINE y == desktop[r]
             d == y.login
             row == [login[d] EXCEPT !.status = "grant issued", !.user = y.user]
             old == {h \in DOMAIN grantRow : /\ login[d].kind = "browser"
                                             /\ grantRow[h] = [login |-> d, status |-> "active"]}
  <2>1. /\ desktop' = [desktop EXCEPT ![r] = Desktop!Free] /\ UNCHANGED identity
        /\ y.at = "issue" \/ (y.at = "provider" /\ login[d].kind = "browser")
        /\ grantRow' = [h \in DOMAIN grantRow \cup {g} |->
                    IF h = g THEN [login |-> d, status |-> "active"]
                    ELSE IF h \in old THEN [login |-> d, status |-> "expired"] ELSE grantRow[h]]
        /\ login' = [login EXCEPT ![d] = row]
    BY <1>1, <1>11 DEF Desktop!IssueGrant, Desktop!End
  <2>2. Signs(y) /\ d \in Logins /\ LoginFits(d) /\ y.user \in Users /\ login[d].status # "none"
    BY <1>1, <2>1 DEF Signs
  <2>3. Vouched(d, y.user) BY <2>1, <2>2 DEF Signs, Vouched
  <2>4. DOMAIN row = DOMAIN login[d] /\ row.status = "grant issued" /\ row.kind = login[d].kind
        /\ row.user = y.user
    BY <2>2 DEF LoginFits
  <2> HIDE DEF d, row, y
  <2>5. DOMAIN login' = Logins /\ \A e \in Logins : Later(e) /\ LoginFits(e)'
    BY <1>2, <2>1, <2>2, <2>3, <2>4 DEF LoginFits, Vouched
  <2>6. login'[d].status = "grant issued" BY <1>1, <2>1, <2>2, <2>4
  <2>7. ASSUME NEW h \in DOMAIN grantRow'
        PROVE  /\ DOMAIN grantRow'[h] = {"login", "status"} /\ grantRow'[h].login \in Logins
               /\ login'[grantRow'[h].login].status \in {"grant issued", "exchanged"}
    <3>1. \/ grantRow'[h] = [login |-> d, status |-> "active"]
          \/ grantRow'[h] = [login |-> d, status |-> "expired"]
          \/ h \in DOMAIN grantRow /\ grantRow'[h] = grantRow[h]
      BY <2>1, <2>7
    <3>2. CASE h \in DOMAIN grantRow /\ grantRow'[h] = grantRow[h] BY <1>1, <2>5, <3>2 DEF Later
    <3>3. CASE \/ grantRow'[h] = [login |-> d, status |-> "active"]
               \/ grantRow'[h] = [login |-> d, status |-> "expired"]
      <4> PICK v : v = grantRow'[h] OBVIOUS
      <4>1. DOMAIN v = {"login", "status"} /\ v.login = d BY <3>3
      <4> QED BY <2>2, <2>6, <4>1
    <3> QED BY <3>1, <3>2, <3>3
  <2>8. Signs(Desktop!Free)' BY DEF Signs, Desktop!Free
  <2> QED BY <2>1, <2>5, <2>7, <2>8, DeskMove
<1> QED BY <1>3, <1>4, <1>5, <1>6, <1>7, <1>8, <1>9, <1>10, <1>11 DEF Desktop!Next

\* And so nobody is signed in by a spent grant, or without being known.
LEMMA DeskKnows == DeskInv => Desktop!SpentGrantRefused /\ Desktop!SignedInIsKnown
BY DEF DeskInv, Desktop!SpentGrantRefused, Desktop!SignedInIsKnown, Signs, Vouched, Desktop!At,
  Desktop!Kind

-----------------------------------------------------------------------------
(* Recharges: a row agrees with its trade. *)

\* The stages of a request that settles an order.
Settling == {"query", "apply", "lookup", "open", "insert", "reopen", "credit", "finish", "settle"}

\* What a request has seen at Alipay is final there, and the order it loaded says so too.
Seen(x) ==
  /\ x.order \in Orders /\ x.loaded \in Paid!Order
  /\ x.saw \in {"none", "wait", "paid", "closed"}
  /\ x.loaded.status # "absent" /\ order[x.order].status # "absent"
  /\ x.at # "query" => x.saw # "none"
  /\ x.at \notin {"query", "apply"} => x.saw = "paid"
  /\ x.saw \in {"paid", "closed"} => trade[x.order] = x.saw
  /\ x.loaded.status = "SUCCESS" => x.saw = "paid" /\ order[x.order].status = "SUCCESS"
  /\ x.loaded.status = "FAILED" =>
       trade[x.order] = "closed" /\ x.saw \in {"none", "closed"}

\* What a request holds of its order.
Pays(x) ==
  /\ DOMAIN x = {"at", "kind", "order", "saw", "loaded", "rate", "version"}
  /\ x.rate \in {0} \cup Rates
  /\ x.at \in Settling => Seen(x)

\* The row of an order agrees with the trade.
RowAgrees(o) ==
  /\ order[o].settled => order[o].status = "SUCCESS"
  /\ order[o].status = "SUCCESS" => trade[o] = "paid"
  /\ order[o].status = "FAILED" => trade[o] = "closed"
  /\ order[o].status = "absent" => trade[o] = "wait" /\ order[o] = Paid!NoOrder

\* Rows and requests agree with the trades at Alipay.
PaidInv ==
  /\ policy \in Rates
  /\ trade \in [Orders -> {"wait", "paid", "closed"}]
  /\ order \in [Orders -> Paid!Order]
  /\ DOMAIN payHandler = Handlers
  /\ \A o \in Orders : RowAgrees(o)
  /\ \A h \in Handlers : Pays(payHandler[h])

\* A trade and a row do not go back.
Onward(o) ==
  /\ trade[o] # "wait" => trade'[o] = trade[o]
  /\ order[o].status = "SUCCESS" => order'[o].status = "SUCCESS"
  /\ order[o].status # "absent" => order'[o].status # "absent"

\* A request at rest holds nothing.
LEMMA PaysIdle == Pays(Paid!Idle) /\ Paid!Idle.at \notin Settling
BY DEF Pays, Paid!Idle, Settling

\* It holds before any order.
LEMMA PaidInit == Paid!Init => PaidInv
<1> SUFFICES ASSUME Paid!Init PROVE PaidInv OBVIOUS
<1>1. Paid!NoOrder \in Paid!Order BY DEF Paid!NoOrder, Paid!Order
<1>2. \A o \in Orders : order[o] = Paid!NoOrder /\ trade[o] = "wait" BY DEF Paid!Init
<1>3. \A o \in Orders : RowAgrees(o) BY <1>2 DEF RowAgrees, Paid!NoOrder
<1>4. \A h \in Handlers : Pays(payHandler[h]) BY PaysIdle DEF Paid!Init
<1> QED BY <1>1, <1>3, <1>4 DEF Paid!Init, PaidInv

\* What a request holds stays true while orders and trades go on.
LEMMA PaysOn == ASSUME PaidInv, \A o \in Orders : Onward(o), NEW x, Pays(x) PROVE Pays(x)'
BY DEF Pays, Seen, Onward

\* A request moves, and rows are written that agree with the trades.
LEMMA PaidMove ==
  ASSUME PaidInv, NEW h \in Handlers, NEW x, payHandler' = [payHandler EXCEPT ![h] = x],
         Pays(x), policy' = policy, order' \in [Orders -> Paid!Order], trade' = trade,
         \A o \in Orders : Onward(o) /\ RowAgrees(o)'
  PROVE  PaidInv'
<1>1. \A g \in Handlers : Pays(payHandler'[g]) BY DEF PaidInv
<1>2. \A g \in Handlers : Pays(payHandler[g])' BY <1>1, PaysOn
<1>3. /\ policy' \in Rates /\ trade' \in [Orders -> {"wait", "paid", "closed"}]
      /\ DOMAIN payHandler' = Handlers
  BY DEF PaidInv
<1> QED BY <1>2, <1>3 DEF PaidInv

\* Only the requests move.
LEMMA PaidGo ==
  ASSUME PaidInv, NEW h \in Handlers, NEW x, payHandler' = [payHandler EXCEPT ![h] = x],
         Pays(x), UNCHANGED <<policy, order, trade>>
  PROVE  PaidInv'
<1>1. \A o \in Orders : Onward(o) /\ RowAgrees(o)' BY DEF PaidInv, Onward, RowAgrees
<1>2. order' \in [Orders -> Paid!Order] BY DEF PaidInv
<1> QED BY <1>1, <1>2, PaidMove

\* Only the trade or the rows move.
LEMMA PaidRest ==
  ASSUME PaidInv, UNCHANGED payHandler, policy' \in Rates,
         order' \in [Orders -> Paid!Order], trade' \in [Orders -> {"wait", "paid", "closed"}],
         \A o \in Orders : Onward(o) /\ RowAgrees(o)'
  PROVE  PaidInv'
<1>1. \A g \in Handlers : Pays(payHandler[g])' BY PaysOn DEF PaidInv
<1> QED BY <1>1 DEF PaidInv

\* The status an order gets for what Alipay says.
LEMMA Statuses == /\ Paid!StatusOf("paid") = "SUCCESS" /\ Paid!StatusOf("closed") = "FAILED"
                  /\ Paid!StatusOf("wait") = "PENDING"
BY DEF Paid!StatusOf

\* What a request flushes agrees with the trade, and keeps what others have settled.
LEMMA PaidFlush ==
  ASSUME PaidInv, NEW h \in Handlers, payHandler[h].at \in Settling \ {"query"},
         NEW b \in BOOLEAN, b => payHandler[h].saw = "paid",
         order' = Paid!Flushed(h, b), trade' = trade
  PROVE  /\ order' \in [Orders -> Paid!Order]
         /\ \A o \in Orders : Onward(o) /\ RowAgrees(o)'
         /\ \A o \in Orders : order[o].settled => order'[o].settled
<1> DEFINE y == payHandler[h]
           o == y.order
           l == y.loaded
           s == Paid!StatusOf(y.saw)
           c == IF y.rate = 0 THEN l.credit ELSE y.rate
           row == [status |-> IF s # l.status THEN s ELSE order[o].status,
                   credit |-> IF c # l.credit THEN c ELSE order[o].credit,
                   settled |-> order[o].settled \/ b]
<1>1. Pays(y) /\ Seen(y) /\ y.saw \in {"wait", "paid", "closed"}
  BY DEF PaidInv, Pays, Seen
<1>2. order' = [order EXCEPT ![o] = row] BY DEF Paid!Flushed
<1> HIDE DEF y
<1>3. o \in Orders /\ l \in Paid!Order /\ c \in {0} \cup Rates /\ order[o] \in Paid!Order
  BY <1>1 DEF Seen, Pays, Paid!Order, PaidInv
<1>4. /\ y.saw = "paid" => s = "SUCCESS" /\ trade[o] = "paid"
      /\ y.saw = "closed" => s = "FAILED" /\ trade[o] = "closed"
      /\ y.saw = "wait" => s = "PENDING"
  BY <1>1, Statuses DEF Seen
<1>5. s \in {"PENDING", "SUCCESS", "FAILED"} BY <1>1, <1>4
<1>6. /\ l.status # "absent" /\ order[o].status # "absent"
      /\ l.status = "SUCCESS" => y.saw = "paid" /\ order[o].status = "SUCCESS"
      /\ l.status = "FAILED" => trade[o] = "closed" /\ y.saw = "closed"
      /\ l.status \in {"PENDING", "SUCCESS", "FAILED"}
  BY <1>1, <1>3 DEF Seen, Paid!Order
<1>7. RowAgrees(o) BY <1>3 DEF PaidInv
<1> HIDE DEF o, l, s, c
<1>8. /\ row.status \in {"PENDING", "SUCCESS", "FAILED"}
      /\ row.status = "SUCCESS" => trade[o] = "paid"
      /\ row.status = "FAILED" => trade[o] = "closed"
      /\ order[o].status = "SUCCESS" => row.status = "SUCCESS"
  BY <1>1, <1>3, <1>4, <1>5, <1>6, <1>7 DEF RowAgrees, Paid!Order
<1>9. row.settled => row.status = "SUCCESS"
  <2>1. ASSUME b PROVE row.status = "SUCCESS"
    <3>1. y.saw = "paid" BY <2>1 DEF y
    <3> QED BY <3>1, <1>4, <1>6
  <2>2. ASSUME order[o].settled PROVE row.status = "SUCCESS" BY <2>2, <1>7, <1>8 DEF RowAgrees
  <2> QED BY <2>1, <2>2
<1>10. row.settled \in BOOLEAN /\ (order[o].settled => row.settled)
  BY <1>3, Zenon DEF Paid!Order
<1>11. row.credit \in {0} \cup Rates BY <1>3 DEF Paid!Order
<1>12. row \in Paid!Order
  <2>1. row = [status |-> row.status, credit |-> row.credit, settled |-> row.settled] OBVIOUS
  <2> HIDE DEF row
  <2> QED BY <1>8, <1>10, <1>11, <2>1 DEF Paid!Order
<1> HIDE DEF row
<1>13. /\ order' \in [Orders -> Paid!Order] /\ order'[o] = row
       /\ \A q \in Orders \ {o} : order'[q] = order[q]
  BY <1>2, <1>3, <1>12 DEF PaidInv
<1>14. \A q \in Orders : Onward(q)
  <2>1. Onward(o) BY <1>8, <1>13 DEF Onward
  <2> QED BY <1>13, <2>1 DEF Onward
<1>15. \A q \in Orders : RowAgrees(q)'
  <2> SUFFICES ASSUME NEW q \in Orders PROVE RowAgrees(q)' OBVIOUS
  <2>1. CASE q = o
    <3>1. /\ order'[q].settled => order'[q].status = "SUCCESS"
          /\ order'[q].status = "SUCCESS" => trade'[q] = "paid"
          /\ order'[q].status = "FAILED" => trade'[q] = "closed"
          /\ order'[q].status # "absent"
      BY <1>8, <1>9, <1>13, <2>1
    <3> QED BY <3>1 DEF RowAgrees
  <2>2. CASE q # o
    <3>1. order'[q] = order[q] /\ RowAgrees(q) BY <1>13, <2>2 DEF PaidInv
    <3> QED BY <3>1 DEF RowAgrees
  <2> QED BY <2>1, <2>2
<1> QED BY <1>10, <1>13, <1>14, <1>15

\* The next stage of a request that has seen the payment.
LEMMA PaidOn ==
  ASSUME PaidInv, NEW h \in Handlers, payHandler[h].at \in Settling,
         NEW s, Paid!Goes(h, s), s \in {"query", "apply"} => payHandler[h].at = s,
         payHandler[h].at = "query" => s = "query", payHandler[h].saw = "paid"
  PROVE  \E x : payHandler' = [payHandler EXCEPT ![h] = x] /\ Pays(x)
<1> DEFINE y == payHandler[h]
           x == [y EXCEPT !.at = s]
<1>1. Pays(y) /\ Seen(y) BY DEF PaidInv, Pays
<1>2. payHandler' = [payHandler EXCEPT ![h] = x] BY DEF Paid!Goes
<1> HIDE DEF y
<1>3. /\ DOMAIN x = DOMAIN y /\ x.at = s /\ x.order = y.order /\ x.loaded = y.loaded
      /\ x.saw = y.saw /\ x.rate = y.rate
  BY <1>1 DEF Pays
<1> HIDE DEF x
<1>4. Pays(x) BY <1>1, <1>3 DEF Pays, Seen, y
<1> QED BY <1>2, <1>4

\* A request that adjusts a balance is none that settles an order.
LEMMA PaidOther ==
  ASSUME PaidInv, NEW h \in Handlers, NEW s \in {"write", "deduct", "book"}, Paid!Goes(h, s)
  PROVE  \E x : payHandler' = [payHandler EXCEPT ![h] = x] /\ Pays(x)
<1> DEFINE y == payHandler[h]
           x == [y EXCEPT !.at = s]
<1>1. Pays(y) BY DEF PaidInv
<1>2. payHandler' = [payHandler EXCEPT ![h] = x] BY DEF Paid!Goes
<1> HIDE DEF y
<1>3. Pays(x) BY <1>1 DEF Pays, Settling
<1> QED BY <1>2, <1>3

\* A request ends.
LEMMA PaidEnd ==
  ASSUME NEW h \in Handlers, Paid!Ends(h)
  PROVE  \E x : payHandler' = [payHandler EXCEPT ![h] = x] /\ Pays(x)
BY PaysIdle DEF Paid!Ends

\* Each step keeps it, and a settled order stays settled.
LEMMA PaidStep ==
  PaidInv /\ Paid!Next => PaidInv' /\ \A o \in Orders : order[o].settled => order'[o].settled
<1> SUFFICES ASSUME PaidInv, Paid!Next
             PROVE  PaidInv' /\ \A o \in Orders : order[o].settled => order'[o].settled
  OBVIOUS
<1> DEFINE Goal == PaidInv' /\ \A o \in Orders : order[o].settled => order'[o].settled
<1> USE DEF Paid!At, Paid!Alipay
<1>1. /\ policy \in Rates /\ order \in [Orders -> Paid!Order]
      /\ trade \in [Orders -> {"wait", "paid", "closed"}]
      /\ \A o \in Orders : RowAgrees(o)
      /\ \A h \in Handlers : Pays(payHandler[h])
  BY DEF PaidInv
<1>2. ASSUME NEW o \in Orders, Paid!CreateOrder(o) PROVE Goal
  <2> DEFINE row == [order[o] EXCEPT !.status = "PENDING", !.credit = policy]
  <2>1. order' = [order EXCEPT ![o] = row] /\ order[o] = Paid!NoOrder
        /\ UNCHANGED <<policy, trade, payHandler>>
    BY <1>2 DEF Paid!CreateOrder
  <2>2. row.status = "PENDING" /\ ~row.settled BY <2>1 DEF Paid!NoOrder
  <2>3. row \in Paid!Order
    <3>1. order[o] \in Paid!Order BY <1>1
    <3> QED BY <1>1, <3>1 DEF Paid!Order
  <2> HIDE DEF row
  <2>4. /\ order' \in [Orders -> Paid!Order] /\ order'[o] = row
        /\ \A q \in Orders \ {o} : order'[q] = order[q]
    BY <1>1, <2>1, <2>3
  <2>5. \A q \in Orders : Onward(q) /\ RowAgrees(q)' /\ (order[q].settled => order'[q].settled)
    <3> SUFFICES ASSUME NEW q \in Orders
                 PROVE  Onward(q) /\ RowAgrees(q)' /\ (order[q].settled => order'[q].settled)
      OBVIOUS
    <3>1. CASE q = o BY <1>1, <2>1, <2>2, <2>4, <3>1 DEF Onward, RowAgrees, Paid!NoOrder
    <3>2. CASE q # o
      <4>1. order'[q] = order[q] /\ RowAgrees(q) /\ trade' = trade BY <1>1, <2>1, <2>4, <3>2
      <4> QED BY <4>1 DEF Onward, RowAgrees
    <3> QED BY <3>1, <3>2
  <2> QED BY <1>1, <2>1, <2>4, <2>5, PaidRest
<1>3. ASSUME NEW o \in Orders, Paid!Pay(o) \/ Paid!Close(o) PROVE Goal
  <2>1. /\ order[o].status # "absent" /\ trade[o] = "wait"
        /\ UNCHANGED <<policy, order, payHandler>>
        /\ trade' = [trade EXCEPT ![o] = "paid"] \/ trade' = [trade EXCEPT ![o] = "closed"]
    BY <1>1, <1>3 DEF Paid!Pay, Paid!Close, RowAgrees
  <2>2. /\ trade' \in [Orders -> {"wait", "paid", "closed"}]
        /\ \A q \in Orders \ {o} : trade'[q] = trade[q]
    BY <1>1, <2>1
  <2>3. \A q \in Orders : Onward(q) /\ RowAgrees(q)'
    BY <1>1, <2>1, <2>2 DEF Onward, RowAgrees
  <2> QED BY <1>1, <2>1, <2>2, <2>3, PaidRest
<1>4. ASSUME Paid!SetPolicy \/ Paid!NewDay PROVE Goal
  <2>1. UNCHANGED <<order, trade, payHandler>> /\ policy' \in Rates
    BY <1>1, <1>4 DEF Paid!SetPolicy, Paid!NewDay
  <2>2. \A q \in Orders : Onward(q) /\ RowAgrees(q)' BY <1>1, <2>1 DEF Onward, RowAgrees
  <2> QED BY <1>1, <2>1, <2>2, PaidRest
<1>5. ASSUME NEW h \in Handlers, NEW x, payHandler' = [payHandler EXCEPT ![h] = x], Pays(x),
             UNCHANGED <<policy, order, trade>>
      PROVE  Goal
  BY <1>5, PaidGo
<1>6. ASSUME NEW h \in Handlers, NEW x, payHandler' = [payHandler EXCEPT ![h] = x], Pays(x),
             UNCHANGED <<policy, trade>>, NEW b \in BOOLEAN, order' = Paid!Flushed(h, b),
             payHandler[h].at \in Settling \ {"query"}, b => payHandler[h].saw = "paid"
      PROVE  Goal
  <2>1. /\ order' \in [Orders -> Paid!Order]
        /\ \A o \in Orders : Onward(o) /\ RowAgrees(o)'
        /\ \A o \in Orders : order[o].settled => order'[o].settled
    BY <1>6, PaidFlush
  <2> QED BY <1>6, <2>1, PaidMove
<1>7. ASSUME NEW h \in Handlers, NEW o \in Orders, Paid!Notify(h, o) PROVE Goal
  <2> DEFINE x == [Paid!Idle EXCEPT !.at = "apply", !.kind = "notify", !.order = o,
                                    !.saw = "paid", !.loaded = order[o]]
  <2>1. /\ payHandler' = [payHandler EXCEPT ![h] = x] /\ trade[o] = "paid"
        /\ UNCHANGED <<policy, order, trade>>
    BY <1>7 DEF Paid!Notify, Paid!Genuine
  <2>2. Pays(x)
    <3>1. RowAgrees(o) /\ order[o] \in Paid!Order BY <1>1
    <3>2. /\ DOMAIN x = {"at", "kind", "order", "saw", "loaded", "rate", "version"}
          /\ x.at = "apply" /\ x.order = o /\ x.saw = "paid" /\ x.loaded = order[o] /\ x.rate = 0
      BY DEF Paid!Idle
    <3> HIDE DEF x
    <3>3. Seen(x) BY <2>1, <3>1, <3>2 DEF Seen, RowAgrees
    <3> QED BY <3>2, <3>3 DEF Pays
  <2> HIDE DEF x
  <2> QED BY <1>5, <2>1, <2>2
<1>8. ASSUME NEW h \in Handlers, NEW o \in Orders, Paid!Refresh(h, o) PROVE Goal
  <2> DEFINE x == [Paid!Idle EXCEPT !.at = "query", !.kind = "refresh", !.order = o,
                                    !.loaded = order[o]]
  <2>1. /\ payHandler' = [payHandler EXCEPT ![h] = x] /\ order[o].status \in {"PENDING", "FAILED"}
        /\ UNCHANGED <<policy, order, trade>>
    BY <1>8 DEF Paid!Refresh
  <2>2. Pays(x)
    <3>1. RowAgrees(o) /\ order[o] \in Paid!Order BY <1>1
    <3>2. /\ DOMAIN x = {"at", "kind", "order", "saw", "loaded", "rate", "version"}
          /\ x.at = "query" /\ x.order = o /\ x.saw = "none" /\ x.loaded = order[o] /\ x.rate = 0
      BY DEF Paid!Idle
    <3> HIDE DEF x
    <3>3. Seen(x) BY <2>1, <3>1, <3>2 DEF Seen, RowAgrees
    <3> QED BY <3>2, <3>3 DEF Pays
  <2> HIDE DEF x
  <2> QED BY <1>5, <2>1, <2>2
<1>9. ASSUME NEW h \in Handlers, Paid!QueryTrade(h) PROVE Goal
  <2> DEFINE y == payHandler[h]
             x == [y EXCEPT !.at = "apply", !.saw = trade[y.order]]
  <2>1. /\ y.at = "query" /\ UNCHANGED <<policy, order, trade>>
        /\ Paid!Ends(h) \/ payHandler' = [payHandler EXCEPT ![h] = x]
    BY <1>9 DEF Paid!QueryTrade, PaidInv
  <2>2. Pays(x)
    <3>1. Pays(y) /\ Seen(y) /\ trade[y.order] \in {"wait", "paid", "closed"}
      BY <1>1, <2>1 DEF Pays, Settling, Seen
    <3>2. /\ DOMAIN x = DOMAIN y /\ x.at = "apply" /\ x.order = y.order /\ x.loaded = y.loaded
          /\ x.saw = trade[y.order] /\ x.rate = y.rate
      BY <3>1 DEF Pays
    <3>3. y.loaded.status = "SUCCESS" => trade[y.order] = "paid" BY <3>1 DEF Seen
    <3> HIDE DEF x, y
    <3>4. Seen(x) BY <3>1, <3>2, <3>3 DEF Seen
    <3> QED BY <3>1, <3>2, <3>4 DEF Pays
  <2> HIDE DEF x
  <2> QED BY <1>5, <2>1, <2>2, PaidEnd
<1>10. ASSUME NEW h \in Handlers, Paid!Apply(h) PROVE Goal
  <2> DEFINE y == payHandler[h]
             x == [y EXCEPT !.at = "lookup", !.rate = policy]
  <2>1. y.at = "apply" /\ UNCHANGED <<policy, trade>> BY <1>10 DEF Paid!Apply
  <2>2. CASE Paid!StatusOf(y.saw) # "SUCCESS"
    <3>1. Paid!Ends(h) /\ order' = Paid!Flushed(h, FALSE) BY <1>10, <2>2 DEF Paid!Apply
    <3>2. PICK z : payHandler' = [payHandler EXCEPT ![h] = z] /\ Pays(z) BY <3>1, PaidEnd
    <3> QED BY <1>6, <2>1, <3>1, <3>2 DEF Settling
  <2>3. CASE Paid!StatusOf(y.saw) = "SUCCESS"
    <3>1. payHandler' = [payHandler EXCEPT ![h] = x] /\ UNCHANGED order
      BY <1>10, <2>3 DEF Paid!Apply, PaidInv
    <3>2. Pays(y) /\ Seen(y) BY <1>1, <2>1 DEF Pays, Settling
    <3>3. y.saw = "paid" BY <2>1, <2>3, <3>2, Statuses DEF Seen
    <3>4. /\ DOMAIN x = DOMAIN y /\ x.at = "lookup" /\ x.order = y.order /\ x.loaded = y.loaded
          /\ x.saw = y.saw /\ x.rate = policy
      BY <3>2 DEF Pays
    <3> HIDE DEF x, y
    <3>5. Pays(x) BY <1>1, <3>2, <3>3, <3>4 DEF Seen, Pays
    <3> QED BY <1>5, <2>1, <3>1, <3>5
  <2> QED BY <2>2, <2>3
<1>11. ASSUME NEW h \in Handlers, payHandler[h].at \in Settling \ {"query", "apply"}
       PROVE  payHandler[h].saw = "paid"
  BY <1>1, <1>11 DEF Pays, Seen
<1>12. ASSUME NEW h \in Handlers, Paid!LookUp(h) \/ Paid!Insert(h) \/ Paid!Finish(h) PROVE Goal
  <2>1. /\ payHandler[h].at \in {"lookup", "insert", "finish"} /\ UNCHANGED <<policy, order, trade>>
        /\ Paid!Ends(h) \/ \E s \in {"open", "settle", "reopen"} : Paid!Goes(h, s)
    BY <1>12 DEF Paid!LookUp, Paid!Insert, Paid!Finish
  <2>2. payHandler[h].saw = "paid" /\ payHandler[h].at \in Settling BY <1>11, <2>1 DEF Settling
  <2>3. PICK z : payHandler' = [payHandler EXCEPT ![h] = z] /\ Pays(z)
    BY <2>1, <2>2, PaidEnd, PaidOn
  <2> QED BY <1>5, <2>1, <2>3
<1>13. ASSUME NEW h \in Handlers, Paid!OpenQuota(h) \/ Paid!Reopen(h) \/ Paid!Credit(h) PROVE Goal
  <2>1. /\ payHandler[h].at \in {"open", "reopen", "credit"} /\ UNCHANGED <<policy, trade>>
        /\ \E s \in {"insert", "credit", "finish"} : Paid!Goes(h, s)
        /\ UNCHANGED order \/ order' = Paid!Flushed(h, FALSE)
    BY <1>13 DEF Paid!OpenQuota, Paid!Reopen, Paid!Credit
  <2>2. payHandler[h].saw = "paid" /\ payHandler[h].at \in Settling \ {"query"}
    BY <1>11, <2>1 DEF Settling
  <2>3. PICK z : payHandler' = [payHandler EXCEPT ![h] = z] /\ Pays(z) BY <2>1, <2>2, PaidOn
  <2> QED BY <1>5, <1>6, <2>1, <2>2, <2>3
<1>14. ASSUME NEW h \in Handlers, Paid!Settle(h) PROVE Goal
  <2>1. /\ payHandler[h].at = "settle" /\ UNCHANGED <<policy, trade>>
        /\ Paid!Ends(h) /\ order' = Paid!Flushed(h, TRUE)
    BY <1>14 DEF Paid!Settle
  <2>2. payHandler[h].saw = "paid" /\ payHandler[h].at \in Settling \ {"query"}
    BY <1>11, <2>1 DEF Settling
  <2>3. PICK z : payHandler' = [payHandler EXCEPT ![h] = z] /\ Pays(z) BY <2>1, PaidEnd
  <2> QED BY <1>6, <2>1, <2>2, <2>3
<1>15. ASSUME NEW h \in Handlers, Paid!Adjust(h) \/ Paid!CheckAndDeduct(h) PROVE Goal
  <2> DEFINE y == payHandler[h]
             x == [y EXCEPT !.at = "write", !.kind = "raise"]
             z == [y EXCEPT !.at = "deduct", !.kind = "lower"]
             v == [y EXCEPT !.at = "write", !.version = quota.version]
  <2>1. /\ UNCHANGED <<policy, order, trade>>
        /\ \/ payHandler' = [payHandler EXCEPT ![h] = x]
           \/ payHandler' = [payHandler EXCEPT ![h] = z]
           \/ payHandler' = [payHandler EXCEPT ![h] = v]
    BY <1>15 DEF Paid!Adjust, Paid!CheckAndDeduct, PaidInv
  <2>2. Pays(y) BY <1>1
  <2>3. Pays(x) /\ Pays(z) /\ Pays(v) BY <2>2 DEF Pays, Settling
  <2> HIDE DEF x, z, v
  <2> QED BY <1>5, <2>1, <2>3
<1>16. ASSUME NEW h \in Handlers, Paid!WriteBalance(h) PROVE Goal
  <2>1. /\ UNCHANGED <<policy, order, trade>>
        /\ \E s \in {"deduct", "book"} : Paid!Goes(h, s)
    BY <1>16 DEF Paid!WriteBalance
  <2>2. PICK z : payHandler' = [payHandler EXCEPT ![h] = z] /\ Pays(z) BY <2>1, PaidOther
  <2> QED BY <1>5, <2>1, <2>2
<1>17. ASSUME NEW h \in Handlers, Paid!BookAdjustment(h) \/ Paid!Die(h) PROVE Goal
  <2>1. UNCHANGED <<policy, order, trade>> /\ Paid!Ends(h)
    BY <1>17 DEF Paid!BookAdjustment, Paid!Die
  <2>2. PICK z : payHandler' = [payHandler EXCEPT ![h] = z] /\ Pays(z) BY <2>1, PaidEnd
  <2> QED BY <1>5, <2>1, <2>2
<1> QED BY <1>2, <1>3, <1>4, <1>7, <1>8, <1>9, <1>10, <1>12, <1>13, <1>14, <1>15, <1>16, <1>17
     DEF Paid!Next, Paid!HandlerStep

\* A settled order is a SUCCESS, and a SUCCESS is paid.
LEMMA PaidStays ==
  ASSUME PaidInv, Paid!Next, NEW o \in Orders
  PROVE  /\ order[o].settled => order'[o].settled /\ order'[o].status = "SUCCESS"
         /\ order'[o].status = "SUCCESS" => trade[o] = "paid"
<1>1. PaidInv' /\ (order[o].settled => order'[o].settled) BY PaidStep
<1>2. RowAgrees(o) /\ RowAgrees(o)' BY <1>1 DEF PaidInv
<1>3. UNCHANGED order \/ UNCHANGED trade
  BY DEF Paid!Next, Paid!HandlerStep, Paid!Alipay, Paid!CreateOrder, Paid!Pay, Paid!Close,
    Paid!SetPolicy, Paid!NewDay, Paid!Notify, Paid!Refresh, Paid!QueryTrade, Paid!Apply,
    Paid!LookUp, Paid!OpenQuota, Paid!Insert, Paid!Reopen, Paid!Credit, Paid!Finish, Paid!Settle,
    Paid!Adjust, Paid!CheckAndDeduct, Paid!WriteBalance, Paid!BookAdjustment, Paid!Die
<1> QED BY <1>1, <1>2, <1>3 DEF RowAgrees

-----------------------------------------------------------------------------
(* The market of assistants: a pending review is decided once. *)

Judging(r) == reviewer[r].pc = "judging"

\* A reviewer that judges has the review alone, unless the verdict of another overtook it.
MarketInv ==
  /\ assistant \in [Shared ->
      [status : Market!Lives, visibility : Market!Visibilities, version : Nat]]
  /\ submission \in [Shared -> Market!ReviewStates]
  /\ install \in [Shared -> SUBSET Installers]
  /\ DOMAIN reviewer = Reviewers
  /\ \A r \in Reviewers : Judging(r) /\ reviewer[r].of \notin overtaken =>
       /\ submission[reviewer[r].of] = "pending"
       /\ \A q \in Reviewers : Judging(q) /\ reviewer[q].of = reviewer[r].of => q = r
  /\ \A r \in Reviewers : Judging(r) => reviewer[r].of \in Shared
  /\ DOMAIN search = Installers
  /\ Market!FoundIsOpen

\* It holds before any submission.
LEMMA MarketInit == Market!Init => MarketInv
<1> SUFFICES ASSUME Market!Init PROVE MarketInv OBVIOUS
<1>1. \A r \in Reviewers : ~Judging(r) BY DEF Market!Init, Market!Idle, Judging
<1>2. Market!FoundIsOpen BY DEF Market!Init, Market!Idle, Market!FoundIsOpen
<1>3. assistant \in [Shared ->
    [status : Market!Lives, visibility : Market!Visibilities, version : Nat]]
  BY DEF Market!Init, Market!NoAssistant, Market!Lives, Market!Visibilities
<1>4. submission \in [Shared -> Market!ReviewStates] BY DEF Market!Init, Market!ReviewStates
<1> QED BY <1>1, <1>2, <1>3, <1>4 DEF Market!Init, MarketInv

\* The assistants, the installs or the indexes change, the reviews do not.
LEMMA MarketRest ==
  ASSUME MarketInv, UNCHANGED <<submission, overtaken, reviewer>>,
         assistant' \in [Shared ->
             [status : Market!Lives, visibility : Market!Visibilities, version : Nat]],
         install' \in [Shared -> SUBSET Installers], DOMAIN search' = Installers,
             Market!FoundIsOpen'
  PROVE  MarketInv'
BY DEF MarketInv, Judging

\* A search moves.
LEMMA MarketSearch ==
  ASSUME MarketInv, NEW u \in Installers, NEW x, search' = [search EXCEPT ![u] = x],
         x.pc = "shown" => x.ids \subseteq x.wanted
  PROVE  DOMAIN search' = Installers /\ Market!FoundIsOpen'
BY DEF MarketInv, Market!FoundIsOpen

\* Each step keeps it, keeps an archived assistant out, and decides a pending review only.
LEMMA MarketStep ==
  ASSUME MarketInv, Market!Next
  PROVE  /\ MarketInv'
         /\ \A a \in Shared : assistant[a].status = "archived" =>
              /\ assistant'[a].status \in {"archived", "deleted"}
              /\ install'[a] \subseteq install[a]
         /\ \A a \in Shared \ overtaken : submission'[a] # submission[a] =>
              submission'[a] = "pending" \/ submission[a] = "pending"
<1> DEFINE Archived == \A a \in Shared : assistant[a].status = "archived" =>
              /\ assistant'[a].status \in {"archived", "deleted"}
              /\ install'[a] \subseteq install[a]
           Verdict == \A a \in Shared \ overtaken : submission'[a] # submission[a] =>
              submission'[a] = "pending" \/ submission[a] = "pending"
           Goal == MarketInv' /\ Archived /\ Verdict
<1>1. /\ assistant \in [Shared ->
         [status : Market!Lives, visibility : Market!Visibilities, version : Nat]]
      /\ install \in [Shared -> SUBSET Installers]
      /\ submission \in [Shared -> Market!ReviewStates]
      /\ DOMAIN search = Installers /\ Market!FoundIsOpen
  BY DEF MarketInv
<1>2. UNCHANGED search => DOMAIN search' = Installers /\ Market!FoundIsOpen'
  BY <1>1 DEF Market!FoundIsOpen
<1>3. ASSUME NEW a \in Shared, NEW row, assistant' = [assistant EXCEPT ![a] = row],
             row \in [status : Market!Lives, visibility : Market!Visibilities, version : Nat],
             assistant[a].status = "archived" => row.status \in {"archived", "deleted"},
             UNCHANGED <<submission, overtaken, reviewer, install, search>>
      PROVE  Goal
  <2>1. assistant' \in [Shared ->
      [status : Market!Lives, visibility : Market!Visibilities, version : Nat]]
    BY <1>1, <1>3
  <2>2. Archived BY <1>1, <1>3
  <2>3. install' \in [Shared -> SUBSET Installers] /\ Verdict BY <1>1, <1>3
  <2>4. MarketInv' BY <1>2, <1>3, <2>1, <2>3, MarketRest
  <2> QED BY <2>2, <2>3, <2>4
<1>4. ASSUME NEW a \in Shared, NEW s \in {"draft", "published"}, NEW v \in Market!Visibilities,
             Market!CreateAssistant(a, s, v)
      PROVE  Goal
  <2> DEFINE row == [status |-> s, visibility |-> v, version |-> 1]
  <2>1. assistant' = [assistant EXCEPT ![a] = row] /\ assistant[a].status = "none"
        /\ UNCHANGED <<submission, overtaken, reviewer, install, search>>
    BY <1>4 DEF Market!CreateAssistant
  <2>2. row \in [status : Market!Lives, visibility : Market!Visibilities, version : Nat]
    BY DEF Market!Lives
  <2> HIDE DEF row
  <2> QED BY <1>3, <2>1, <2>2
<1>5. ASSUME NEW a \in Shared, NEW s \in {"draft", "published", "archived"},
             NEW v \in Market!Visibilities, NEW fresh \in BOOLEAN,
             Market!UpdateAssistant(a, s, v, fresh)
      PROVE  Goal
  <2> DEFINE row == [status |-> s, visibility |-> v,
                     version |-> IF fresh THEN assistant[a].version + 1 ELSE assistant[a].version]
  <2>1. /\ assistant' = [assistant EXCEPT ![a] = row]
        /\ Market!ValidTransition(assistant[a].status, s)
        /\ UNCHANGED <<submission, overtaken, reviewer, install, search>>
    BY <1>5 DEF Market!UpdateAssistant
  <2>2. row \in [status : Market!Lives, visibility : Market!Visibilities, version : Nat]
    BY <1>1 DEF Market!Lives
  <2>3. assistant[a].status = "archived" => row.status = "archived"
    BY <2>1 DEF Market!ValidTransition
  <2> HIDE DEF row
  <2> QED BY <1>3, <2>1, <2>2, <2>3
<1>6. ASSUME NEW a \in Shared, Market!DeleteAssistant(a) PROVE Goal
  <2> DEFINE kept == [assistant[a] EXCEPT !.status = "archived", !.visibility = "private"]
             gone == [assistant[a] EXCEPT !.status = "deleted"]
  <2>1. /\ assistant' = [assistant EXCEPT ![a] = kept]
           \/ assistant' = [assistant EXCEPT ![a] = gone]
        /\ UNCHANGED <<submission, overtaken, reviewer, install, search>>
    BY <1>1, <1>6 DEF Market!DeleteAssistant
  <2>2. /\ kept \in [status : Market!Lives, visibility : Market!Visibilities, version : Nat]
        /\ gone \in [status : Market!Lives, visibility : Market!Visibilities, version : Nat]
        /\ kept.status = "archived" /\ gone.status = "deleted"
    BY <1>1 DEF Market!Lives, Market!Visibilities
  <2> HIDE DEF kept, gone
  <2> QED BY <1>3, <2>1, <2>2
<1>7. ASSUME NEW r \in Reviewers, NEW a \in Shared, Market!SubmitForReview(r, a) PROVE Goal
  <2> DEFINE x == [pc |-> "judging", of |-> a]
  <2>1. /\ ~Judging(r) /\ submission' = [submission EXCEPT ![a] = "pending"]
        /\ reviewer' = [reviewer EXCEPT ![r] = x]
        /\ overtaken' = IF \E q \in Reviewers : Judging(q) /\ reviewer[q].of = a
                        THEN overtaken \cup {a} ELSE overtaken
        /\ UNCHANGED <<assistant, install, search>>
    BY <1>7 DEF Market!SubmitForReview, Judging
  <2>2. submission' \in [Shared -> Market!ReviewStates] BY <1>1, <2>1 DEF Market!ReviewStates
  <2>3. Archived /\ Verdict BY <1>1, <2>1
  <2>4. /\ DOMAIN reviewer' = Reviewers /\ reviewer'[r].pc = "judging" /\ reviewer'[r].of = a
        /\ \A q \in Reviewers \ {r} : reviewer'[q] = reviewer[q]
    BY <2>1 DEF MarketInv
  <2>5. \A q \in Reviewers : Judging(q)' /\ reviewer'[q].of \notin overtaken' =>
          /\ submission'[reviewer'[q].of] = "pending"
          /\ \A p \in Reviewers : Judging(p)' /\ reviewer'[p].of = reviewer'[q].of => p = q
    BY <1>1, <2>1, <2>4 DEF Judging, MarketInv
  <2>6. \A q \in Reviewers : Judging(q)' => reviewer'[q].of \in Shared
    BY <2>4 DEF Judging, MarketInv
  <2>7. /\ assistant' = assistant /\ install' = install BY <2>1
  <2>8. MarketInv' BY <1>1, <1>2, <2>1, <2>2, <2>4, <2>5, <2>6, <2>7 DEF MarketInv
  <2> QED BY <2>3, <2>8
<1>8. ASSUME NEW r \in Reviewers, reviewer' = [reviewer EXCEPT ![r] = Market!Idle], Judging(r),
             NEW new \in [Shared -> Market!ReviewStates], submission' = new,
             \A a \in Shared : a # reviewer[r].of => new[a] = submission[a],
             UNCHANGED <<assistant, install, overtaken, search>>
      PROVE  Goal
  <2>1. Archived BY <1>8
  <2>2. Verdict BY <1>8 DEF MarketInv
  <2>3. /\ DOMAIN reviewer' = Reviewers /\ ~Judging(r)'
        /\ \A q \in Reviewers \ {r} : reviewer'[q] = reviewer[q]
    BY <1>8 DEF MarketInv, Judging, Market!Idle
  <2>4. ASSUME NEW q \in Reviewers, Judging(q)', reviewer'[q].of \notin overtaken'
        PROVE  /\ submission'[reviewer'[q].of] = "pending" /\ reviewer'[q].of \in Shared
               /\ \A p \in Reviewers : Judging(p)' /\ reviewer'[p].of = reviewer'[q].of => p = q
    <3>1. q # r /\ reviewer'[q] = reviewer[q] /\ Judging(q) BY <2>3, <2>4 DEF Judging
    <3>2. /\ submission[reviewer[q].of] = "pending" /\ reviewer[q].of \in Shared
          /\ \A p \in Reviewers : Judging(p) /\ reviewer[p].of = reviewer[q].of => p = q
      BY <1>8, <2>4, <3>1 DEF MarketInv
    <3>3. reviewer[q].of # reviewer[r].of BY <1>8, <3>1, <3>2
    <3>4. \A p \in Reviewers : Judging(p)' => Judging(p) /\ reviewer'[p] = reviewer[p]
      BY <2>3 DEF Judging
    <3> QED BY <1>8, <3>1, <3>2, <3>3, <3>4
  <2>5. \A q \in Reviewers : Judging(q)' => reviewer'[q].of \in Shared
    BY <2>3 DEF Judging, MarketInv
  <2>6. MarketInv' BY <1>1, <1>2, <1>8, <2>3, <2>4, <2>5 DEF MarketInv
  <2> QED BY <2>1, <2>2, <2>6
<1>9. ASSUME NEW r \in Reviewers, NEW verdict \in {"approved", "rejected"},
             Market!AutoReview(r, verdict)
      PROVE  Goal
  <2> DEFINE new == [submission EXCEPT ![reviewer[r].of] = verdict]
  <2>1. new \in [Shared -> Market!ReviewStates] /\ \A a \in Shared : a # reviewer[r].of
      => new[a] = submission[a]
    BY <1>1 DEF Market!ReviewStates
  <2>2. /\ reviewer' = [reviewer EXCEPT ![r] = Market!Idle] /\ Judging(r) /\ submission' = new
        /\ UNCHANGED <<assistant, install, overtaken, search>>
    BY <1>9 DEF Market!AutoReview, Judging
  <2> HIDE DEF new
  <2> QED BY <1>8, <2>1, <2>2
<1>10. ASSUME NEW r \in Reviewers, Market!AutoReviewFails(r) PROVE Goal
  BY <1>1, <1>8, <1>10 DEF Market!AutoReviewFails, Judging
<1>11. ASSUME NEW a \in Shared, NEW verdict \in {"approved", "rejected"},
              Market!DecideReview(a, verdict)
       PROVE  Goal
  <2>1. /\ submission[a] = "pending" /\ submission' = [submission EXCEPT ![a] = verdict]
        /\ overtaken' = IF \E q \in Reviewers : Judging(q) /\ reviewer[q].of = a
                        THEN overtaken \cup {a} ELSE overtaken
        /\ UNCHANGED <<assistant, install, reviewer, search>>
    BY <1>11 DEF Market!DecideReview, Judging
  <2>2. submission' \in [Shared -> Market!ReviewStates] BY <1>1, <2>1 DEF Market!ReviewStates
  <2>3. Archived /\ Verdict BY <1>1, <2>1
  <2>4. ASSUME NEW q \in Reviewers, Judging(q)', reviewer'[q].of \notin overtaken'
        PROVE  /\ submission'[reviewer'[q].of] = "pending"
               /\ \A p \in Reviewers : Judging(p)' /\ reviewer'[p].of = reviewer'[q].of => p = q
    BY <1>1, <2>1, <2>4 DEF Judging, MarketInv
  <2>5. \A q \in Reviewers : Judging(q)' => reviewer'[q].of \in Shared
    BY <2>1 DEF Judging, MarketInv
  <2>6. MarketInv' BY <1>1, <1>2, <2>1, <2>2, <2>4, <2>5 DEF MarketInv
  <2> QED BY <2>3, <2>6
<1>12. ASSUME NEW u \in Installers, NEW a \in Shared,
              Market!InstallAssistant(u, a) \/ Market!UninstallAssistant(u, a)
       PROVE  Goal
  <2>1. /\ UNCHANGED <<assistant, submission, overtaken, reviewer, search>>
        /\ \/ /\ install' = [install EXCEPT ![a] = @ \cup {u}]
              /\ assistant[a].status = "published"
           \/ install' = [install EXCEPT ![a] = @ \ {u}]
    BY <1>12 DEF Market!InstallAssistant, Market!UninstallAssistant, Market!Open, Market!Indexable
  <2>2. install' \in [Shared -> SUBSET Installers] BY <1>1, <2>1
  <2>3. Archived
    <3>1. \A b \in Shared : b # a => install'[b] = install[b] BY <1>1, <2>1
    <3>2. install'[a] \subseteq install[a] \/ assistant[a].status = "published" BY <1>1, <2>1
    <3> QED BY <2>1, <3>1, <3>2
  <2>4. Verdict BY <2>1
  <2>5. MarketInv' BY <1>1, <1>2, <2>1, <2>2, MarketRest
  <2> QED BY <2>3, <2>4, <2>5
<1>13. ASSUME NEW op \in Market!Ops, NEW a \in Shared,
    Market!IndexTask(op, a) \/ Market!IndexTaskFails(op, a)
       PROVE  Goal
  <2>1. UNCHANGED <<assistant, submission, overtaken, reviewer, search, install>>
    BY <1>13 DEF Market!IndexTask, Market!IndexTaskFails
  <2> QED BY <1>1, <1>2, <2>1, MarketRest
<1>14. ASSUME NEW u \in Installers, NEW found,
              Market!SearchIndex(u, found) \/ Market!ShowCandidates(u) \/ Market!CloseSearch(u)
       PROVE  Goal
  <2>1. UNCHANGED <<assistant, submission, overtaken, reviewer, install>>
    BY <1>14 DEF Market!SearchIndex, Market!ShowCandidates, Market!CloseSearch
  <2>2. DOMAIN search' = Installers /\ Market!FoundIsOpen'
    <3>1. ASSUME Market!SearchIndex(u, found)
        PROVE DOMAIN search' = Installers /\ Market!FoundIsOpen'
      <4> DEFINE x == [pc |-> "hits", ids |-> found]
      <4>1. search' = [search EXCEPT ![u] = x] BY <3>1 DEF Market!SearchIndex
      <4>2. x.pc # "shown" OBVIOUS
      <4> HIDE DEF x
      <4> QED BY <4>1, <4>2, MarketSearch
    <3>2. ASSUME Market!CloseSearch(u) PROVE DOMAIN search' = Installers /\ Market!FoundIsOpen'
      <4>1. Market!Idle.pc # "shown" BY DEF Market!Idle
      <4> QED BY <3>2, <4>1, MarketSearch DEF Market!CloseSearch
    <3>3. ASSUME Market!ShowCandidates(u) PROVE DOMAIN search' = Installers /\ Market!FoundIsOpen'
      <4> DEFINE x == [pc |-> "shown", ids |-> Market!Hydrate(search[u].ids),
                       wanted |-> {a \in search[u].ids : Market!Open(a)}]
      <4>1. search' = [search EXCEPT ![u] = x] BY <3>3 DEF Market!ShowCandidates
      <4>2. x.ids \subseteq x.wanted BY DEF Market!Hydrate
      <4> HIDE DEF x
      <4> QED BY <4>1, <4>2, MarketSearch
    <3> QED BY <1>14, <3>1, <3>2, <3>3
  <2> QED BY <1>1, <2>1, <2>2, MarketRest
<1> QED BY <1>4, <1>5, <1>6, <1>7, <1>9, <1>10, <1>11, <1>12, <1>13, <1>14 DEF Market!Next

-----------------------------------------------------------------------------
(* Knowledge: what is published has passed the critic. *)

\* What is on its way into the system's knowledge was let pass.
KnowInv ==
  /\ Knowledge!SystemPassedCritic
  /\ candidate.status \in {"pending_review", "approved"} => passed
  /\ DOMAIN candidate = {"status", "pos", "neg", "soured", "sessions"}
  /\ DOMAIN actor = Actors
  /\ \A a \in Actors : /\ DOMAIN actor[a] = {"at", "verdict", "auto"}
                       /\ actor[a].at = "publish" => passed

\* It holds before any candidate.
LEMMA KnowInit == Knowledge!Init => KnowInv
BY DEF Knowledge!Init, KnowInv, Knowledge!SystemPassedCritic, Knowledge!NewCandidate,
    Knowledge!ActorIdle

\* An actor goes to a stage.
LEMMA KnowMove ==
  ASSUME KnowInv, NEW a \in Actors, NEW x, actor' = [actor EXCEPT ![a] = x],
         DOMAIN x = {"at", "verdict", "auto"}, x.at = "publish" => passed', passed => passed',
         sysPoint' => sysPoint \/ passed',
         DOMAIN candidate' = {"status", "pos", "neg", "soured", "sessions"},
         candidate'.status \in {"pending_review", "approved"} => passed'
  PROVE  KnowInv'
BY DEF KnowInv, Knowledge!SystemPassedCritic

\* An actor goes to a stage, begins or ends.
LEMMA KnowGoes ==
  ASSUME KnowInv, NEW a \in Actors, NEW s, passed => passed', s = "publish" => passed',
         Knowledge!Goes(a, s) \/ Knowledge!Begins(a, s) \/ Knowledge!Ends(a),
         sysPoint' => sysPoint \/ passed',
         DOMAIN candidate' = {"status", "pos", "neg", "soured", "sessions"},
         candidate'.status \in {"pending_review", "approved"} => passed'
  PROVE  KnowInv'
<1> DEFINE x == [actor[a] EXCEPT !.at = s]
           y == [Knowledge!ActorIdle EXCEPT !.at = s]
<1>1. DOMAIN x = {"at", "verdict", "auto"} /\ x.at = s BY DEF KnowInv
<1>2. DOMAIN y = {"at", "verdict", "auto"} /\ y.at = s BY DEF Knowledge!ActorIdle
<1>3. DOMAIN Knowledge!ActorIdle = {"at", "verdict", "auto"} /\ Knowledge!ActorIdle.at # "publish"
  BY DEF Knowledge!ActorIdle
<1>4. \/ actor' = [actor EXCEPT ![a] = x] \/ actor' = [actor EXCEPT ![a] = y]
      \/ actor' = [actor EXCEPT ![a] = Knowledge!ActorIdle]
  BY DEF Knowledge!Goes, Knowledge!Begins, Knowledge!Ends
<1> HIDE DEF x, y
<1> QED BY <1>1, <1>2, <1>3, <1>4, KnowMove

\* Each step of the feedback's and the critic's keeps it.
LEMMA KnowStep == KnowInv /\ Knowledge!Next => KnowInv'
<1> SUFFICES ASSUME KnowInv, NEW a \in Actors,
                    \/ \E good \in BOOLEAN, s \in SpecSessions : Knowledge!RecordFeedback(a, good, s)
                    \/ \E n \in 0..MaxFeedback : Knowledge!EvaluateSkips(a, n)
                        \/ Knowledge!Evaluate(a, n)
                    \/ \E auto \in BOOLEAN : Knowledge!PromoteCandidate(a, auto)
                    \/ Knowledge!RejectCandidate(a) \/ Knowledge!AfterFeedback(a)
                    \/ Knowledge!JudgeAgainst(a) \/ Knowledge!JudgeFor(a) \/ Knowledge!Submit(a)
                    \/ Knowledge!List(a) \/ Knowledge!Unlist(a) \/ Knowledge!Publish(a)
                    \/ Knowledge!Approve(a) \/ Knowledge!Withdraw(a) \/ Knowledge!Refuse(a)
             PROVE  KnowInv'
  BY DEF Knowledge!Next
<1>1. /\ DOMAIN candidate = {"status", "pos", "neg", "soured", "sessions"}
      /\ candidate.status \in {"pending_review", "approved"} => passed
      /\ actor[a].at = "publish" => passed
  BY DEF KnowInv
<1>2. ASSUME NEW good \in BOOLEAN, NEW s \in SpecSessions, Knowledge!RecordFeedback(a, good, s)
      PROVE  KnowInv'
  <2> DEFINE n == [candidate EXCEPT !.pos = IF good THEN @ + 1 ELSE @,
                     !.neg = IF good THEN @ ELSE @ + 1, !.soured = ~good, !.sessions = @ \cup {s}]
             asked == IF n.status = "none" THEN "pending_signal" ELSE n.status
             moved == IF good /\ asked \in {"pending_signal", "rejected"}
                 THEN "pending_eval" ELSE asked
  <2>1. /\ candidate' = [n EXCEPT !.status = IF n.neg > n.pos THEN "rejected" ELSE moved]
        /\ Knowledge!Begins(a, "clean") /\ UNCHANGED <<sysPoint, passed>>
    BY <1>2 DEF Knowledge!RecordFeedback, Knowledge!WithFeedback
  <2>2. DOMAIN n = DOMAIN candidate /\ n.status = candidate.status BY <1>1
  <2> HIDE DEF n
  <2>3. DOMAIN candidate' = DOMAIN n
        /\ (candidate'.status = "rejected" \/ candidate'.status = moved)
    BY <1>1, <2>1, <2>2
  <2>4. moved \in {"pending_review", "approved"}
      => n.status \in {"pending_review", "approved"} OBVIOUS
  <2> HIDE DEF moved
  <2> QED BY <1>1, <2>1, <2>2, <2>3, <2>4, KnowGoes
<1>3. ASSUME NEW n \in 0..MaxFeedback, Knowledge!EvaluateSkips(a, n) PROVE KnowInv'
  <2>1. /\ UNCHANGED <<actor, sysPoint, passed>>
        /\ UNCHANGED candidate \/ candidate' = [candidate EXCEPT !.status = "rejected"]
    BY <1>3 DEF Knowledge!EvaluateSkips
  <2> QED BY <1>1, <2>1 DEF KnowInv, Knowledge!SystemPassedCritic
<1>4. ASSUME NEW n \in 0..MaxFeedback, Knowledge!Evaluate(a, n) PROVE KnowInv'
  BY <1>1, <1>4, KnowGoes DEF Knowledge!Evaluate
<1>5. ASSUME NEW auto \in BOOLEAN, Knowledge!PromoteCandidate(a, auto) PROVE KnowInv'
  <2>1. UNCHANGED <<sysPoint, passed>> BY <1>5 DEF Knowledge!PromoteCandidate
  <2>2. CASE UNCHANGED <<candidate, actor>>
    BY <2>1, <2>2 DEF KnowInv, Knowledge!SystemPassedCritic
  <2>3. CASE ~UNCHANGED <<candidate, actor>>
    <3>1. /\ candidate.status = "pending_review" /\ Knowledge!Begins(a, "publish")
          /\ candidate' = [candidate EXCEPT !.status = "approved"]
      BY <1>5, <2>3 DEF Knowledge!PromoteCandidate
    <3> QED BY <1>1, <2>1, <3>1, KnowGoes
  <2> QED BY <2>2, <2>3
<1>6. ASSUME Knowledge!RejectCandidate(a) \/ Knowledge!JudgeAgainst(a) PROVE KnowInv'
  <2>1. /\ candidate' = [candidate EXCEPT !.status = "rejected"] /\ UNCHANGED <<sysPoint, passed>>
        /\ Knowledge!Begins(a, "withdraw") \/ Knowledge!Goes(a, "unlist")
    BY <1>6 DEF Knowledge!RejectCandidate, Knowledge!JudgeAgainst
  <2> QED BY <1>1, <2>1, KnowGoes
<1>7. ASSUME Knowledge!JudgeFor(a) PROVE KnowInv'
  <2>1. /\ candidate' = [candidate EXCEPT !.status = "pending_review"] /\ UNCHANGED sysPoint
        /\ Knowledge!Goes(a, "submit") /\ passed'
    BY <1>7, Zenon DEF Knowledge!JudgeFor
  <2> QED BY <1>1, <2>1, KnowGoes
<1>8. ASSUME Knowledge!Publish(a) PROVE KnowInv'
  BY <1>1, <1>8, KnowGoes DEF Knowledge!Publish
<1>9. ASSUME Knowledge!AfterFeedback(a) \/ Knowledge!Submit(a) \/ Knowledge!List(a)
             \/ Knowledge!Unlist(a) \/ Knowledge!Approve(a) \/ Knowledge!Withdraw(a)
             \/ Knowledge!Refuse(a)
      PROVE  KnowInv'
  <2>1. /\ UNCHANGED <<candidate, sysPoint, passed>>
        /\ Knowledge!Ends(a) \/ \E s \in {"list", "refuse"} : Knowledge!Goes(a, s)
    BY <1>9 DEF Knowledge!AfterFeedback, Knowledge!Submit, Knowledge!List, Knowledge!Unlist,
      Knowledge!Approve, Knowledge!Withdraw, Knowledge!Refuse
  <2>2. PICK s : s # "publish" /\ (Knowledge!Ends(a) \/ Knowledge!Goes(a, s)) BY <2>1
  <2> QED BY <1>1, <2>1, <2>2, KnowGoes
<1> QED BY <1>2, <1>3, <1>4, <1>5, <1>6, <1>7, <1>8, <1>9

-----------------------------------------------------------------------------
(* The components together. *)

AccessInv ==
  /\ KeyInv /\ LimitInv /\ SessInv /\ SignInv /\ DeskInv /\ PaidInv /\ MarketInv /\ KnowInv

\* Nobody starts with anything: the invariants of the components hold at first.
LEMMA AccessInit == Init => AccessInv
BY KeyInit, LimitInit, SessInit, SignInit, DeskInit, PaidInit, MarketInit, KnowInit
   DEF Init, AccessInv

\* A component whose variables rest keeps its invariant, whatever the others do.
LEMMA KeyRests == KeyInv /\ UNCHANGED key => KeyInv'
BY DEF KeyInv, key, Key!TypeOK, Key!Usable

LEMMA LimitRests == LimitInv /\ UNCHANGED rate => LimitInv'
BY DEF LimitInv, rate, AtGate, AtKey, Held, Counted

LEMMA SessRests == SessInv /\ UNCHANGED session => SessInv'
BY SessRest DEF session

LEMMA SignRests == SignInv /\ UNCHANGED signup => SignInv'
<1> SUFFICES ASSUME SignInv, UNCHANGED signup PROVE SignInv' OBVIOUS
<1>1. UNCHANGED <<control, invite, tempInvite, account, applicant>> BY DEF signup
<1>2. \A c \in Invites : invite'[c] = "unused" => invite[c] = "unused" BY <1>1
<1>3. tempInvite' \in [Emails -> AnInvite] /\ invite' \in [Invites -> Signup!InviteStatus]
  BY <1>1 DEF SignInv
<1> QED BY <1>1, <1>2, <1>3, SignRest

LEMMA DeskRests == DeskInv /\ UNCHANGED desktops => DeskInv'
<1> SUFFICES ASSUME DeskInv, UNCHANGED desktops PROVE DeskInv' OBVIOUS
<1>1. UNCHANGED <<login, grantRow, identity, desktop>> BY DEF desktops
<1>2. \A d \in Logins : Later(d) /\ LoginFits(d)' BY <1>1 DEF DeskInv, Later, LoginFits, Vouched
<1>3. DOMAIN login' = Logins
      /\ \A g \in DOMAIN grantRow' :
           /\ DOMAIN grantRow'[g] = {"login", "status"} /\ grantRow'[g].login \in Logins
           /\ login'[grantRow'[g].login].status \in {"grant issued", "exchanged"}
  BY <1>1 DEF DeskInv
<1> QED BY <1>1, <1>2, <1>3, DeskRest

LEMMA PaidRests == PaidInv /\ UNCHANGED money => PaidInv'
<1> SUFFICES ASSUME PaidInv, UNCHANGED money PROVE PaidInv' OBVIOUS
<1>1. UNCHANGED <<policy, trade, order, payHandler>> BY DEF money
<1>2. \A o \in Orders : Onward(o) /\ RowAgrees(o)' BY <1>1 DEF PaidInv, Onward, RowAgrees
<1>3. policy' \in Rates /\ order' \in [Orders -> Paid!Order]
      /\ trade' \in [Orders -> {"wait", "paid", "closed"}]
  BY <1>1 DEF PaidInv
<1> QED BY <1>1, <1>2, <1>3, PaidRest

LEMMA MarketRests == MarketInv /\ UNCHANGED market => MarketInv'
BY DEF MarketInv, market, Market!FoundIsOpen, Judging

LEMMA KnowRests == KnowInv /\ UNCHANGED knowledge => KnowInv'
BY DEF KnowInv, knowledge, Knowledge!SystemPassedCritic

\* A component moves by its own step, or its variables rest.
LEMMA OneMoves ==
  ASSUME [Next]_accessVars
  PROVE  /\ Key!Next \/ UNCHANGED key
         /\ Limiter!Next \/ UNCHANGED rate
         /\ Session!Next \/ UNCHANGED session
         /\ Signup!Next \/ UNCHANGED signup
         /\ Desktop!Next \/ UNCHANGED desktops
         /\ Paid!Next \/ UNCHANGED money
         /\ Market!Next \/ UNCHANGED market
         /\ Knowledge!Next \/ UNCHANGED knowledge
<1> USE DEF Next, accessVars, shared, KeysMove, RatesMove, SessionsMove, SignupMoves, DesktopMoves,
            ArmsMove, ProtocolMoves, IndexMoves, MediaMove, MarketMoves, KnowledgeMoves, MoneyMoves
<1>1. Key!Next \/ UNCHANGED key OBVIOUS
<1>2. Limiter!Next \/ UNCHANGED rate OBVIOUS
<1>3. Session!Next \/ UNCHANGED session OBVIOUS
<1>4. Signup!Next \/ UNCHANGED signup OBVIOUS
<1>5. Desktop!Next \/ UNCHANGED desktops OBVIOUS
<1>6. Paid!Next \/ UNCHANGED money OBVIOUS
<1>7. Market!Next \/ UNCHANGED market OBVIOUS
<1>8. Knowledge!Next \/ UNCHANGED knowledge OBVIOUS
<1> QED BY <1>1, <1>2, <1>3, <1>4, <1>5, <1>6, <1>7, <1>8

\* Each component keeps its invariant when it moves, and rests when another does.
LEMMA AccessStep == AccessInv /\ [Next]_accessVars => AccessInv'
<1> SUFFICES ASSUME AccessInv, [Next]_accessVars PROVE AccessInv' OBVIOUS
<1>1. KeyInv' BY OneMoves, KeyStep, KeyRests DEF AccessInv
<1>2. LimitInv' BY OneMoves, LimitStep, LimitRests DEF AccessInv
<1>3. SessInv' BY OneMoves, SessStep, SessRests DEF AccessInv
<1>4. SignInv' BY OneMoves, SignStep, SignRests DEF AccessInv
<1>5. DeskInv' BY OneMoves, DeskStep, DeskRests DEF AccessInv
<1>6. PaidInv' BY OneMoves, PaidStep, PaidRests DEF AccessInv
<1>7. MarketInv' BY OneMoves, MarketStep, MarketRests DEF AccessInv
<1>8. KnowInv' BY OneMoves, KnowStep, KnowRests DEF AccessInv
<1> QED BY <1>1, <1>2, <1>3, <1>4, <1>5, <1>6, <1>7, <1>8 DEF AccessInv

\* In every state of every behaviour the components' invariants hold.
THEOREM AccessHolds == Spec => []AccessInv
BY AccessInit, AccessStep, PTL DEF Spec

\* Nobody gets in on what was spent, revoked or used up: in every state, whatever the
\* interleaving of requests, the limiter's windows hold, a revoked session's tokens are
\* refused, a code admits one account, a spent grant signs nobody in, only accounts the
\* provider vouched for are signed in, a search finds what is open, and the system's
\* knowledge has passed the critic.
THEOREM OnlyTheEntitledGetIn == Spec => []AdmittedRightly
<1>1. AccessInv => AdmittedRightly
  BY LimitHolds, SessRefuses, SignAdmits, DeskKnows DEF AccessInv, AdmittedRightly, MarketInv,
      KnowInv
<1> QED BY <1>1, AccessHolds, PTL

\* A withdrawal, a used code, an archived assistant, a verdict and a settled order last:
\* no step of any request takes one back.
THEOREM NothingDecidedIsTakenBack == Spec => DecisionsLast
<1>1. AccessInv /\ [Next]_accessVars =>
        [\A k \in Keys : Key!Withdrawn(k) => Key!Withdrawn(k)']_Key!keyVars
  <2> SUFFICES ASSUME AccessInv, [Next]_accessVars
               PROVE  [\A k \in Keys : Key!Withdrawn(k) => Key!Withdrawn(k)']_Key!keyVars
    OBVIOUS
  <2> QED BY OneMoves, KeyStays DEF AccessInv, key, Key!keyVars
<1>2. AccessInv /\ [Next]_accessVars =>
        [\A s \in SessionKeys : loginRow[s].status = "revoked"
           => loginRow'[s].status = "revoked"]_Session!sessionVars
  <2> SUFFICES ASSUME AccessInv, [Next]_accessVars
               PROVE  [\A s \in SessionKeys : loginRow[s].status = "revoked"
                         => loginRow'[s].status = "revoked"]_Session!sessionVars
    OBVIOUS
  <2> QED BY OneMoves, SessStays DEF AccessInv, session, Session!sessionVars
<1>3. AccessInv /\ [Next]_accessVars =>
        [\A c \in Invites : invite[c] \in {"used", "revoked"}
            => invite'[c] = invite[c]]_Signup!regVars
  <2> SUFFICES ASSUME AccessInv, [Next]_accessVars
               PROVE  [\A c \in Invites : invite[c] \in {"used", "revoked"}
                         => invite'[c] = invite[c]]_Signup!regVars
    OBVIOUS
  <2> QED BY OneMoves, SignStays DEF AccessInv, signup, Signup!regVars
<1>4. AccessInv /\ [Next]_accessVars =>
        /\ [\A a \in Shared : assistant[a].status = "archived" =>
              /\ assistant'[a].status \in {"archived", "deleted"}
              /\ install'[a] \subseteq install[a]]_Market!marketVars
        /\ [\A a \in Shared \ overtaken : submission'[a] # submission[a] =>
              \/ submission'[a] = "pending"
              \/ submission[a] = "pending"]_Market!marketVars
  <2> SUFFICES ASSUME AccessInv, [Next]_accessVars
               PROVE
        /\ [\A a \in Shared : assistant[a].status = "archived" =>
              /\ assistant'[a].status \in {"archived", "deleted"}
              /\ install'[a] \subseteq install[a]]_Market!marketVars
        /\ [\A a \in Shared \ overtaken : submission'[a] # submission[a] =>
              \/ submission'[a] = "pending"
              \/ submission[a] = "pending"]_Market!marketVars
    OBVIOUS
  <2> QED BY OneMoves, MarketStep DEF AccessInv, market, Market!marketVars
<1>5. AccessInv /\ [Next]_accessVars =>
        [\A o \in Orders : /\ order[o].settled => order'[o].settled /\ order'[o].status = "SUCCESS"
                           /\ order'[o].status = "SUCCESS" => trade[o] = "paid"]_Paid!rechargeVars
  <2> SUFFICES ASSUME AccessInv, [Next]_accessVars
               PROVE
        [\A o \in Orders : /\ order[o].settled => order'[o].settled /\ order'[o].status = "SUCCESS"
                           /\ order'[o].status = "SUCCESS" => trade[o] = "paid"]_Paid!rechargeVars
    OBVIOUS
  <2> QED BY OneMoves, PaidStays DEF AccessInv, money, Paid!rechargeVars
<1> QED
  BY <1>1, <1>2, <1>3, <1>4, <1>5, AccessHolds, PTL
  DEF Spec, DecisionsLast, Key!WithdrawnForGood, Session!RevocationIsFinal, Signup!CodesEnd,
      Market!ArchivedStaysOut, Market!VerdictFollowsSubmission, Paid!SettledStays
=============================================================================
