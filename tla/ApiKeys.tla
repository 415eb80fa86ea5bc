------------------------------ MODULE ApiKeys ------------------------------
(***************************************************************************)
(* API keys: the rows of api_key, the principals cached for them, and the  *)
(* calls of the external channel that present one.                         *)
(*                                                                         *)
(* get_db never commits.  The routes of the user commit what the service   *)
(* flushed, those of the administrator and the ban of a user do not, so    *)
(* their changes end with the session.  Both build the service without a   *)
(* Redis client, and _invalidate_cache then does nothing.                  *)
(*                                                                         *)
(* A key created before secrets existed has none and is signed with the    *)
(* key itself; a key made today has one, which no route ever returns.      *)
(* SECRET_KEY and JWT_SECRET_KEY are taken to be equal, otherwise no call  *)
(* would find the key it presents.                                         *)
(***************************************************************************)
EXTENDS Integers

CONSTANTS
  Keys,           \* key identities
  Legacy,         \* the keys that exist at the start, without a secret
  Callers,        \* calls in progress
  FailThreshold   \* SIGNATURE_FAIL_THRESHOLD

Desks == {"user", "admin"}
Status == {"none", "active", "expiring", "revoked", "deleted"}
Expiry == {"never", "later", "past"}

\* ApiKey, without what the admission of a call does not read.
Row == [status : Status, expires : Expiry, secret : BOOLEAN]

VARIABLES
  keyRow,     \* keyRow[k]: the committed row
  desk,       \* the management transaction: its route, and the rows it has flushed
  principal,  \* principal[k]: the cache has the principal of k
  sigFails,   \* sigFails[k]: failed signatures in the window
  frozen,     \* frozen[k]: a blacklist entry of k exists
  caller      \* caller[c]: stage of the call, and its key

keyVars == <<keyRow, desk, principal, sigFails, frozen, caller>>

Closed == [route |-> "none", rows |-> [k \in {} |-> {}]]
NoKey == "no key"
Waiting == [at |-> "idle", key |-> NoKey]

Init ==
  /\ keyRow = [k \in Keys |-> [status |-> IF k \in Legacy THEN "active" ELSE "none",
                               expires |-> "never", secret |-> k \notin Legacy]]
  /\ desk = Closed
  /\ principal = [k \in Keys |-> FALSE]
  /\ sigFails = [k \in Keys |-> 0]
  /\ frozen = [k \in Keys |-> FALSE]
  /\ caller = [c \in Callers |-> Waiting]

Exists(k) == keyRow[k].status \notin {"none", "deleted"}
Usable(row) == row.status = "active" /\ row.expires # "past"

-----------------------------------------------------------------------------
(* Key management, one transaction at a time *)

\* A flush of row k alone.
Only(k, row) == [j \in {k} |-> row]

\* No session has flushed a change of row k.
Unlocked(k) == k \notin DOMAIN desk.rows

Flush(d, rows) ==
  /\ desk = Closed
  /\ desk' = [route |-> d, rows |-> rows]
  /\ UNCHANGED <<keyRow, principal, sigFails, frozen, caller>>

GenerateKey(d, k) ==
  /\ keyRow[k].status = "none"
  /\ \E e \in {"never", "later"} :
       Flush(d, Only(k, [status |-> "active", expires |-> e, secret |-> TRUE]))

\* The new key inherits expires_at from the object the update has just changed.
RotateKey(d, k, n) ==
  /\ Exists(k)
  /\ keyRow[n].status = "none"
  /\ Flush(d, [j \in {k, n} |->
                 IF j = k THEN [keyRow[k] EXCEPT !.status = "expiring", !.expires = "later"]
                 ELSE [status |-> "active", expires |-> "later", secret |-> TRUE]])

RevokeKey(d, k) ==
  /\ Exists(k)
  /\ Flush(d, Only(k, [keyRow[k] EXCEPT !.status = "revoked"]))

\* Only an administrator sets expires_at.
UpdateKey(k) ==
  /\ Exists(k)
  /\ Flush("admin", Only(k, [keyRow[k] EXCEPT !.expires = "later"]))

DeleteKey(d, k) ==
  /\ Exists(k)
  /\ Flush(d, Only(k, [keyRow[k] EXCEPT !.status = "deleted"]))

CommitKeys ==
  /\ desk.route = "user"
  /\ keyRow' = [k \in Keys |-> IF k \in DOMAIN desk.rows THEN desk.rows[k] ELSE keyRow[k]]
  /\ desk' = Closed
  /\ UNCHANGED <<principal, sigFails, frozen, caller>>

CloseDesk ==
  /\ desk.route = "admin"
  /\ desk' = Closed
  /\ UNCHANGED <<keyRow, principal, sigFails, frozen, caller>>

\* The ban of the owner: the rows are revoked in a session that is closed without
\* a commit; the cached principals of the active keys go.
BanOwner ==
  /\ \A k \in Keys : keyRow[k].status = "active" => Unlocked(k)
  /\ principal' = [k \in Keys |-> principal[k] /\ keyRow[k].status # "active"]
  /\ UNCHANGED <<keyRow, desk, sigFails, frozen, caller>>

-----------------------------------------------------------------------------
(* A call: validate_key, the checks of SignatureVerifyStep, the signature *)

At(c, s) == caller[c].at = s
Go(c, s) == caller' = [caller EXCEPT ![c].at = s]
Refuse(c) == Go(c, "refused")

\* Mutant of Validate: the status is not checked.
ValidateExpiryOnly(k) ==
  CASE principal[k] -> "check"
    [] ~principal[k] /\ keyRow[k].expires # "past" -> "fill"
    [] OTHER -> "refused"

\* What validate_key makes of a call with key k.
Validate(k) ==
  CASE principal[k] -> "check"
    [] ~principal[k] /\ Usable(keyRow[k]) -> "fill"
    [] OTHER -> "refused"

ValidateKey(c, k) ==
  /\ At(c, "idle")
  /\ keyRow[k].status # "none"
  /\ caller' = [caller EXCEPT ![c] = [at |-> Validate(k), key |-> k]]
  /\ UNCHANGED <<keyRow, desk, principal, sigFails, frozen>>

\* The principal made from the row that was read is cached.
CachePrincipal(c) ==
  /\ At(c, "fill")
  /\ principal' = [principal EXCEPT ![caller[c].key] = TRUE]
  /\ Go(c, "check")
  /\ UNCHANGED <<keyRow, desk, sigFails, frozen>>

\* The blacklist, and the secret that nobody has been given.
CheckKey(c) ==
  /\ At(c, "check")
  /\ IF frozen[caller[c].key] \/ keyRow[caller[c].key].secret
       THEN Refuse(c) ELSE Go(c, "sign")
  /\ UNCHANGED <<keyRow, desk, principal, sigFails, frozen>>

\* At the threshold the key is revoked in the session of the call, which the failed
\* workflow does not commit, its cached principal goes, and the blacklist gets it.
SignatureFails(c) ==
  LET k == caller[c].key
      full == sigFails[k] + 1 >= FailThreshold IN
  /\ At(c, "sign")
  /\ full => Unlocked(k)
  /\ sigFails' = [sigFails EXCEPT ![k] = IF @ < FailThreshold THEN @ + 1 ELSE @]
  /\ frozen' = [frozen EXCEPT ![k] = @ \/ full]
  /\ principal' = [principal EXCEPT ![k] = @ /\ ~(full /\ Exists(k))]
  /\ Refuse(c)
  /\ UNCHANGED <<keyRow, desk>>

\* Two of the three blacklist entries survive the reset.
SignatureMatches(c) ==
  /\ At(c, "sign")
  /\ sigFails' = [sigFails EXCEPT ![caller[c].key] = 0]
  /\ Go(c, "accepted")
  /\ UNCHANGED <<keyRow, desk, principal, frozen>>

Answer(c) ==
  /\ At(c, "accepted") \/ At(c, "refused")
  /\ caller' = [caller EXCEPT ![c] = Waiting]
  /\ UNCHANGED <<keyRow, desk, principal, sigFails, frozen>>

-----------------------------------------------------------------------------
(* Time *)

PrincipalExpires(k) ==
  /\ principal[k]
  /\ principal' = [principal EXCEPT ![k] = FALSE]
  /\ UNCHANGED <<keyRow, desk, sigFails, frozen, caller>>

\* The entries live as long as the count from which they came, or longer.
FailuresExpire(k) ==
  /\ sigFails[k] > 0
  /\ sigFails' = [sigFails EXCEPT ![k] = 0]
  /\ UNCHANGED <<keyRow, desk, principal, frozen, caller>>

FreezeExpires(k) ==
  /\ frozen[k]
  /\ frozen' = [frozen EXCEPT ![k] = FALSE]
  /\ UNCHANGED <<keyRow, desk, principal, sigFails, caller>>

ExpiryComes(k) ==
  /\ keyRow[k].expires = "later"
  /\ Unlocked(k)
  /\ keyRow' = [keyRow EXCEPT ![k].expires = "past"]
  /\ UNCHANGED <<desk, principal, sigFails, frozen, caller>>

Next ==
  \/ \E k \in Keys : \E d \in Desks :
       \/ GenerateKey(d, k) \/ RevokeKey(d, k) \/ DeleteKey(d, k)
       \/ \E n \in Keys : RotateKey(d, k, n)
  \/ \E k \in Keys : UpdateKey(k)
  \/ CommitKeys \/ CloseDesk \/ BanOwner
  \/ \E c \in Callers :
       \/ \E k \in Keys : ValidateKey(c, k)
       \/ CachePrincipal(c) \/ CheckKey(c)
       \/ SignatureFails(c) \/ SignatureMatches(c) \/ Answer(c)
  \/ \E k \in Keys :
       PrincipalExpires(k) \/ FailuresExpire(k) \/ FreezeExpires(k) \/ ExpiryComes(k)

Spec == Init /\ [][Next]_keyVars

-----------------------------------------------------------------------------
(* Properties *)

\* Types: the rows of keys, the desktop's cache, the counters of failures and the
\* callers of the API key paths.
TypeOK ==
  /\ keyRow \in [Keys -> Row]
  /\ desk.route \in Desks \cup {"none"}
  /\ \A k \in DOMAIN desk.rows : k \in Keys /\ desk.rows[k] \in Row
  /\ principal \in [Keys -> BOOLEAN]
  /\ sigFails \in [Keys -> 0..FailThreshold]
  /\ frozen \in [Keys -> BOOLEAN]
  /\ caller \in [Callers -> [at : {"idle", "fill", "check", "sign", "accepted", "refused"},
                             key : Keys \cup {NoKey}]]

\* Key k was withdrawn, its principal has left the cache and no call that saw the
\* row before is under way.
Withdrawn(k) ==
  /\ keyRow[k].status # "none"
  /\ ~Usable(keyRow[k])
  /\ ~principal[k]
  /\ \A c \in Callers : caller[c].key = k => At(c, "refused")

\* Once a withdrawn key has aged out of the cache, no call with it is admitted again,
\* whatever keys are rotated, expire or are frozen and however late a call is.
WithdrawnForGood == [][\A k \in Keys : Withdrawn(k) => Withdrawn(k)']_keyVars

\* Rotation (rotate_key, "generate the new key; the old one expires after the grace
\* period"): a call with the old key is not refused as invalid during that period.
\* Not so: validate_key admits active keys only.
GraceIsKept ==
  [][\A c \in Callers, k \in Keys :
       (ValidateKey(c, k) /\ keyRow[k].status = "expiring" /\ keyRow[k].expires = "later")
         => caller'[c].at # "refused"]_keyVars

=============================================================================
