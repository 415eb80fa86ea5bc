------------------------------ MODULE Sessions ------------------------------
(***************************************************************************)
(* Sign-in of one user: the verification code, the login sessions, the     *)
(* rotation of refresh tokens, sign-out, revocation of everything, and the *)
(* calls that present an access token.                                     *)
(*                                                                         *)
(* A token pair of session s is <<s, n>>: the n-th pair issued for it.     *)
(* Session rows and the user's token_version live in the database, codes,  *)
(* refresh tokens, the blacklist and the ban in Redis.  Each handler has a *)
(* database session of its own, whose changes others see at its commit;    *)
(* the rows it has flushed stay locked until then.                         *)
(***************************************************************************)
EXTENDS Integers, FiniteSets

CONSTANTS
  Handlers,     \* requests in progress
  SessionKeys,  \* session keys (sid)
  MaxPairs,     \* token pairs issued per session in an instance
  MaxVersion    \* bound of token_version

Pairs == SessionKeys \X (1 .. MaxPairs)
NoPair == <<"none", 0>>

\* LoginSession: revoked_at and the current pair.
LoginRow == [status : {"none", "active", "revoked"}, cur : 0 .. MaxPairs]

VARIABLES
  version,    \* User.token_version
  banned,     \* auth:ban of the user exists
  loginRow,   \* loginRow[s]: the committed row
  refresh,    \* refresh[p]: auth:refresh of the pair: absent, fresh, used just now, used
  blacklist,  \* pairs whose access token is blacklisted
  issued,     \* issued[p]: the version in the tokens of the pair; -1: not issued
  code,       \* a verification code is stored
  handler     \* handler[h]: stage, task, pair, version read, rows flushed

sessionVars == <<version, banned, loginRow, refresh, blacklist, issued, code, handler>>

NoRows == [s \in {} |-> NoPair]
Resting == [at |-> "idle", aim |-> "none", pair |-> NoPair, seen |-> 0, rows |-> NoRows,
            dead |-> FALSE]

Init ==
  /\ version = 0
  /\ banned = FALSE
  /\ loginRow = [s \in SessionKeys |-> [status |-> "none", cur |-> 0]]
  /\ refresh = [p \in Pairs |-> "absent"]
  /\ blacklist = {}
  /\ issued = [p \in Pairs |-> -1]
  /\ code = FALSE
  /\ handler = [h \in Handlers |-> Resting]

At(h, s) == handler[h].at = s
Go(h, s) == handler' = [handler EXCEPT ![h].at = s]
End(h) == handler' = [handler EXCEPT ![h] = Resting]
Start(h, aim, p, s) == handler' = [handler EXCEPT ![h] = [Resting EXCEPT !.at = s, !.aim = aim, !.pair = p]]

\* Row s is locked by another handler that has flushed a change of it.
Locked(h, s) == \E g \in Handlers \ {h} : s \in DOMAIN handler[g].rows
NextPair(s) == Cardinality({n \in 1 .. MaxPairs : issued[<<s, n>>] # -1}) + 1

\* create_tokens: the refresh token is stored before the row is written.
CreateTokens(h, s) ==
  LET p == <<s, NextPair(s)>> IN
  /\ NextPair(s) <= MaxPairs
  /\ refresh' = [refresh EXCEPT ![p] = "fresh"]
  /\ issued' = [issued EXCEPT ![p] = handler[h].seen]

-----------------------------------------------------------------------------
(* Sign-in with a code *)

\* Bound: nobody signs in once the session keys are used up.
KeyLeft == \E s \in SessionKeys : NextPair(s) = 1

\* The code is stored; when the mail cannot be delivered it is deleted again.
SendVerificationCode ==
  /\ KeyLeft
  /\ code' \in BOOLEAN
  /\ UNCHANGED <<version, banned, loginRow, refresh, blacklist, issued, handler>>

CodeExpires ==
  /\ code
  /\ code' = FALSE
  /\ UNCHANGED <<version, banned, loginRow, refresh, blacklist, issued, handler>>

\* One attempt too many, whatever the count is, voids the code.
CountAttempt(h) ==
  /\ At(h, "idle")
  /\ KeyLeft
  /\ \/ Start(h, "login", NoPair, "compare") /\ UNCHANGED code
     \/ code' = FALSE /\ UNCHANGED handler
  /\ UNCHANGED <<version, banned, loginRow, refresh, blacklist, issued>>

\* A wrong code, or none stored, ends the request.
Compare(h) ==
  /\ At(h, "compare")
  /\ \E right \in BOOLEAN : IF code /\ right THEN Go(h, "consume") ELSE End(h)
  /\ UNCHANGED <<version, banned, loginRow, refresh, blacklist, issued, code>>

Consume(h) ==
  /\ At(h, "consume")
  /\ code' = FALSE
  /\ handler' = [handler EXCEPT ![h].at = "create", ![h].seen = version]
  /\ UNCHANGED <<version, banned, loginRow, refresh, blacklist, issued>>

\* create_session_tokens: no check of a ban.
CreateSession(h, s) ==
  /\ At(h, "create")
  /\ loginRow[s].status = "none"
  /\ NextPair(s) = 1
  /\ CreateTokens(h, s)
  /\ handler' = [handler EXCEPT ![h].at = "commit",
                                ![h].rows = [t \in {s} |-> [status |-> "active", cur |-> 1]]]
  /\ UNCHANGED <<version, banned, loginRow, blacklist, code>>

-----------------------------------------------------------------------------
(* Rotation of the refresh token *)

\* Reuse within the grace is refused, later reuse revokes everything.
RefreshTokens(h, p) ==
  /\ At(h, "idle")
  /\ issued[p] # -1
  /\ CASE refresh[p] = "fresh" -> Start(h, "refresh", p, "session")
       [] refresh[p] = "used"  -> Start(h, "purge", p, "list")
       [] OTHER                -> UNCHANGED handler
  /\ UNCHANGED <<version, banned, loginRow, refresh, blacklist, issued, code>>

CheckSession(h) ==
  LET s == handler[h].pair[1] IN
  /\ At(h, "session")
  /\ IF loginRow[s] = [status |-> "active", cur |-> handler[h].pair[2]]
     THEN Go(h, "mark") ELSE End(h)
  /\ UNCHANGED <<version, banned, loginRow, refresh, blacklist, issued, code>>

MarkUsed(h) ==
  /\ At(h, "mark")
  /\ refresh' = [refresh EXCEPT ![handler[h].pair] = "grace"]
  /\ Go(h, "user")
  /\ UNCHANGED <<version, banned, loginRow, blacklist, issued, code>>

CheckUser(h) ==
  /\ At(h, "user")
  /\ IF banned \/ version # issued[handler[h].pair]
     THEN End(h)
     ELSE handler' = [handler EXCEPT ![h].at = "rotate", ![h].seen = version]
  /\ UNCHANGED <<version, banned, loginRow, refresh, blacklist, issued, code>>

\* The UPDATE sets the pair; a session revoked meanwhile is left alone, and the
\* client gets the tokens all the same.
RotateTokens(h) ==
  LET s == handler[h].pair[1] IN
  /\ At(h, "rotate")
  /\ ~Locked(h, s)
  /\ CreateTokens(h, s)
  /\ handler' = [handler EXCEPT ![h].at = "commit",
       ![h].rows = IF loginRow[s].status = "active"
                   THEN [t \in {s} |-> [loginRow[s] EXCEPT !.cur = NextPair(s)]] ELSE NoRows]
  /\ UNCHANGED <<version, banned, loginRow, blacklist, code>>

-----------------------------------------------------------------------------
(* An access token: _get_user_from_jwt reads the blacklist, the user and the ban, the session *)

Revoked(p) == loginRow[p[1]].status = "revoked" \/ issued[p] # version

Authenticate(h, aim, p) ==
  /\ At(h, "idle")
  /\ issued[p] # -1
  /\ handler' = [handler EXCEPT ![h] = [Resting EXCEPT
       !.at = "blacklist", !.aim = aim, !.pair = p, !.dead = aim = "call" /\ Revoked(p)]]
  /\ UNCHANGED <<version, banned, loginRow, refresh, blacklist, issued, code>>

Passes(stage, p) ==
  CASE stage = "blacklist" -> p \notin blacklist
    [] stage = "user row"  -> issued[p] = version /\ ~banned
    [] stage = "row"       -> loginRow[p[1]].status = "active"

After(stage, aim) ==
  CASE stage = "blacklist" -> "user row"
    [] stage = "user row"  -> "row"
    [] stage = "row"       -> IF aim = "call" THEN "accepted" ELSE aim

Check(h) ==
  /\ handler[h].at \in {"blacklist", "user row", "row"}
  /\ IF Passes(handler[h].at, handler[h].pair)
     THEN handler' = [handler EXCEPT ![h].at = After(@, handler[h].aim),
                                     ![h].seen = IF At(h, "row") THEN loginRow[handler[h].pair[1]].cur ELSE 0]
     ELSE End(h)
  /\ UNCHANGED <<version, banned, loginRow, refresh, blacklist, issued, code>>

Answered(h) ==
  /\ At(h, "accepted")
  /\ End(h)
  /\ UNCHANGED <<version, banned, loginRow, refresh, blacklist, issued, code>>

-----------------------------------------------------------------------------
(* Revocation *)

\* _invalidate_login_session of the rows ss, whose pairs were read as ps.
Invalidate(h, ss, ps) ==
  /\ refresh' = [p \in Pairs |-> IF p \in ps THEN "absent" ELSE refresh[p]]
  /\ blacklist' = blacklist \cup ps
  /\ handler' = [handler EXCEPT ![h].at = "commit",
       ![h].rows = [s \in ss |-> [loginRow[s] EXCEPT !.status = "revoked"]]]

\* The database session still holds the row as the check of the token read it.
Logout(h) ==
  LET s == handler[h].pair[1] IN
  /\ At(h, "logout")
  /\ ~Locked(h, s)
  /\ IF loginRow[s].status = "active"
     THEN Invalidate(h, {s}, {handler[h].pair, <<s, handler[h].seen>>})
     ELSE Invalidate(h, {}, {handler[h].pair})
  /\ UNCHANGED <<version, banned, loginRow, issued, code>>

\* The user signs a device out; the refresh cookie, when the request has one, tells
\* which session is the current one and is not to be revoked.
RevokeLoginSession(h, s) ==
  /\ At(h, "revoke")
  /\ ~Locked(h, s)
  /\ \E cookie \in BOOLEAN :
     IF loginRow[s].status = "active" /\ ~(cookie /\ s = handler[h].pair[1])
     THEN Invalidate(h, {s}, {<<s, loginRow[s].cur>>})
     ELSE End(h) /\ UNCHANGED <<refresh, blacklist>>
  /\ UNCHANGED <<version, banned, loginRow, issued, code>>

\* The ban is written before anything is revoked.
BanUser(h) ==
  /\ At(h, "idle")
  /\ banned' = TRUE
  /\ Start(h, "purge", NoPair, "list")
  /\ UNCHANGED <<version, loginRow, refresh, blacklist, issued, code>>

UnbanUser ==
  /\ banned
  /\ banned' = FALSE
  /\ UNCHANGED <<version, loginRow, refresh, blacklist, issued, code, handler>>

\* revoke_all_tokens: the rows active when it lists them; then the version.
RevokeAllTokens(h) ==
  LET ss == {s \in SessionKeys : loginRow[s].status = "active"} IN
  /\ At(h, "list")
  /\ version < MaxVersion
  /\ \A s \in ss : ~Locked(h, s)
  /\ \A g \in Handlers \ {h} : ~(handler[g].aim = "purge" /\ At(g, "commit"))
  /\ Invalidate(h, ss, {<<s, loginRow[s].cur>> : s \in ss})
  /\ UNCHANGED <<version, banned, loginRow, issued, code>>

Commit(h) ==
  /\ At(h, "commit")
  /\ loginRow' = [s \in SessionKeys |->
                   IF s \in DOMAIN handler[h].rows THEN handler[h].rows[s] ELSE loginRow[s]]
  /\ version' = IF handler[h].aim = "purge" THEN version + 1 ELSE version
  /\ End(h)
  /\ UNCHANGED <<banned, refresh, blacklist, issued, code>>

\* The process stops, or the commit fails: Redis keeps what was written there.
Abort(h) ==
  /\ ~At(h, "idle")
  /\ End(h)
  /\ UNCHANGED <<version, banned, loginRow, refresh, blacklist, issued, code>>

\* The grace of five seconds ends, later the entry of a used token goes.
TimePasses(p) ==
  /\ refresh[p] \in {"grace", "used"}
  /\ refresh' = [refresh EXCEPT ![p] = IF @ = "grace" THEN "used" ELSE "absent"]
  /\ UNCHANGED <<version, banned, loginRow, blacklist, issued, code, handler>>

Next ==
  \/ SendVerificationCode \/ CodeExpires \/ UnbanUser
  \/ \E p \in Pairs : TimePasses(p)
  \/ \E h \in Handlers :
       \/ CountAttempt(h) \/ Compare(h) \/ Consume(h)
       \/ CheckSession(h) \/ MarkUsed(h) \/ CheckUser(h) \/ RotateTokens(h)
       \/ Check(h) \/ Answered(h) \/ Logout(h) \/ BanUser(h) \/ RevokeAllTokens(h)
       \/ Commit(h) \/ Abort(h)
       \/ \E s \in SessionKeys : CreateSession(h, s) \/ RevokeLoginSession(h, s)
       \/ \E p \in Pairs : RefreshTokens(h, p)
       \/ \E p \in Pairs, aim \in {"call", "logout", "revoke"} : Authenticate(h, aim, p)

Spec == Init /\ [][Next]_sessionVars

-----------------------------------------------------------------------------
\* The rows, the token version and the handlers of _get_user_from_jwt,
\* refresh_tokens and revoke_all_tokens stay in range, and a row names an
\* issued pair.
TypeOK ==
  /\ version \in 0 .. MaxVersion
  /\ banned \in BOOLEAN /\ code \in BOOLEAN
  /\ loginRow \in [SessionKeys -> LoginRow]
  /\ refresh \in [Pairs -> {"absent", "fresh", "grace", "used"}]
  /\ blacklist \subseteq Pairs
  /\ issued \in [Pairs -> -1 .. MaxVersion]
  /\ \A s \in SessionKeys : loginRow[s].status # "none" => issued[<<s, loginRow[s].cur>>] # -1

\* A request that arrives after its session was revoked, or after all tokens of the
\* user were, is not accepted (_get_user_from_jwt), whatever sign-ins and
\* rotations were in progress while the revocation ran.
RevokedIsRefused == \A h \in Handlers : At(h, "accepted") => ~handler[h].dead

\* No handler brings a revoked session back.
RevocationIsFinal ==
  [][\A s \in SessionKeys : loginRow[s].status = "revoked" => loginRow'[s].status = "revoked"]_sessionVars

\* A verification code signs in once: "验证成功后删除验证码（单次使用）" (verify_code).
\* Not so: two requests read it before either deletes it.
CodeUsedOnce == Cardinality({h \in Handlers : At(h, "consume")}) <= 1
=============================================================================
