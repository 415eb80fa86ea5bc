---------------------------- MODULE DesktopLogin ----------------------------
(***************************************************************************)
(* Sign-in of the desktop application: a session is started, completed in  *)
(* a browser (by an OAuth provider or by a signed-in user), which issues a *)
(* grant, and the grant is exchanged for tokens.                           *)
(*                                                                         *)
(* Sessions and grants are rows.  Each request reads them, decides, and    *)
(* commits its writes in one transaction; the rows are not locked.         *)
(***************************************************************************)
EXTENDS Integers, FiniteSets

CONSTANTS
  Logins,    \* desktop sign-in sessions
  Users,     \* accounts that may complete a session
  Grants,    \* grants
  Desktops   \* requests in progress

NoUser == "no user"

\* What a session is for: sign-in or binding by OAuth, or sign-in in the browser.
Kinds == {"login", "bind", "browser"}

\* The states of a session; a completed browser session has issued its grant.
LoginStatus == {"none", "created", "grant issued", "exchanged"}

\* The row of a grant: its session and status.
GrantRow == [login : Logins, status : {"active", "consumed", "expired"}]

VARIABLES
  login,     \* login[d]: status, kind, user, and whether expires_at has passed
  grantRow,  \* grantRow[g], for the grants issued
  identity,  \* accounts with the provider's identity bound
  desktop    \* desktop[r]: stage, session, grant, what it read

loginVars == <<login, grantRow, identity, desktop>>

Free == [at |-> "idle", login |-> "none", grant |-> "none", user |-> NoUser, stale |-> FALSE]

Init ==
  /\ login = [d \in Logins |->
                [status |-> "none", kind |-> "none", user |-> NoUser, late |-> FALSE]]
  /\ grantRow = [g \in {} |-> "none"]
  /\ identity = {}
  /\ desktop = [r \in Desktops |-> Free]

Kind(d) == login[d].kind
At(r, s) == desktop[r].at = s
End(r) == desktop' = [desktop EXCEPT ![r] = Free]

-----------------------------------------------------------------------------
\* start_session and start_bind_session; the latter belongs to its user at once.
StartSession(d, k, u) ==
  /\ login[d].status = "none"
  /\ login' = [login EXCEPT ![d].status = "created", ![d].kind = k,
                            ![d].user = IF k = "bind" THEN u ELSE NoUser]
  /\ UNCHANGED <<grantRow, identity, desktop>>

\* _ensure_session_active: expires_at, then the status.
SessionActive(d, allowed) == ~login[d].late /\ login[d].status \in allowed

\* complete_callback reads the session and goes to the provider; a completed
\* browser session may be completed again.
BeginCallback(r, d, u) ==
  /\ At(r, "idle")
  /\ SessionActive(d, {"created"} \cup (IF Kind(d) = "browser" THEN {"grant issued"} ELSE {}))
  /\ desktop' = [desktop EXCEPT ![r] =
       [Free EXCEPT !.at = "provider", !.login = d,
                    !.user = IF Kind(d) = "bind" THEN login[d].user ELSE u]]
  /\ UNCHANGED <<login, grantRow, identity>>

\* The code exchange or the profile fails, or the identity has another owner.
ProviderFails(r) ==
  /\ At(r, "provider")
  /\ Kind(desktop[r].login) # "browser"
  /\ End(r)
  /\ UNCHANGED <<login, grantRow, identity>>

\* provision_user or bind_identity_to_user, a transaction of its own.
BindIdentity(r) ==
  /\ At(r, "provider")
  /\ Kind(desktop[r].login) # "browser"
  /\ identity' = identity \cup {desktop[r].user}
  /\ desktop' = [desktop EXCEPT ![r].at = "issue"]
  /\ UNCHANGED <<login, grantRow>>

\* The grant is inserted and the session updated, whatever its status is by now;
\* a browser session first expires the grants it finds active.
IssueGrant(r, g) ==
  LET d == desktop[r].login
      old == {h \in DOMAIN grantRow : /\ Kind(d) = "browser"
                                      /\ grantRow[h] = [login |-> d, status |-> "active"]}
  IN
  /\ At(r, "issue") \/ (At(r, "provider") /\ Kind(d) = "browser")
  /\ g \notin DOMAIN grantRow
  /\ grantRow' = [h \in DOMAIN grantRow \cup {g} |->
                    IF h = g THEN [login |-> d, status |-> "active"]
                    ELSE IF h \in old THEN [login |-> d, status |-> "expired"] ELSE grantRow[h]]
  /\ login' = [login EXCEPT ![d].status = "grant issued", ![d].user = desktop[r].user]
  /\ End(r)
  /\ UNCHANGED identity

-----------------------------------------------------------------------------
\* Mutant of ReadGrant: any grant of the session passes.
ReadGrantUnchecked(r, g) ==
  LET d == grantRow[g].login IN
  /\ At(r, "idle")
  /\ g \in DOMAIN grantRow
  /\ SessionActive(d, {"created", "grant issued"})
  /\ desktop' = [desktop EXCEPT ![r] =
       [Free EXCEPT !.at = "exchange", !.login = d, !.grant = g, !.user = login[d].user,
                    !.stale = grantRow[g].status # "active"]]
  /\ UNCHANGED <<login, grantRow, identity>>

\* exchange_grant and confirm_bind_grant: the session, then any grant of it, which
\* has to be active and to be the one presented.
ReadGrant(r, g) ==
  LET d == grantRow[g].login IN
  /\ At(r, "idle")
  /\ g \in DOMAIN grantRow
  /\ SessionActive(d, {"created", "grant issued"})
  /\ grantRow[g].status = "active"
  /\ desktop' = [desktop EXCEPT ![r] =
       [Free EXCEPT !.at = "exchange", !.login = d, !.grant = g, !.user = login[d].user,
                    !.stale = grantRow[g].status # "active"]]
  /\ UNCHANGED <<login, grantRow, identity>>

\* Tokens for the user of the session (for a bind, the identity), then both rows.
Exchange(r) ==
  LET d == desktop[r].login IN
  /\ At(r, "exchange")
  /\ grantRow' = [grantRow EXCEPT ![desktop[r].grant].status = "consumed"]
  /\ login' = [login EXCEPT ![d].status = "exchanged"]
  /\ desktop' = [desktop EXCEPT ![r].at = "signed in"]
  /\ UNCHANGED identity

Leave(r) ==
  /\ At(r, "signed in")
  /\ End(r)
  /\ UNCHANGED <<login, grantRow, identity>>

\* The request is dropped before its commit.
Drop(r) ==
  /\ desktop[r].at \in {"provider", "issue", "exchange"}
  /\ End(r)
  /\ UNCHANGED <<login, grantRow, identity>>

SessionExpires(d) ==
  /\ ~login[d].late
  /\ login[d].status # "none"
  /\ login' = [login EXCEPT ![d].late = TRUE]
  /\ UNCHANGED <<grantRow, identity, desktop>>

GrantExpires(g) ==
  /\ g \in DOMAIN grantRow
  /\ grantRow[g].status = "active"
  /\ grantRow' = [grantRow EXCEPT ![g].status = "expired"]
  /\ UNCHANGED <<login, identity, desktop>>

Next ==
  \/ \E d \in Logins : SessionExpires(d) \/ \E k \in Kinds, u \in Users : StartSession(d, k, u)
  \/ \E g \in Grants : GrantExpires(g)
  \/ \E r \in Desktops :
       \/ ProviderFails(r) \/ BindIdentity(r) \/ Exchange(r) \/ Leave(r) \/ Drop(r)
       \/ \E d \in Logins, u \in Users : BeginCallback(r, d, u)
       \/ \E g \in Grants : IssueGrant(r, g) \/ ReadGrant(r, g)

Spec == Init /\ [][Next]_loginVars

-----------------------------------------------------------------------------
\* Sessions, grants and requests stay in range; a session with a grant has a user.
TypeOK ==
  /\ \A d \in Logins : /\ login[d].status \in LoginStatus
                       /\ login[d].status \in {"grant issued", "exchanged"} => login[d].user \in Users
  /\ DOMAIN grantRow \subseteq Grants
  /\ \A g \in DOMAIN grantRow : grantRow[g] \in GrantRow
  /\ identity \subseteq Users

\* A grant spent or expired when its request arrives signs nobody in, even when a
\* second callback has reopened the session meanwhile (_ensure_grant_active).
SpentGrantRefused == \A r \in Desktops : At(r, "signed in") => ~desktop[r].stale

\* Nobody is signed in without having completed the session: the user of the tokens
\* has the identity bound, unless a signed-in user completed it in a browser.
SignedInIsKnown ==
  \A r \in Desktops : At(r, "signed in") =>
    /\ desktop[r].user \in Users
    /\ Kind(desktop[r].login) # "browser" => desktop[r].user \in identity
=============================================================================
