---------------------------- MODULE Registration ----------------------------
(***************************************************************************)
(* Sign-up in production: invitation codes, the registration window and    *)
(* the provisioning of accounts, by an e-mail code or by OAuth.            *)
(*                                                                         *)
(* The repositories commit each statement of theirs: a code is reserved in *)
(* one transaction, the slot of the window is claimed in the next one, by  *)
(* reading the count and writing it back.                                  *)
(***************************************************************************)
EXTENDS Integers, FiniteSets, TLC

CONSTANTS
  Emails,      \* people who sign up
  Invites,     \* invitation codes, all of one window
  Applicants,  \* requests in progress
  Slots        \* max_registrations of the window

NoInvite == "no invite"
NoEmail == "no email"

\* InviteCodeStatus
InviteStatus == {"unused", "reserved", "used", "revoked"}

\* RegistrationWindow: status, registered_count.
WindowRow == [status : {"scheduled", "active", "closed"}, count : 0 .. Slots]

VARIABLES
  control,     \* REGISTRATION_CONTROL_ENABLED
  invite,      \* invite[c]: the status of the code
  expired,     \* the codes whose expires_at has passed
  window,      \* the row of the window
  inTime,      \* now is between start_time and end_time
  tempInvite,  \* tempInvite[e]: temp_invite of the address in Redis
  account,     \* account[e]: the code the account was admitted with; NoEmail: no account
  applicant    \* applicant[a]: stage, address, code, way in, window as read

regVars == <<control, invite, expired, window, inTime, tempInvite, account, applicant>>

Gone == [at |-> "idle", who |-> NoEmail, code |-> NoInvite, way |-> "none", read |-> 0]

Init ==
  /\ control \in BOOLEAN
  /\ invite = [c \in Invites |-> "unused"]
  /\ expired = {}
  /\ window = [status |-> "scheduled", count |-> 0]
  /\ inTime = FALSE
  /\ tempInvite = [e \in Emails |-> NoInvite]
  /\ account = [e \in Emails |-> NoEmail]
  /\ applicant = [a \in Applicants |-> Gone]

At(a, s) == applicant[a].at = s
Go(a, s) == applicant' = [applicant EXCEPT ![a].at = s]
End(a) == applicant' = [applicant EXCEPT ![a] = Gone]
Fail(a) == Go(a, "refused")
HasAccount(e) == account[e] # NoEmail

-----------------------------------------------------------------------------
(* Where a sign-up starts *)

\* ensure_can_register: with the control on, a new user needs a code.
EnsureCanRegister(c) == control => c # NoInvite

\* send_login_code of a new address: a code is consumed before the mail goes out.
SendLoginCode(a, e, c) ==
  /\ At(a, "idle")
  /\ ~HasAccount(e)
  /\ EnsureCanRegister(c)
  /\ c # NoInvite
  /\ applicant' = [applicant EXCEPT ![a] =
                     [Gone EXCEPT !.at = "reserve", !.who = e, !.code = c, !.way = "send"]]
  /\ UNCHANGED <<control, invite, expired, window, inTime, tempInvite, account>>

\* _provision_login_user and complete_oauth: the code of the request, for an
\* e-mail sign-up else the one kept for the address.
Provision(a, e, c, way) ==
  LET code == IF way = "mail" /\ c = NoInvite THEN tempInvite[e] ELSE c IN
  /\ At(a, "idle")
  /\ ~HasAccount(e)
  /\ EnsureCanRegister(code)
  /\ applicant' = [applicant EXCEPT ![a] =
       [Gone EXCEPT !.at = IF control THEN "reserve" ELSE "create",
                    !.who = e, !.code = code, !.way = way]]
  /\ UNCHANGED <<control, invite, expired, window, inTime, tempInvite, account>>

-----------------------------------------------------------------------------
(* InviteCodeService.consume *)

\* One UPDATE takes an unused code; an expired one is revoked at once.
Reserve(a) ==
  LET c == applicant[a].code IN
  /\ At(a, "reserve")
  /\ IF invite[c] = "unused"
     THEN /\ invite' = [invite EXCEPT ![c] = IF c \in expired THEN "revoked" ELSE "reserved"]
          /\ IF c \in expired THEN Fail(a) ELSE Go(a, "window")
     ELSE Fail(a) /\ UNCHANGED invite
  /\ UNCHANGED <<control, expired, window, inTime, tempInvite, account>>

\* _sync_window_states: the time decides between scheduled, active and closed.
Synced == [window EXCEPT !.status =
  CASE window.status = "scheduled" /\ inTime -> "active"
    [] window.status = "active" /\ ~inTime   -> "closed"
    [] OTHER                                 -> window.status]

\* The window is read and checked; a refusal gives the code back.
ReadWindow(a) ==
  LET open == Synced.status = "active" /\ inTime IN
  /\ At(a, "window")
  /\ IF open /\ Synced.count < Slots
     THEN /\ window' = Synced
          /\ applicant' = [applicant EXCEPT ![a].at = "claim", ![a].read = Synced.count]
     ELSE /\ window' = IF open THEN [Synced EXCEPT !.status = "closed"] ELSE Synced
          /\ Go(a, "give back")
  /\ UNCHANGED <<control, invite, expired, inTime, tempInvite, account>>

\* registered_count as read, plus one; the last slot closes the window.
ClaimSlot(a) ==
  LET n == applicant[a].read + 1 IN
  /\ At(a, "claim")
  /\ window' = [status |-> IF n >= Slots THEN "closed" ELSE window.status, count |-> n]
  /\ Go(a, IF applicant[a].way = "send" THEN "keep" ELSE "create")
  /\ UNCHANGED <<control, invite, expired, inTime, tempInvite, account>>

\* rollback of the code alone, or of a code whose slot is returned next.
GiveBack(a) ==
  LET c == applicant[a].code IN
  /\ At(a, "give back") \/ At(a, "undo")
  /\ invite' = [invite EXCEPT ![c] = IF @ = "reserved" THEN "unused" ELSE @]
  /\ Go(a, IF At(a, "undo") THEN "release" ELSE "refused")
  /\ UNCHANGED <<control, expired, window, inTime, tempInvite, account>>

\* send_login_code: the code is kept for the address, then the mail is sent.
KeepInvite(a) ==
  /\ At(a, "keep")
  /\ tempInvite' = [tempInvite EXCEPT ![applicant[a].who] = applicant[a].code]
  /\ End(a)
  /\ UNCHANGED <<control, invite, expired, window, inTime, account>>

-----------------------------------------------------------------------------
(* UserProvisioningService *)

\* The address is unique: when the INSERT fails, a slot taken is returned.
CreateUser(a) ==
  LET e == applicant[a].who IN
  /\ At(a, "create")
  /\ IF HasAccount(e)
     THEN Go(a, IF control THEN "undo" ELSE "refused") /\ UNCHANGED account
     ELSE account' = [account EXCEPT ![e] = applicant[a].code] /\ Go(a, "finalize")
  /\ UNCHANGED <<control, invite, expired, window, inTime, tempInvite>>

\* rollback_registration_slot reads the window, then writes it.
ReadSlot(a) ==
  /\ At(a, "release")
  /\ applicant' = [applicant EXCEPT ![a].at = "return", ![a].read = window.count]
  /\ UNCHANGED <<control, invite, expired, window, inTime, tempInvite, account>>

ReturnSlot(a) ==
  LET n == IF applicant[a].read > 0 THEN applicant[a].read - 1 ELSE 0 IN
  /\ At(a, "return")
  /\ window' = [status |-> IF window.status = "closed" /\ n < Slots /\ inTime
                           THEN "active" ELSE window.status, count |-> n]
  /\ Fail(a)
  /\ UNCHANGED <<control, invite, expired, inTime, tempInvite, account>>

\* finalize, when the provisioning claimed a slot or the address kept a code.
Finalize(a) ==
  LET c == applicant[a].code
      e == applicant[a].who
      kept == applicant[a].way = "mail" /\ tempInvite[e] # NoInvite
  IN
  /\ At(a, "finalize")
  /\ invite' = IF c # NoInvite /\ (control \/ kept) /\ invite[c] = "reserved"
               THEN [invite EXCEPT ![c] = "used"] ELSE invite
  /\ tempInvite' = IF applicant[a].way = "mail" THEN [tempInvite EXCEPT ![e] = NoInvite]
                   ELSE tempInvite
  /\ End(a)
  /\ UNCHANGED <<control, expired, window, inTime, account>>

Leave(a) ==
  /\ At(a, "refused")
  /\ End(a)
  /\ UNCHANGED <<control, invite, expired, window, inTime, tempInvite, account>>

\* The process stops between two transactions.
Crash(a) ==
  /\ ~At(a, "idle")
  /\ End(a)
  /\ UNCHANGED <<control, invite, expired, window, inTime, tempInvite, account>>

-----------------------------------------------------------------------------
(* The administrator and the clock *)

RevokeInvite(c) ==
  /\ invite[c] \in {"unused", "reserved"}
  /\ invite' = [invite EXCEPT ![c] = "revoked"]
  /\ UNCHANGED <<control, expired, window, inTime, tempInvite, account, applicant>>

ActivateWindow ==
  /\ window.status = "scheduled"
  /\ inTime
  /\ window' = [window EXCEPT !.status = "active"]
  /\ UNCHANGED <<control, invite, expired, inTime, tempInvite, account, applicant>>

CloseWindow ==
  /\ window.status # "closed"
  /\ window' = [window EXCEPT !.status = "closed"]
  /\ UNCHANGED <<control, invite, expired, inTime, tempInvite, account, applicant>>

\* The window opens; it may end, after which it does not open again.
WindowTime ==
  /\ inTime \/ window.status = "scheduled"
  /\ inTime' = ~inTime
  /\ UNCHANGED <<control, invite, expired, window, tempInvite, account, applicant>>

InviteExpires(c) ==
  /\ c \notin expired
  /\ expired' = expired \cup {c}
  /\ UNCHANGED <<control, invite, window, inTime, tempInvite, account, applicant>>

TempInviteExpires(e) ==
  /\ tempInvite[e] # NoInvite
  /\ tempInvite' = [tempInvite EXCEPT ![e] = NoInvite]
  /\ UNCHANGED <<control, invite, expired, window, inTime, account, applicant>>

Next ==
  \/ ActivateWindow \/ CloseWindow \/ WindowTime
  \/ \E c \in Invites : RevokeInvite(c) \/ InviteExpires(c)
  \/ \E e \in Emails : TempInviteExpires(e)
  \/ \E a \in Applicants :
       \/ Reserve(a) \/ ReadWindow(a) \/ ClaimSlot(a) \/ GiveBack(a) \/ KeepInvite(a)
       \/ CreateUser(a) \/ ReadSlot(a) \/ ReturnSlot(a) \/ Finalize(a) \/ Leave(a) \/ Crash(a)
       \/ \E e \in Emails, c \in Invites : SendLoginCode(a, e, c)
       \/ \E e \in Emails, c \in Invites \cup {NoInvite}, way \in {"mail", "oauth"} :
            Provision(a, e, c, way)

Spec == Init /\ [][Next]_regVars

-----------------------------------------------------------------------------
\* Codes, window, accounts and sign-ups in progress stay in range.
TypeOK ==
  /\ control \in BOOLEAN /\ inTime \in BOOLEAN
  /\ invite \in [Invites -> InviteStatus]
  /\ expired \subseteq Invites
  /\ window \in WindowRow
  /\ tempInvite \in [Emails -> Invites \cup {NoInvite}]
  /\ account \in [Emails -> Invites \cup {NoInvite, NoEmail}]
  /\ \A a \in Applicants : applicant[a].read \in 0 .. Slots

\* With the registration control on, one invitation code admits one account
\* (reserve: "防止并发重复消费"), through every interleaving of sign-ups, refusals,
\* returned slots and crashes.
InviteAdmitsOne ==
  control => \A e, f \in Emails : account[e] = account[f] /\ HasAccount(e) => e = f

\* A used or revoked code is never usable again, whatever a sign-up in progress
\* gives back.
CodesEnd ==
  [][\A c \in Invites : invite[c] \in {"used", "revoked"} => invite'[c] = invite[c]]_regVars

\* The code consumed when the mail was sent is what the sign-up completes with
\* ("便于 login_with_code 使用并最终 finalize", send_login_code): it is not refused
\* for the reservation it made itself. Not so: the sign-up reserves it again.
FirstLoginCompletes ==
  \A a \in Applicants :
    At(a, "reserve") /\ applicant[a].way = "mail" /\ tempInvite[applicant[a].who] = applicant[a].code
      => invite[applicant[a].code] # "reserved"
=============================================================================
