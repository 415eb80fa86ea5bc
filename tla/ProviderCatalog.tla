-------------------------- MODULE ProviderCatalog --------------------------
(***************************************************************************)
(* The catalogue of upstream providers (an instance, its model, its extra  *)
(* credentials, its preset and its secret), the administration that edits  *)
(* it, and the Redis cache through which a routing request looks it up.    *)
(*                                                                         *)
(* An edit commits its row first and clears the cached views afterwards,   *)
(* one Redis call at a time. A look-up that misses is filled by one        *)
(* request at a time (single flight): a lock with a short life, a second   *)
(* look, the query, the store. Whoever does not get the lock polls and, in *)
(* the end, queries for itself.                                            *)
(***************************************************************************)
EXTENDS Naturals, Sequences

CONSTANTS Routers,      \* routing requests of a user other than the owner
          Route,        \* the views such a request looks up, in order
          MaxEdits,     \* bound on the edits
          MaxFaults     \* bound on failed queries, failed clears and crashes

VARIABLES instance,     \* "none", "off" or "on" (is_enabled)
          modelRow,     \* the row of the one model
          credentials,  \* the extra credentials that are active
          preset,       \* is_active of the preset
          bought,       \* the user has bought the model
          secret,       \* the version of the instance's key
          cached,       \* the cached value of each view
          flight,       \* the lock of each view
          router,
          editor,       \* Redis calls the last edit still has to make
          sync,         \* the synchronisation with the upstream
          edits, faults,
          raced         \* views that may be stale for a known reason

catalogVars == <<instance, modelRow, credentials, preset, bought, secret,
                 cached, flight, router, editor, sync, edits, faults, raced>>

Views == {"list", "cand", "creds", "preset", "secret"}
NoModel == [active |-> FALSE, source |-> "none", custom |-> FALSE]
(* _build_model_payloads: what is discovered upstream is on, and plain.    *)
Discovered == [active |-> TRUE, source |-> "auto", custom |-> FALSE]
Idle == [pc |-> "idle"]
Miss == <<>>           \* a view that is cached is <<its value>>

(* What the query behind each view answers.                                *)
View(k) ==
    CASE k = "list" -> instance = "on"
      [] k = "cand" -> instance = "on" /\ modelRow.active /\ bought
      [] k = "creds" -> credentials
      [] k = "preset" -> preset
      [] k = "secret" -> secret

\* provider_credential beside the instance's own: how many are active.
Credentials == {0, 1}
\* provider_preset: is_active.
PresetRows == BOOLEAN
\* provider_model_entitlement: whether the user's row for the model exists.
Entitlements == BOOLEAN

Init ==
    /\ instance = "on" /\ modelRow = Discovered
    /\ credentials = 0 /\ preset = TRUE /\ bought = FALSE /\ secret = 0
    /\ cached = [k \in Views |-> Miss]
    /\ flight = [k \in Views |-> "free"]
    /\ router = [r \in Routers |-> Idle]
    /\ editor = <<>> /\ sync = "idle"
    /\ edits = 0 /\ faults = 0 /\ raced = {}

(***************************************************************************)
(* Single flight                                                           *)
(***************************************************************************)
Key(r) == Route[router[r].at]
Loaded(k) == \E r \in Routers : router[r].pc = "store" /\ Key(r) = k

rows == <<instance, modelRow, credentials, preset, bought, secret, editor, sync, edits>>

(* With the value of one view a request goes on to the next: without an    *)
(* instance it ends at once, without a model it ends after the             *)
(* credentials.                                                            *)
Take(r, v) ==
    LET ok == router[r].ok /\ (Key(r) \in {"list", "cand", "preset"} => v)
        next == router[r].at + 1
        over == \/ next > Len(Route)
                \/ Key(r) = "list" /\ ~ ok
                \/ ~ ok /\ Route[next] \in {"preset", "secret"}
    IN  router' = [router EXCEPT ![r] =
          IF over THEN [pc |-> "done", ok |-> ok]
          ELSE [pc |-> "get", at |-> next, ok |-> ok, holds |-> FALSE]]

Ask(r) ==
    /\ router[r].pc = "idle"
    /\ router' = [router EXCEPT ![r] = [pc |-> "get", at |-> 1, ok |-> TRUE, holds |-> FALSE]]
    /\ UNCHANGED <<rows, cached, flight, faults, raced>>

Go(r, pc) == router' = [router EXCEPT ![r].pc = pc]

(* The secret's cache has no lock.                                         *)
Get(r) ==
    /\ router[r].pc = "get"
    /\ IF cached[Key(r)] # Miss THEN Take(r, cached[Key(r)][1])
       ELSE Go(r, IF Key(r) = "secret" THEN "load" ELSE "lock")
    /\ UNCHANGED <<rows, cached, flight, faults, raced>>

Lock(r) ==
    /\ router[r].pc = "lock"
    /\ IF flight[Key(r)] = "free"
       THEN /\ flight' = [flight EXCEPT ![Key(r)] = "held"]
            /\ router' = [router EXCEPT ![r] =
                 [pc |-> "check", at |-> @.at, ok |-> @.ok, holds |-> TRUE]]
       ELSE Go(r, "wait") /\ UNCHANGED flight
    /\ UNCHANGED <<rows, cached, faults, raced>>

(* The lock is deleted whoever holds it by now.                            *)
Unlock(r) ==
    flight' = IF router[r].holds THEN [flight EXCEPT ![Key(r)] = "free"] ELSE flight

Check(r) ==
    /\ router[r].pc = "check"
    /\ IF cached[Key(r)] # Miss THEN Take(r, cached[Key(r)][1]) /\ Unlock(r)
       ELSE Go(r, "load") /\ UNCHANGED flight
    /\ UNCHANGED <<rows, cached, faults, raced>>

(* Mutant: a waiter polls until somebody has filled the view.              *)
WaitForever(r) ==
    /\ router[r].pc = "wait" /\ cached[Key(r)] # Miss
    /\ Take(r, cached[Key(r)][1])
    /\ UNCHANGED <<rows, cached, flight, faults, raced>>

(* A waiter polls; when the life of the lock has passed it queries itself. *)
Wait(r) ==
    /\ router[r].pc = "wait"
    /\ IF cached[Key(r)] # Miss THEN Take(r, cached[Key(r)][1]) ELSE Go(r, "load")
    /\ UNCHANGED <<rows, cached, flight, faults, raced>>

Load(r) ==
    /\ router[r].pc = "load"
    /\ router' = [router EXCEPT ![r] =
         [pc |-> "store", at |-> @.at, ok |-> @.ok, holds |-> @.holds, value |-> View(Key(r))]]
    /\ UNCHANGED <<rows, cached, flight, faults, raced>>

LoadFails(r) ==
    /\ router[r].pc = "load" /\ faults < MaxFaults
    /\ router' = [router EXCEPT ![r] = [pc |-> "done", ok |-> FALSE]]
    /\ Unlock(r)
    /\ faults' = faults + 1
    /\ UNCHANGED <<rows, cached, raced>>

Store(r) ==
    /\ router[r].pc = "store"
    /\ cached' = [cached EXCEPT ![Key(r)] = <<router[r].value>>]
    /\ Take(r, router[r].value)
    /\ Unlock(r)
    /\ UNCHANGED <<rows, faults, raced>>

Finish(r) ==
    /\ router[r].pc = "done"
    /\ router' = [router EXCEPT ![r] = Idle]
    /\ UNCHANGED <<rows, cached, flight, faults, raced>>

RouterStep(r) ==
    \/ Get(r) \/ Lock(r) \/ Check(r) \/ Wait(r) \/ Load(r) \/ LoadFails(r) \/ Store(r)

(* A dropped value is explained no more, unless a request still has one to *)
(* store.                                                                  *)
Drop(k) ==
    /\ cached' = [cached EXCEPT ![k] = Miss]
    /\ raced' = IF Loaded(k) THEN raced ELSE raced \ {k}

ValueExpires(k) ==
    /\ cached[k] # Miss
    /\ Drop(k)
    /\ UNCHANGED <<rows, flight, router, faults>>

FlightExpires(k) ==
    /\ flight[k] # "free"
    /\ flight' = [flight EXCEPT ![k] = "free"]
    /\ UNCHANGED <<rows, cached, router, faults, raced>>

(***************************************************************************)
(* Edits: the commit, then the clears                                      *)
(***************************************************************************)
(* A commit makes stale what a request has loaded and not stored, and what *)
(* the edit overlooks.                                                     *)
Commit(clears, overlooks) ==
    /\ editor = <<>> /\ edits < MaxEdits
    /\ edits' = edits + 1
    /\ editor' = clears
    /\ raced' = raced \cup {k \in Views : View(k)' # View(k)
                                /\ (Loaded(k) \/ k \in overlooks)}
    /\ UNCHANGED <<cached, flight, router, faults>>

OnModelChanged == <<"cand", "list">>
OnCredentialsChanged == <<"creds", "cand">>
OnInstanceChanged == <<"list">>

CreateInstance ==
    /\ instance = "none" /\ preset /\ sync = "idle"
    /\ instance' = "on"
    /\ UNCHANGED <<modelRow, credentials, preset, bought, secret, sync>>
    /\ Commit(OnInstanceChanged, {"cand"})

(* The cached candidates are not among what a change of the instance       *)
(* clears.                                                                 *)
UpdateInstance ==
    /\ instance # "none"
    /\ instance' = IF instance = "on" THEN "off" ELSE "on"
    /\ UNCHANGED <<modelRow, credentials, preset, bought, secret, sync>>
    /\ Commit(OnInstanceChanged, {"cand"})

(* A new key: the secret is committed and cached before the instance.      *)
UpdateKey ==
    /\ instance # "none"
    /\ secret' = secret + 1
    /\ UNCHANGED <<instance, modelRow, credentials, preset, bought, sync>>
    /\ Commit(<<"put">> \o OnCredentialsChanged \o OnInstanceChanged, {})

DeleteInstance ==
    /\ instance # "none"
    /\ instance' = "none" /\ modelRow' = NoModel /\ credentials' = 0 /\ bought' = FALSE
    /\ UNCHANGED <<preset, secret, sync>>
    /\ Commit(OnModelChanged \o OnCredentialsChanged \o OnInstanceChanged, {})

CreateCredential ==
    /\ instance # "none" /\ credentials = 0
    /\ credentials' = 1
    /\ UNCHANGED <<instance, modelRow, preset, bought, secret, sync>>
    /\ Commit(OnCredentialsChanged, {})

DeleteCredential ==
    /\ credentials = 1
    /\ credentials' = 0
    /\ UNCHANGED <<instance, modelRow, preset, bought, secret, sync>>
    /\ Commit(OnCredentialsChanged, {})

EditModel(row) ==
    /\ instance # "none"
    /\ modelRow' = row
    /\ UNCHANGED <<instance, credentials, preset, bought, secret, sync>>
    /\ Commit(OnModelChanged, {})

(* A user's own model, and the user's settings of any model.               *)
UpsertModels == EditModel([active |-> TRUE, source |-> "manual", custom |-> TRUE])
UpdateModel ==
    /\ modelRow # NoModel
    /\ \/ EditModel([modelRow EXCEPT !.active = ~ @])
       \/ ~ modelRow.custom /\ EditModel([modelRow EXCEPT !.custom = TRUE])

(* An addition by name is an upsert of every field, the user's too.        *)
QuickAddModels == EditModel(Discovered)

PatchPreset ==
    /\ preset' = ~ preset
    /\ UNCHANGED <<instance, modelRow, credentials, bought, secret, sync>>
    /\ Commit(<<"preset">>, {})

(* A purchase clears no view of the catalogue.                             *)
PurchaseModel ==
    /\ ~ bought /\ modelRow # NoModel
    /\ bought' = TRUE
    /\ UNCHANGED <<instance, modelRow, credentials, preset, secret, sync>>
    /\ Commit(<<>>, {"cand"})

(* The synchronisation asks the upstream, and much later writes: over the  *)
(* rows as they are by then, never over a manual one nor a user's setting. *)
StartSync ==
    /\ sync = "idle" /\ instance # "none" /\ edits < MaxEdits
    /\ sync' = "fetching"
    /\ UNCHANGED <<instance, modelRow, credentials, preset, bought, secret, editor, edits>>
    /\ UNCHANGED <<cached, flight, router, faults, raced>>

(* The upstream does not answer, or the instance is gone by then.          *)
SyncFails ==
    /\ sync = "fetching"
    /\ sync' = "idle"
    /\ \/ instance = "none" /\ UNCHANGED faults
       \/ instance # "none" /\ faults < MaxFaults /\ faults' = faults + 1
    /\ UNCHANGED <<instance, modelRow, credentials, preset, bought, secret, editor, edits>>
    /\ UNCHANGED <<cached, flight, router, raced>>

(* Mutant: the synchronisation treats every row as its own.                *)
UpsertEverything(row) == Discovered

UpsertFromUpstream(row) ==
    IF row = NoModel THEN Discovered
    ELSE IF row.source = "manual" THEN row
    ELSE [Discovered EXCEPT !.active = row.active, !.custom = row.custom]

FinishSync ==
    /\ sync = "fetching"
    /\ sync' = "idle"
    /\ instance # "none"
    /\ modelRow' = UpsertFromUpstream(modelRow)
    /\ UNCHANGED <<instance, credentials, preset, bought, secret>>
    /\ Commit(OnModelChanged, {})

Edit ==
    \/ CreateInstance \/ UpdateInstance \/ UpdateKey \/ DeleteInstance
    \/ CreateCredential \/ DeleteCredential
    \/ UpsertModels \/ UpdateModel \/ QuickAddModels
    \/ PatchPreset \/ PurchaseModel
    \/ FinishSync

(***************************************************************************)
(* The Redis calls of an edit                                              *)
(***************************************************************************)
Clear ==
    /\ editor # <<>>
    /\ editor' = Tail(editor)
    /\ IF Head(editor) = "put"
       THEN cached' = [cached EXCEPT !["secret"] = <<secret>>] /\ UNCHANGED raced
       ELSE Drop(Head(editor))
    /\ UNCHANGED <<instance, modelRow, credentials, preset, bought, secret, sync>>
    /\ UNCHANGED <<edits, flight, router, faults>>

Target(op) == IF op = "put" THEN "secret" ELSE op

(* A failed call is logged; a process that dies makes no call any more.    *)
ClearFails ==
    /\ editor # <<>> /\ faults < MaxFaults
    /\ faults' = faults + 1
    /\ \E n \in {1, Len(editor)} :
         /\ editor' = SubSeq(editor, n + 1, Len(editor))
         /\ raced' = raced \cup {Target(editor[i]) : i \in 1..n}
    /\ UNCHANGED <<instance, modelRow, credentials, preset, bought, secret, sync>>
    /\ UNCHANGED <<edits, cached, flight, router>>

Next ==
    \/ \E r \in Routers : Ask(r) \/ RouterStep(r) \/ Finish(r)
    \/ \E k \in Views : ValueExpires(k) \/ FlightExpires(k)
    \/ Edit \/ StartSync \/ SyncFails
    \/ Clear \/ ClearFails

Spec ==
    /\ Init /\ [][Next]_catalogVars
    /\ \A r \in Routers : WF_catalogVars(RouterStep(r))

(***************************************************************************)
(* Properties                                                              *)
(***************************************************************************)
TypeOK ==
    /\ instance \in {"none", "off", "on"}
    /\ modelRow \in [active : BOOLEAN, source : {"none", "auto", "manual"}, custom : BOOLEAN]
    /\ credentials \in Credentials /\ secret \in 0..MaxEdits
    /\ preset \in PresetRows /\ bought \in Entitlements
    /\ \A k \in Views : flight[k] \in {"free", "held"}
    /\ \A r \in Routers : router[r].pc \in {"idle", "get", "lock", "check", "wait",
                                            "load", "store", "done"}
    /\ sync \in {"idle", "fetching"}
    /\ raced \subseteq Views

(* A cached view differs from its tables only while the edit that changed  *)
(* them is still clearing, or for one of the known reasons: a request had  *)
(* queried before the commit and stored after the clear, the clear failed, *)
(* or the edit (of the instance, or a purchase) does not clear the         *)
(* candidates. Every other edit of provider_instance_service.py clears     *)
(* what it changes.                                                        *)
StaleIsExplained ==
    \A k \in Views :
        cached[k] \in {Miss, <<View(k)>>}
        \/ k \in raced
        \/ \E i \in 1..Len(editor) : Target(editor[i]) = k

(* What a user has switched off or added is never switched on or replaced  *)
(* by a synchronisation, however late its answer comes.                    *)
SyncStep ==
    sync = "fetching" /\ sync' = "idle" /\ modelRow # NoModel
        => modelRow'.active = modelRow.active /\ modelRow'.source = modelRow.source
SyncKeepsUsers == [][SyncStep]_catalogVars

(* A look-up always returns: who finds the lock taken is not left waiting  *)
(* for a holder that failed.                                               *)
RoutersReturn == \A r \in Routers : []<>(router[r].pc \in {"idle", "done"})
=============================================================================
