----------------------------- MODULE McpServers -----------------------------
(***************************************************************************)
(* The tool servers a user connects: their rows (with the tools fetched    *)
(* from each server and the user's switches), the subscriptions that       *)
(* import servers from a feed, the vector index of the user's tools, and   *)
(* the list of tools a chat is given.                                      *)
(*                                                                         *)
(* The index is maintained by differences: a synchronisation compares what *)
(* it fetched with the tools the row held, and upserts and deletes points  *)
(* accordingly; it never looks at the index itself. Index failures are     *)
(* swallowed, and the row is committed all the same.                       *)
(***************************************************************************)
EXTENDS Naturals, FiniteSets

CONSTANTS Servers,     \* ids of rows
          SourceRows,  \* the ones given to servers of the subscription
          Tools,       \* tool names
          MaxVersion,  \* descriptions a tool may have over time
          Handlers,    \* requests and background tasks at work
          MaxEdits,    \* bound on the requests that change something
          MaxFaults    \* bound on failures of the upstream and of the index

VARIABLES server,      \* the user_mcp_server table
          feed,        \* status of the one subscription
          offers,      \* what each upstream server offers
          indexed,     \* points of the user's collection, by origin and tool
          handler,
          edits,
          faults,
          apart        \* servers whose index has a reason to differ

mcpVars == <<server, feed, offers, indexed, handler, edits, faults, apart>>

(* tools_cache: the version of each tool the row holds, 0 for none.        *)
Caches == [Tools -> 0..MaxVersion]
NoTools == [t \in Tools |-> 0]
NoServer == [there |-> FALSE, remote |-> FALSE, on |-> FALSE,
             cache |-> NoTools, off |-> {}]
ServerRows == [there: BOOLEAN, remote: BOOLEAN, on: BOOLEAN,
               cache: Caches, off: SUBSET Tools]
FeedStatus == {"none", "active", "syncing", "error"}
Idle == [pc |-> "idle"]

Init ==
    /\ server = [s \in Servers |-> NoServer]
    /\ feed = "none"
    /\ offers = [s \in Servers |-> NoTools]
    /\ indexed = [s \in Servers |-> NoTools]
    /\ handler = [h \in Handlers |-> Idle]
    /\ edits = 0 /\ faults = 0
    /\ apart = {}

Fault == faults < MaxFaults /\ faults' = faults + 1
Edit == edits < MaxEdits /\ edits' = edits + 1

(***************************************************************************)
(* The index                                                               *)
(***************************************************************************)
(* The tools of a cache without the ones switched off.                     *)
Enabled(cache, off) == [t \in Tools |-> IF t \in off THEN 0 ELSE cache[t]]

(* Mutant: tools that are no longer offered keep their points.             *)
DeltaUpsertsOnly(old, new, points) ==
    [t \in Tools |-> IF new[t] # 0 /\ new[t] # old[t] THEN new[t] ELSE points[t]]

(* New or changed tools are upserted, vanished ones deleted, the others    *)
(* left as the index has them.                                             *)
ComputeDelta(old, new, points) ==
    [t \in Tools |-> IF new[t] = old[t] THEN points[t] ELSE new[t]]

SyncDelta(s, old, new) ==
    /\ indexed' = [indexed EXCEPT ![s] = ComputeDelta(old, new, @)]
    /\ UNCHANGED faults

(* The embedding fails, or the deletion after the upserts.                 *)
DeltaFails(s, old, new) ==
    /\ Fault
    /\ old # new
    /\ \/ UNCHANGED indexed
       \/ indexed' = [indexed EXCEPT ![s] =
             [t \in Tools |-> IF new[t] = 0 THEN @[t]
                              ELSE ComputeDelta(old, new, @)[t]]]

(* delete_user_tools: by origin; an error is logged.                       *)
WipeOrigin(S) ==
    \/ /\ indexed' = [s \in Servers |-> IF s \in S THEN NoTools ELSE indexed[s]]
       /\ UNCHANGED faults
    \/ S # {} /\ Fault /\ UNCHANGED indexed

(***************************************************************************)
(* Synchronisation of all servers of the user                              *)
(***************************************************************************)
(* What is left of the request when the synchronisation is over.           *)
StartSync(h, after) ==
    handler' = [handler EXCEPT ![h] = [pc |-> "select", after |-> after]]

Eligible(s) == server[s].there /\ server[s].on /\ server[s].remote

(* The rows are read once; the session keeps them as they were.            *)
SelectServers(h) ==
    /\ handler[h].pc = "select"
    /\ handler' = [handler EXCEPT ![h] =
         [pc |-> "fetch", after |-> @.after, todo |-> {s \in Servers : Eligible(s)},
          seen |-> server,
          got |-> [s \in Servers |-> server[s].cache], at |-> "none"]]
    /\ UNCHANGED <<server, feed, offers, indexed, edits, faults, apart>>

(* After the retries of the client the server does not answer: its cache   *)
(* stays.                                                                  *)
FetchFails(h, s) ==
    /\ handler[h].pc = "fetch" /\ s \in handler[h].todo
    /\ Fault
    /\ handler' = [handler EXCEPT ![h].todo = @ \ {s}]
    /\ UNCHANGED <<server, feed, offers, indexed, edits, apart>>

FetchTools(h, s) ==
    /\ handler[h].pc = "fetch" /\ s \in handler[h].todo
    /\ handler' = [handler EXCEPT ![h] =
         [pc |-> "index", after |-> @.after, todo |-> @.todo \ {s}, seen |-> @.seen,
          got |-> [handler[h].got EXCEPT ![s] = offers[s]], at |-> s]]
    /\ UNCHANGED <<server, feed, offers, indexed, edits, faults, apart>>

(* Another handler works from its own reading of the row, or the row has   *)
(* changed under this one: the difference is to something else.            *)
Holds(g, s) == \/ handler[g].pc \in {"fetch", "index"} /\ handler[g].seen[s].there
               \/ handler[g].pc \in {"switch", "switched"} /\ handler[g].at = s
Moved(h, s) == \/ \E g \in Handlers \ {h} : Holds(g, s)
               \/ server[s].cache # handler[h].seen[s].cache
               \/ server[s].off # handler[h].seen[s].off
               \/ ~Eligible(s)

IndexFetched(h) ==
    LET s    == handler[h].at
        seen == handler[h].seen[s]
        old  == Enabled(seen.cache, seen.off)
        new  == Enabled(handler[h].got[s], seen.off)
    IN  /\ handler[h].pc = "index"
        /\ SyncDelta(s, old, new) \/ DeltaFails(s, old, new)
        /\ apart' = IF Moved(h, s) \/ faults' # faults THEN apart \cup {s} ELSE apart
        /\ handler' = [handler EXCEPT ![h].pc = "fetch"]
        /\ UNCHANGED <<server, feed, offers, edits>>

(* The request goes on: a subscription notes how its synchronisation went. *)
Ended(h, status) ==
    /\ feed' = IF handler[h].after = "feed" /\ feed # "none" THEN status ELSE feed
    /\ handler' = [handler EXCEPT ![h] = Idle]

(* Caches that differ from what was read are written, nothing else of the  *)
(* row.                                                                    *)
Changed(h) == {s \in Servers : handler[h].got[s] # handler[h].seen[s].cache}

CommitCaches(h) ==
    /\ handler[h].pc = "fetch" /\ handler[h].todo = {}
    /\ \A s \in Changed(h) : server[s].there
    /\ server' = [s \in Servers |->
                    IF s \in Changed(h)
                    THEN [server[s] EXCEPT !.cache = handler[h].got[s]]
                    ELSE server[s]]
    /\ apart' = apart \cup {s \in Changed(h) : Moved(h, s)}
    /\ Ended(h, "active")
    /\ UNCHANGED <<offers, indexed, edits, faults>>

(* A row to be written was deleted meanwhile: the update matches no row,   *)
(* and the transaction with all the caches is rolled back.                 *)
CommitFails(h) ==
    /\ handler[h].pc = "fetch" /\ handler[h].todo = {}
    /\ \E s \in Changed(h) : ~server[s].there
    /\ apart' = apart \cup Changed(h)
    /\ Ended(h, "error")
    /\ UNCHANGED <<server, offers, indexed, edits, faults>>

(***************************************************************************)
(* Requests on servers                                                     *)
(***************************************************************************)
(* A draft (stdio) is stored disabled; a remote server is synchronised in  *)
(* the request, whatever becomes of it.                                    *)
CreateServer(h, s, remote, on) ==
    /\ handler[h].pc = "idle" /\ s \notin SourceRows /\ ~server[s].there /\ Edit
    /\ server' = [server EXCEPT ![s] =
         [NoServer EXCEPT !.there = TRUE, !.remote = remote, !.on = remote /\ on]]
    /\ IF remote THEN StartSync(h, "none") ELSE UNCHANGED handler
    /\ UNCHANGED <<feed, offers, indexed, faults, apart>>

UpdateServer(h, s, remote, on) ==
    /\ handler[h].pc = "idle" /\ server[s].there /\ Edit
    /\ server' = [server EXCEPT ![s].remote = remote, ![s].on = remote /\ on]
    /\ IF remote /\ on THEN StartSync(h, "none")
       ELSE handler' = [handler EXCEPT ![h] = [pc |-> "wipe", of |-> {s}, then |-> "keep"]]
    /\ UNCHANGED <<feed, offers, indexed, faults, apart>>

SyncServer(h, s) ==
    /\ handler[h].pc = "idle" /\ server[s].there /\ server[s].remote /\ Edit
    /\ StartSync(h, "none")
    /\ UNCHANGED <<server, feed, offers, indexed, faults, apart>>

DeleteServer(h, s) ==
    /\ handler[h].pc = "idle" /\ server[s].there /\ Edit
    /\ handler' = [handler EXCEPT ![h] = [pc |-> "wipe", of |-> {s}, then |-> "delete"]]
    /\ UNCHANGED <<server, feed, offers, indexed, faults, apart>>

(* Deleting a subscription wipes its servers one by one; the rows go with  *)
(* it, by the foreign key.                                                 *)
DeleteSource(h) ==
    /\ handler[h].pc = "idle" /\ feed # "none" /\ Edit
    /\ handler' = [handler EXCEPT ![h] =
         [pc |-> "wipe", of |-> {s \in SourceRows : server[s].there},
          then |-> "source"]]
    /\ UNCHANGED <<server, feed, offers, indexed, faults, apart>>

(* The points of the origin go; a row that stays keeps its tools_cache.    *)
Wipe(h) ==
    /\ handler[h].pc = "wipe"
    /\ WipeOrigin(handler[h].of)
    /\ apart' = apart \cup handler[h].of
    /\ handler' = IF handler[h].then = "keep" THEN [handler EXCEPT ![h] = Idle]
                  ELSE [handler EXCEPT ![h].pc = "drop"]
    /\ UNCHANGED <<server, feed, offers, edits>>

(* The rows of a deleted subscription are the ones it has now. A new row   *)
(* has a new id in the code; where one is used again here, nothing is      *)
(* claimed of it.                                                          *)
DropRows(h) ==
    LET gone == IF handler[h].then = "source"
                THEN {s \in SourceRows : server[s].there} ELSE handler[h].of
    IN  /\ handler[h].pc = "drop"
        /\ server' = [s \in Servers |-> IF s \in gone THEN NoServer ELSE server[s]]
        /\ feed' = IF handler[h].then = "source" THEN "none" ELSE feed
        /\ handler' = [handler EXCEPT ![h] = Idle]
        /\ apart' = apart \cup gone
        /\ UNCHANGED <<offers, indexed, edits, faults>>

(***************************************************************************)
(* A tool's switch: the list is read, changed and written back             *)
(***************************************************************************)
ReadSwitches(h, s, t, enable) ==
    LET off == IF enable THEN server[s].off \ {t} ELSE server[s].off \cup {t}
    IN  /\ handler[h].pc = "idle" /\ server[s].there /\ server[s].remote
        /\ server[s].cache[t] # 0 /\ Edit
        /\ handler' = [handler EXCEPT ![h] =
             [pc |-> "switch", at |-> s, old |-> server[s].off, off |-> off]]
        /\ UNCHANGED <<server, feed, offers, indexed, faults, apart>>

WriteSwitches(h) ==
    LET s == handler[h].at
    IN  /\ handler[h].pc = "switch"
        /\ IF server[s].there
           THEN /\ server' = [server EXCEPT ![s].off = handler[h].off]
                /\ apart' = IF server[s].off = handler[h].old THEN apart
                            ELSE apart \cup {s}
                /\ handler' = [handler EXCEPT ![h] =
                     [pc |-> "switched", at |-> s, old |-> @.old, off |-> @.off,
                      cache |-> server[s].cache]]
           ELSE /\ UNCHANGED <<server, apart>>
                /\ handler' = [handler EXCEPT ![h] = Idle]
        /\ UNCHANGED <<feed, offers, indexed, edits, faults>>

IndexSwitched(h) ==
    LET s   == handler[h].at
        old == Enabled(handler[h].cache, handler[h].old)
        new == Enabled(handler[h].cache, handler[h].off)
    IN  /\ handler[h].pc = "switched"
        /\ SyncDelta(s, old, new) \/ DeltaFails(s, old, new)
        /\ apart' = IF \/ faults' # faults \/ ~Eligible(s)
                       \/ \E g \in Handlers \ {h} : Holds(g, s)
                       \/ server[s].cache # handler[h].cache
                       \/ server[s].off # handler[h].off
                    THEN apart \cup {s} ELSE apart
        /\ handler' = [handler EXCEPT ![h] = Idle]
        /\ UNCHANGED <<server, feed, offers, edits>>

(***************************************************************************)
(* Subscriptions: a feed that names servers by key                         *)
(***************************************************************************)
CreateSource ==
    /\ SourceRows # {} /\ feed = "none" /\ Edit
    /\ feed' = "active"
    /\ UNCHANGED <<server, offers, indexed, handler, faults, apart>>

SyncSource(h) ==
    /\ handler[h].pc = "idle" /\ feed # "none" /\ Edit
    /\ feed' = "syncing"
    /\ handler' = [handler EXCEPT ![h] = [pc |-> "feed", after |-> "feed"]]
    /\ UNCHANGED <<server, offers, indexed, faults, apart>>

(* The feed is unsafe, not reached, or no JSON of the expected shape.      *)
FetchFeedFails(h) ==
    /\ handler[h].pc = "feed" /\ Fault
    /\ Ended(h, "error")
    /\ UNCHANGED <<server, offers, indexed, edits, apart>>

(* The feed has one entry, with a URL or without. Whether its key is known *)
(* is looked up first, then the rows are committed.                        *)
ReadFeed(h, remote) ==
    /\ handler[h].pc = "feed" /\ feed # "none"
    /\ handler' = [handler EXCEPT ![h] =
         [pc |-> "rows", after |-> "feed", remote |-> remote,
          known |-> {s \in SourceRows : server[s].there}]]
    /\ UNCHANGED <<server, feed, offers, indexed, edits, faults, apart>>

(* Nothing keeps two synchronisations from adding the key twice; from then *)
(* on the look-up finds two rows and raises.                               *)
KeyTwice(h) ==
    /\ handler[h].pc = "rows" /\ Cardinality(handler[h].known) > 1
    /\ Ended(h, "error")
    /\ UNCHANGED <<server, offers, indexed, edits, faults, apart>>

UpsertSourced(h) ==
    LET remote == handler[h].remote
    IN  /\ handler[h].pc = "rows" /\ feed # "none"
        /\ \/ \E s \in handler[h].known :
                /\ handler[h].known = {s} /\ server[s].there
                /\ server' = [server EXCEPT ![s].remote = remote,
                                            ![s].on = remote /\ @]
                /\ apart' = IF remote THEN apart ELSE apart \cup {s}
           \/ \E s \in SourceRows :
                /\ handler[h].known = {} /\ ~server[s].there
                /\ server' = [server EXCEPT ![s] =
                     [NoServer EXCEPT !.there = TRUE, !.remote = remote, !.on = remote]]
                /\ UNCHANGED apart
        /\ StartSync(h, "feed")
        /\ UNCHANGED <<feed, offers, indexed, edits, faults>>

(* The subscription or its row went away meanwhile.                        *)
SourceGone(h) ==
    /\ \/ handler[h].pc = "feed" /\ feed = "none"
       \/ handler[h].pc = "rows" /\ feed = "none"
       \/ /\ handler[h].pc = "rows" /\ Cardinality(handler[h].known) = 1
          /\ \E s \in handler[h].known : ~server[s].there
    /\ Ended(h, "error")
    /\ UNCHANGED <<server, offers, indexed, edits, faults, apart>>

(***************************************************************************)
(* The tools of a chat                                                     *)
(***************************************************************************)
ActiveTools == {t \in Tools : \E s \in Servers :
                   Eligible(s) /\ server[s].cache[t] # 0 /\ t \notin server[s].off}

(* The names of the active tools are read, then the index is searched.     *)
LoadPayloads(h) ==
    /\ handler[h].pc = "idle"
    /\ handler' = [handler EXCEPT ![h] = [pc |-> "search", active |-> ActiveTools]]
    /\ UNCHANGED <<server, feed, offers, indexed, edits, faults, apart>>

(* Hits that are no active tool of the user are left out.                  *)
Visible(hits, active) == hits \cap active

Search(h) ==
    /\ handler[h].pc = "search"
    /\ \E hits \in SUBSET {t \in Tools : \E s \in Servers : indexed[s][t] # 0} :
          handler' = [handler EXCEPT ![h] =
            [pc |-> "chat", tools |-> Visible(hits, @.active), active |-> @.active]]
    /\ UNCHANGED <<server, feed, offers, indexed, edits, faults, apart>>

(* The collection is missing: nothing is found, and a synchronisation runs *)
(* in the background.                                                      *)
CollectionMissing(h) ==
    /\ handler[h].pc = "search" /\ Fault
    /\ indexed' = [s \in Servers |-> NoTools]
    /\ apart' = {s \in Servers : server[s].there} \cup apart
    /\ StartSync(h, "none")
    /\ UNCHANGED <<server, feed, offers, edits>>

ChatEnds(h) ==
    /\ handler[h].pc = "chat"
    /\ handler' = [handler EXCEPT ![h] = Idle]
    /\ UNCHANGED <<server, feed, offers, indexed, edits, faults, apart>>

(* The upstream server changes its tools.                                  *)
UpstreamChanges(s, t, v) ==
    /\ Edit
    /\ offers' = [offers EXCEPT ![s][t] = v]
    /\ UNCHANGED <<server, feed, indexed, handler, faults, apart>>

(***************************************************************************)
(* Specification                                                           *)
(***************************************************************************)
HandlerStep(h) ==
    \/ SelectServers(h) \/ (\E s \in Servers : FetchTools(h, s) \/ FetchFails(h, s))
    \/ IndexFetched(h) \/ CommitCaches(h) \/ CommitFails(h)
    \/ Wipe(h) \/ DropRows(h)
    \/ WriteSwitches(h) \/ IndexSwitched(h)
    \/ FetchFeedFails(h) \/ (\E r \in BOOLEAN : ReadFeed(h, r))
    \/ KeyTwice(h) \/ UpsertSourced(h) \/ SourceGone(h)
    \/ Search(h) \/ CollectionMissing(h) \/ ChatEnds(h)

Next ==
    \/ \E h \in Handlers :
         \/ HandlerStep(h)
         \/ DeleteSource(h) \/ SyncSource(h) \/ LoadPayloads(h)
         \/ \E s \in Servers :
              \/ SyncServer(h, s) \/ DeleteServer(h, s)
              \/ \E r, on \in BOOLEAN : CreateServer(h, s, r, on) \/ UpdateServer(h, s, r, on)
              \/ \E t \in Tools, e \in BOOLEAN : ReadSwitches(h, s, t, e)
    \/ CreateSource
    \/ \E s \in Servers, t \in Tools, v \in 0..MaxVersion : UpstreamChanges(s, t, v)

Spec == Init /\ [][Next]_mcpVars /\ \A h \in Handlers : WF_mcpVars(HandlerStep(h))

(***************************************************************************)
(* Properties                                                              *)
(***************************************************************************)
(* Rows, points and the subscription hold what the columns admit.          *)
TypeOK ==
    /\ server \in [Servers -> ServerRows]
    /\ feed \in FeedStatus
    /\ offers \in [Servers -> Caches] /\ indexed \in [Servers -> Caches]
    /\ apart \subseteq Servers

(* A tool given to a chat was an enabled tool of an enabled server when    *)
(* the list was begun, whatever leftovers the index holds (build_tools).   *)
OfferedWasActive ==
    \A h \in Handlers : handler[h].pc = "chat" => handler[h].tools \subseteq handler[h].active

Quiet == \A h \in Handlers : handler[h].pc \in {"idle", "search", "chat"}

(* When nobody is at work, the index holds exactly the enabled tools of    *)
(* every server, unless there is a reason: a swallowed index failure, a    *)
(* wipe that left the cache, or two writers that overlapped                *)
(* (sync_user_tools, sync_user_tools_delta).                               *)
IndexFollowsRows ==
    Quiet => \A s \in Servers \ apart :
                server[s].there /\ server[s].on
                  => indexed[s] = Enabled(server[s].cache, server[s].off)

(* Only the user's switch request changes the switches of a row that       *)
(* stays: a synchronisation that ends after it writes the cache alone.     *)
SwitchStep ==
    \A s \in Servers :
        server[s].there /\ server'[s].there /\ server'[s].off # server[s].off
          => \E h \in Handlers : handler[h].pc = "switch" /\ handler[h].at = s
SwitchesAreTheUsers == [][SwitchStep]_mcpVars

(* Every request on the servers ends (sync_mcp_source sets a final status).*)
RequestsEnd == \A h \in Handlers : []<>(handler[h].pc = "idle")

(* A server that is enabled and synchronised has its tools in the index:   *)
(* what a second synchronisation is for. Not so: a wipe on disabling       *)
(* leaves the cache, and the difference to it is empty ever after.         *)
SyncedIsIndexed ==
    Quiet /\ faults = 0 /\ edits = MaxEdits
      => \A s \in Servers : server[s].there /\ server[s].on
           => \A t \in Tools : Enabled(server[s].cache, server[s].off)[t] # 0 => indexed[s][t] # 0
=============================================================================
