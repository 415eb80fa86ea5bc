------------------------------ MODULE MCAgents ------------------------------
(***************************************************************************)
(* What a chat sets in motion: the call of an upstream behind its breaker, *)
(* the stream that is billed, the catalogue a router reads, the agent      *)
(* loop, plans of the spec agent, code in sandboxes, what is remembered of *)
(* the conversation, the tools of MCP servers and the status the client is *)
(* shown. The components share no state here, so a behaviour is one of a   *)
(* single component, its subject, while the variables of the others rest.  *)
(* Each component has a table of the constants it is looked at with, with  *)
(* a row for each subject.                                                 *)
(***************************************************************************)
EXTENDS Integers, Sequences, FiniteSets

CONSTANTS
  Upstreams,    \* the constants of UpstreamRouting, by subject
  Relays,       \* of UpstreamStreams
  Catalogs,     \* of ProviderCatalog
  Loops,        \* of AgentLoop
  Planners,     \* of SpecAgent
  Shells,       \* of Sandboxes
  Codes,        \* of CodeMode
  Recalls,      \* of Memories
  Connectors,   \* of McpServers
  Viewers       \* of StatusStreams

\* Bounds are numbers, and what is to happen at least once may.
ASSUME AgentsAssumption ==
  /\ \A n \in DOMAIN Upstreams :
       /\ Upstreams[n].threshold \in Nat \ {0} /\ Upstreams[n].successes \in Nat \ {0}
       /\ Upstreams[n].retries \in Nat /\ Upstreams[n].width \in Nat
  /\ \A n \in DOMAIN Relays :
       /\ Relays[n].chunks \in Nat \ {0} /\ Relays[n].attempts \in Nat \ {0}
       /\ Relays[n].redirects \in Nat /\ "none" \notin Relays[n].endpoints
  /\ \A n \in DOMAIN Catalogs :
       /\ Catalogs[n].route \in Seq({"list", "cand", "creds", "preset", "secret"}) \ {<<>>}
       /\ Catalogs[n].edits \in Nat
  /\ \A n \in DOMAIN Recalls : Recalls[n].messages \in Nat
  /\ \A n \in DOMAIN Connectors :
       Connectors[n].sourced \subseteq Connectors[n].servers /\ Connectors[n].versions \in Nat
  /\ \A n \in DOMAIN Viewers :
       /\ Viewers[n].queue \in Nat \ {0} /\ Viewers[n].events \in Nat \ {0}
       /\ Viewers[n].cancels \in Nat

VARIABLES subject,
          breaker, call, marked,
          relay, pool, health, reached, posted,
          instance, modelRow, credentials, preset, bought, secret, cached, flight, router,
          editor, sync, edits, faults, raced,
          chosenFirst, loop, asked, answers, sent, voice, offered, activation, stream,
          plan, last, made, chosen, worked, executor, reruns, crashes,
          box, active, refKey, sessKey, runLock, runner, reap, lost, mishaps,
          found, execution, redisToken, localToken, storedIn, served, onboarding, records,
          redisUp, outages,
          said, recalled, lastActive, pending, toucher, job, memory, snapshot, memoEditor,
          slips, neglected, altered, learned,
          server, feed, offers, indexed, handler, changes, upsets, apart,
          chat, flag, cancels, generation, watcher

Upstream(n) == INSTANCE UpstreamRouting
  WITH Calls <- Upstreams[n].calls, Threshold <- Upstreams[n].threshold,
       HalfOpenSuccess <- Upstreams[n].successes, UpRetries <- Upstreams[n].retries,
       Width <- Upstreams[n].width

Relay(n) == INSTANCE UpstreamStreams
  WITH Calls <- {"a"}, Kind <- [a |-> Relays[n].kind], Endpoints <- Relays[n].endpoints,
       MaxChunks <- Relays[n].chunks, ProxyAttempts <- Relays[n].attempts,
       MaxRedirects <- Relays[n].redirects, call <- relay, sent <- posted

Catalog(n) == INSTANCE ProviderCatalog
  WITH Routers <- Catalogs[n].routers, Route <- Catalogs[n].route,
       MaxEdits <- Catalogs[n].edits, MaxFaults <- Catalogs[n].faults

Loop(n) == INSTANCE AgentLoop
  WITH Assistants <- Loops[n].assistants, MaxTurns <- Loops[n].turns,
       MaxBatch <- Loops[n].batch, preset <- chosenFirst

Planner(n) == INSTANCE SpecAgent
  WITH Nodes <- Planners[n].nodes, Needs <- Planners[n].needs, Kind <- Planners[n].kind,
       Executors <- Planners[n].executors, MaxSteps <- Planners[n].steps,
       MaxTurns <- Planners[n].turns, MaxReruns <- Planners[n].reruns,
       MaxCrashes <- Planners[n].crashes, RerunLive <- FALSE

Shell(n) == INSTANCE Sandboxes
  WITH Boxes <- Shells[n].boxes, BoxSessions <- Shells[n].sessions,
       Runners <- Shells[n].runners, Runs <- Shells[n].runs, MaxSandboxes <- Shells[n].limit,
       BusyAttempts <- Shells[n].attempts, MaxMishaps <- Shells[n].mishaps

Code(n) == INSTANCE CodeMode
  WITH Executions <- Codes[n].executions, Replays <- Codes[n].replays,
       ToolNames <- Codes[n].tools, Plans <- Codes[n].plans, MaxCalls <- Codes[n].calls,
       MaxOutages <- Codes[n].outages, snapshot <- found

Recall(n) == INSTANCE Memories
  WITH Chats <- Recalls[n].chats, Jobs <- Recalls[n].jobs, Points <- Recalls[n].points,
       Texts <- Recalls[n].texts, Editors <- Recalls[n].editors,
       MaxMessages <- Recalls[n].messages, MaxSnapshots <- Recalls[n].snapshots,
       MaxSlips <- Recalls[n].slips, editor <- memoEditor

Connector(n) == INSTANCE McpServers
  WITH Servers <- Connectors[n].servers, SourceRows <- Connectors[n].sourced,
       Tools <- Connectors[n].tools, MaxVersion <- Connectors[n].versions,
       Handlers <- Connectors[n].handlers, MaxEdits <- Connectors[n].edits,
       MaxFaults <- Connectors[n].faults, edits <- changes, faults <- upsets

Status(n) == INSTANCE StatusStreams
  WITH Chats <- Viewers[n].chats, RequestId <- Viewers[n].ids,
       Watched <- Viewers[n].watched, QueueSize <- Viewers[n].queue,
       MaxEvents <- Viewers[n].events, MaxCancels <- Viewers[n].cancels

-----------------------------------------------------------------------------
(* The rows of the run. *)

\* Two requests to one upstream; one request with a second candidate.
MCUpstreams ==
  [breaker |-> [calls |-> {"r1", "r2"}, threshold |-> 2, successes |-> 1, retries |-> 1,
                width |-> 1],
   backup |-> [calls |-> {"r1"}, threshold |-> 2, successes |-> 2, retries |-> 1, width |-> 2]]

\* A stream through proxies, one that is redirected, and an asynchronous job.
MCRelays ==
  [proxied |-> [kind |-> "stream", endpoints |-> {"p"}, chunks |-> 2, attempts |-> 2,
                redirects |-> 0],
   redirected |-> [kind |-> "stream", endpoints |-> {"p"}, chunks |-> 1, attempts |-> 1,
                   redirects |-> 1],
   async |-> [kind |-> "async", endpoints |-> {"p"}, chunks |-> 1, attempts |-> 2,
              redirects |-> 1]]

\* Two edits under one look-up, one edit whose clearing may fail, one under a whole
\* route, and two requests for one lock.
MCCatalogs ==
  [edited |-> [routers |-> {"r1"}, route |-> <<"cand">>, edits |-> 2, faults |-> 0],
   uncleared |-> [routers |-> {"r1"}, route |-> <<"cand">>, edits |-> 1, faults |-> 1],
   routed |-> [routers |-> {"r1"}, route |-> <<"list", "cand", "creds", "preset", "secret">>,
               edits |-> 1, faults |-> 0],
   locked |-> [routers |-> {"r1", "r2"}, route |-> <<"cand">>, edits |-> 0, faults |-> 1]]

MCLoops == [agent |-> [assistants |-> {"a", "b"}, turns |-> 2, batch |-> 2]]

\* a, then the gate g with the branches b, d and c, r; r plans again.
MCPlanners ==
  [planned |->
    [nodes |-> {"a", "g", "b", "c", "d", "r"},
     needs |-> [a |-> {}, g |-> {"a"}, b |-> {"g"}, c |-> {"g"}, d |-> {"b"}, r |-> {"c"}],
     kind |-> [a |-> "action", g |-> "gate", b |-> "check_in", c |-> "action",
               d |-> "action", r |-> "replan"],
     executors |-> {"x"}, steps |-> 3, turns |-> 2, reruns |-> 2, crashes |-> 1]]

\* Two requests of one session, and of two sessions.
MCShells ==
  [one_session |->
    [boxes |-> {"b1", "b2", "b3"}, sessions |-> {"s1"}, runners |-> {"r1", "r2"},
     runs |-> {<<"r1", "s1", "stream">>, <<"r2", "s1", "run">>},
     limit |-> 1, attempts |-> 2, mishaps |-> 1],
   two_sessions |->
    [boxes |-> {"b1", "b2"}, sessions |-> {"s1", "s2"}, runners |-> {"r1", "r2"},
     runs |-> {<<"r1", "s1", "stream">>, <<"r2", "s1", "run">>, <<"r2", "s2", "stream">>},
     limit |-> 1, attempts |-> 2, mishaps |-> 1]]

\* A plan of two calls while Redis fails, and an execution that is replayed.
MCCodes ==
  [code |->
    [executions |-> {"e1"}, replays |-> {}, tools |-> {"a", "b"},
     plans |-> {<<>>,
                <<[tool |-> "a", onError |-> "stop"], [tool |-> "b", onError |-> "continue"]>>,
                <<[tool |-> "search_sdk", onError |-> "stop"]>>},
     calls |-> 1, outages |-> 2],
   replayed |->
    [executions |-> {"e1", "e2"}, replays |-> {"e2"}, tools |-> {"a"},
     plans |-> {<<[tool |-> "a", onError |-> "stop"]>>}, calls |-> 1, outages |-> 0]]

\* Messages that overtake their extraction, and edits of what it found.
MCRecalls ==
  [extracted |-> [chats |-> {"s1"}, jobs |-> {"j1", "j2"}, points |-> {"p"},
                  texts |-> {"f", "g"}, editors |-> {}, messages |-> 3, snapshots |-> 2,
                  slips |-> 1],
   corrected |-> [chats |-> {"s1"}, jobs |-> {"j1"}, points |-> {"p"}, texts |-> {"f", "g"},
                  editors |-> {"e1"}, messages |-> 2, snapshots |-> 2, slips |-> 1]]

\* A server of the user's own; a subscription with two rows; one whose feed fails.
MCConnectors ==
  [own |-> [servers |-> {"k1"}, sourced |-> {}, tools |-> {"t"}, versions |-> 1,
            handlers |-> {"h1", "h2"}, edits |-> 4, faults |-> 1],
   subscribed |-> [servers |-> {"k1", "k2"}, sourced |-> {"k1", "k2"}, tools |-> {"t"},
                   versions |-> 1, handlers |-> {"h1", "h2"}, edits |-> 3, faults |-> 0],
   feed |-> [servers |-> {"k1"}, sourced |-> {"k1"}, tools |-> {"t"}, versions |-> 1,
             handlers |-> {"h1", "h2"}, edits |-> 3, faults |-> 1]]

\* Two chats with one id; a chat with more events than the queue holds and a poll.
MCViewers ==
  [same_id |-> [chats |-> {"a", "b"}, ids |-> [c \in {"a", "b"} |-> "i"], watched |-> {},
                queue |-> 1, events |-> 1, cancels |-> 1],
   watching |-> [chats |-> {"a"}, ids |-> [a |-> "i"], watched |-> {"g"}, queue |-> 1,
                 events |-> 2, cancels |-> 1]]

-----------------------------------------------------------------------------
upstream == <<breaker, call, marked>>
streams == <<relay, pool, health, reached, posted>>
catalog == <<instance, modelRow, credentials, preset, bought, secret, cached, flight, router,
             editor, sync, edits, faults, raced>>
agent == <<chosenFirst, loop, asked, answers, sent, voice, offered, activation, stream>>
plans == <<plan, last, made, chosen, worked, executor, reruns, crashes>>
sandboxes == <<box, active, refKey, sessKey, runLock, runner, reap, lost, mishaps>>
code == <<found, execution, redisToken, localToken, storedIn, served, onboarding, records,
          redisUp, outages>>
memories == <<said, recalled, lastActive, pending, toucher, job, memory, snapshot, memoEditor,
              slips, neglected, altered, learned>>
mcp == <<server, feed, offers, indexed, handler, changes, upsets, apart>>
status == <<chat, flag, cancels, generation, watcher>>
agentVars == <<subject, upstream, streams, catalog, agent, plans, sandboxes, code, memories,
               mcp, status>>

Subjects ==
  DOMAIN Upstreams \cup DOMAIN Relays \cup DOMAIN Catalogs \cup DOMAIN Loops
    \cup DOMAIN Planners \cup DOMAIN Shells \cup DOMAIN Codes \cup DOMAIN Recalls
    \cup DOMAIN Connectors \cup DOMAIN Viewers

\* The row a component starts with: the subject's, or, while it rests, any one.
Starts(table, n) ==
  n = IF subject \in DOMAIN table THEN subject ELSE CHOOSE k \in DOMAIN table : TRUE

\* What may start in several ways is fixed while it rests.
Init ==
  /\ subject \in Subjects
  /\ \E n \in DOMAIN Upstreams : Starts(Upstreams, n) /\ Upstream(n)!Init
  /\ \E n \in DOMAIN Relays :
       Starts(Relays, n) /\ Relay(n)!Init /\ (subject # n => pool.on)
  /\ \E n \in DOMAIN Catalogs : Starts(Catalogs, n) /\ Catalog(n)!Init
  /\ \E n \in DOMAIN Loops :
       /\ Starts(Loops, n) /\ Loop(n)!Init
       /\ subject # n => chosenFirst = "nobody" /\ ~stream
  /\ \E n \in DOMAIN Planners : Starts(Planners, n) /\ Planner(n)!Init
  /\ \E n \in DOMAIN Shells : Starts(Shells, n) /\ Shell(n)!Init
  /\ \E n \in DOMAIN Codes : Starts(Codes, n) /\ Code(n)!Init
  /\ \E n \in DOMAIN Recalls : Starts(Recalls, n) /\ Recall(n)!Init
  /\ \E n \in DOMAIN Connectors : Starts(Connectors, n) /\ Connector(n)!Init
  /\ \E n \in DOMAIN Viewers : Starts(Viewers, n) /\ Status(n)!Init

UpstreamMoves ==
  /\ \E n \in DOMAIN Upstreams : subject = n /\ Upstream(n)!Next
  /\ UNCHANGED <<subject, streams, catalog, agent, plans, sandboxes, code, memories, mcp, status>>

StreamsMove ==
  /\ \E n \in DOMAIN Relays : subject = n /\ Relay(n)!Next
  /\ UNCHANGED <<subject, upstream, catalog, agent, plans, sandboxes, code, memories, mcp, status>>

CatalogMoves ==
  /\ \E n \in DOMAIN Catalogs : subject = n /\ Catalog(n)!Next
  /\ UNCHANGED <<subject, upstream, streams, agent, plans, sandboxes, code, memories, mcp, status>>

AgentMoves ==
  /\ \E n \in DOMAIN Loops : subject = n /\ Loop(n)!Next
  /\ UNCHANGED <<subject, upstream, streams, catalog, plans, sandboxes, code, memories, mcp, status>>

PlansMove ==
  /\ \E n \in DOMAIN Planners : subject = n /\ Planner(n)!Next
  /\ UNCHANGED <<subject, upstream, streams, catalog, agent, sandboxes, code, memories, mcp, status>>

SandboxesMove ==
  /\ \E n \in DOMAIN Shells : subject = n /\ Shell(n)!Next
  /\ UNCHANGED <<subject, upstream, streams, catalog, agent, plans, code, memories, mcp, status>>

CodeMoves ==
  /\ \E n \in DOMAIN Codes : subject = n /\ Code(n)!Next
  /\ UNCHANGED <<subject, upstream, streams, catalog, agent, plans, sandboxes, memories, mcp, status>>

MemoriesMove ==
  /\ \E n \in DOMAIN Recalls : subject = n /\ Recall(n)!Next
  /\ UNCHANGED <<subject, upstream, streams, catalog, agent, plans, sandboxes, code, mcp, status>>

McpMoves ==
  /\ \E n \in DOMAIN Connectors : subject = n /\ Connector(n)!Next
  /\ UNCHANGED <<subject, upstream, streams, catalog, agent, plans, sandboxes, code, memories, status>>

StatusMoves ==
  /\ \E n \in DOMAIN Viewers : subject = n /\ Status(n)!Next
  /\ UNCHANGED <<subject, upstream, streams, catalog, agent, plans, sandboxes, code, memories, mcp>>

Next ==
  \/ UpstreamMoves \/ StreamsMove \/ CatalogMoves \/ AgentMoves \/ PlansMove
  \/ SandboxesMove \/ CodeMoves \/ MemoriesMove \/ McpMoves \/ StatusMoves

\* The subjects whose progress AgentsEnd is about.
Followed == {"breaker", "proxied", "redirected", "async", "agent", "planned", "code", "edited",
             "uncleared", "routed", "locked", "one_session", "extracted", "own", "same_id",
             "watching"}

\* The event loop goes on with every request it has begun, workers with every task, and
\* time passes.
Fairness ==
  /\ \A n \in DOMAIN Upstreams \cap Followed :
       WF_upstream(subject = n /\ Upstream(n)!ResetPasses)
  /\ \A n \in DOMAIN Relays \cap Followed : WF_streams(subject = n /\ Relay(n)!CallStep("a"))
  /\ \A n \in DOMAIN Loops \cap Followed : WF_agent(subject = n /\ Loop(n)!Move)
  /\ \A n \in DOMAIN Planners \cap Followed : \A x \in Planners[n].executors :
       WF_plans(subject = n /\ Planner(n)!Step(x))
  /\ \A n \in DOMAIN Codes \cap Followed : \A e \in Codes[n].executions :
       WF_code(subject = n /\ Code(n)!ExecutionStep(e))
  /\ \A n \in DOMAIN Catalogs \cap Followed : \A r \in Catalogs[n].routers :
       WF_catalog(subject = n /\ Catalog(n)!RouterStep(r))
  /\ \A n \in DOMAIN Shells \cap Followed :
       /\ \A r \in Shells[n].runners : WF_sandboxes(subject = n /\ Shell(n)!RunnerStep(r))
       /\ \A a \in Shells[n].runners \cup {"loop"} :
            WF_sandboxes(subject = n /\ Shell(n)!ReapStep(a))
  /\ \A n \in DOMAIN Recalls \cap Followed :
       /\ \A s \in Recalls[n].chats :
            /\ WF_memories(subject = n /\ Recall(n)!Touch(s))
            /\ WF_memories(subject = n /\ Recall(n)!PassThreeMinutes(s))
       /\ \A j \in Recalls[n].jobs : WF_memories(subject = n /\ Recall(n)!JobStep(j))
  /\ \A n \in DOMAIN Connectors \cap Followed : \A h \in Connectors[n].handlers :
       WF_mcp(subject = n /\ Connector(n)!HandlerStep(h))
  /\ \A n \in DOMAIN Viewers \cap Followed : \A c \in Viewers[n].chats :
       WF_status(subject = n /\ Status(n)!ChatStep(c))

Spec == Init /\ [][Next]_agentVars /\ Fairness

-----------------------------------------------------------------------------
\* Every row, key, request and task of these components keeps its type.
TypesHold ==
  /\ \A n \in DOMAIN Upstreams : subject = n => Upstream(n)!TypeOK
  /\ \A n \in DOMAIN Relays : subject = n => Relay(n)!TypeOK
  /\ \A n \in DOMAIN Catalogs : subject = n => Catalog(n)!TypeOK
  /\ \A n \in DOMAIN Loops : subject = n => Loop(n)!TypeOK
  /\ \A n \in DOMAIN Planners : subject = n => Planner(n)!TypeOK
  /\ \A n \in DOMAIN Shells : subject = n => Shell(n)!TypeOK
  /\ \A n \in DOMAIN Codes : subject = n => Code(n)!TypeOK
  /\ \A n \in DOMAIN Recalls : subject = n => Recall(n)!TypeOK
  /\ \A n \in DOMAIN Connectors : subject = n => Connector(n)!TypeOK
  /\ \A n \in DOMAIN Viewers : subject = n => Status(n)!TypeOK

\* What agents do is done in order and once: the model is asked only with a complete
\* history (Paired), no tool call is sent twice (SentOnce), the tools offered are the
\* active assistant's (ToolsFollowActive), a degraded loop shows the latest answer
\* (DegradedShowsLatest); a plan is complete when its nodes are (CompleteIsComplete), a
\* gate opens one branch (OneBranch), and what has run rests on what succeeded
\* (RestsOnResults); code makes no more calls than its token allows (CallsBounded), has
\* one record (OneRecord), stops where its plan says (StopMeansStop) and calls only what
\* was found (PlanWithinSearch); no sandbox is forgotten (NoneForgotten), their limit is
\* missed by the racing requests only (LimitNearlyHolds) and none serves two sessions
\* (OwnSandbox).
AgentsKeepOrder ==
  /\ \A n \in DOMAIN Loops : subject = n =>
       /\ Loop(n)!Paired /\ Loop(n)!SentOnce
       /\ Loop(n)!ToolsFollowActive /\ Loop(n)!DegradedShowsLatest
  /\ \A n \in DOMAIN Planners : subject = n =>
       Planner(n)!CompleteIsComplete /\ Planner(n)!OneBranch /\ Planner(n)!RestsOnResults
  /\ \A n \in DOMAIN Codes : subject = n =>
       /\ Code(n)!CallsBounded /\ Code(n)!OneRecord
       /\ Code(n)!StopMeansStop /\ Code(n)!PlanWithinSearch
  /\ \A n \in DOMAIN Shells : subject = n =>
       Shell(n)!NoneForgotten /\ Shell(n)!LimitNearlyHolds /\ Shell(n)!OwnSandbox

\* What the gateway believes is so, however requests, tasks and edits interleave: a
\* breaker opens on failures that happened (OpensOnEvidence), a stream is settled once
\* for all that was shown (SettledOnce) and never retried through the proxy that failed
\* (OtherProxyEachTime), a stale view of the catalogue has a known cause
\* (StaleIsExplained), a message is read or waited for (MessageAwaited), what was learned
\* is kept (NothingForgotten), tools offered to a chat were active (OfferedWasActive), the
\* index of tools follows the rows (IndexFollowsRows), and no workflow runs on without
\* its stream (NoneRunsOn).
BeliefsAreSound ==
  /\ \A n \in DOMAIN Upstreams : subject = n => Upstream(n)!OpensOnEvidence
  /\ \A n \in DOMAIN Relays : subject = n => Relay(n)!SettledOnce /\ Relay(n)!OtherProxyEachTime
  /\ \A n \in DOMAIN Catalogs : subject = n => Catalog(n)!StaleIsExplained
  /\ \A n \in DOMAIN Recalls :
       subject = n => Recall(n)!MessageAwaited /\ Recall(n)!NothingForgotten
  /\ \A n \in DOMAIN Connectors :
       subject = n => Connector(n)!OfferedWasActive /\ Connector(n)!IndexFollowsRows
  /\ \A n \in DOMAIN Viewers : subject = n => Status(n)!NoneRunsOn

\* A synchronisation that ends late leaves alone what the user set meanwhile: models that
\* were switched off or added (SyncStep) and the switches of tools (SwitchStep).
SettingsAreTheUsers ==
  [][ /\ \A n \in DOMAIN Catalogs : subject = n => Catalog(n)!SyncStep
      /\ \A n \in DOMAIN Connectors : subject = n => Connector(n)!SwitchStep ]_agentVars

\* Whatever was begun comes to an end: the breaker lets calls through again
\* (CallsGetThrough); streams (StreamsEnd), look-ups (RoutersReturn), agent loops
\* (LoopEnds), executors of plans (ExecutorsEnd), runs in sandboxes (RunsEnd), executions
\* (ExecutionsEnd), requests to MCP servers (RequestsEnd) and status streams (StreamsEnd)
\* end, and messages are read by an extraction (MessagesRecalled).
AgentsEnd ==
  /\ []<><<subject = "breaker" /\ Upstream("breaker")!BreakerAsked>>_upstream
       => []<>(subject = "breaker" /\ Upstream("breaker")!SomeGetThrough)
  /\ Relay("proxied")!StreamsEnd
  /\ Catalog("edited")!RoutersReturn
  /\ subject = "agent" => Loop("agent")!LoopEnds
  /\ Planner("planned")!ExecutorsEnd
  /\ subject = "one_session" => Shell("one_session")!RunsEnd
  /\ subject = "code" => Code("code")!ExecutionsEnd
  /\ subject = "extracted" => Recall("extracted")!MessagesRecalled
  /\ subject = "own" => Connector("own")!RequestsEnd
  /\ Status("watching")!StreamsEnd

=============================================================================
