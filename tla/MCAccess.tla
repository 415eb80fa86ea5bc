------------------------------ MODULE MCAccess ------------------------------
(***************************************************************************)
(* Who may use the gateway and how often, what users share and pay, and    *)
(* the copies the gateway keeps beside its database: keys, limits, sign-in *)
(* and sign-up, assistants, knowledge, assets, recharges, routing states,  *)
(* the translation of protocols and the search indexes. These components   *)
(* share no state, so a behaviour is one of a single component, its        *)
(* subject, while the variables of the others rest.                        *)
(***************************************************************************)
EXTENDS Naturals, Sequences

CONSTANTS
  Keys, Legacy, Callers, FailThreshold,                     \* ApiKeys
  Requests, ApiKeyIds, Limit, Window, Bucket, MaxClock,     \* RateLimits
  Handlers, SessionKeys, MaxPairs, MaxVersion,              \* Sessions
  Emails, Invites, Applicants, Slots,                       \* Registration
  Logins, Users, Grants, Desktops,                          \* DesktopLogin
  Shared, Installers, Reviewers, MaxRevision,               \* AssistantMarket
  Actors, SpecSessions, AutoSessions, MaxFeedback,          \* SpecKnowledge
  Orders, Rates, MaxDays, MaxAdjusts, MaxCrashes            \* Recharges

\* The names of what is absent are no values, and the bounds are numbers.
ASSUME AccessAssumption ==
  /\ "no key" \notin Keys /\ FailThreshold \in Nat \ {0}
  /\ ApiKeyIds \cap {"global", "none", "fallback"} = {}
  /\ Limit \in [ApiKeyIds \cup {"global"} -> Nat \ {0}]
  /\ Window \in Nat \ {0} /\ Bucket \in Nat /\ MaxClock \in Nat
  /\ MaxPairs \in Nat /\ MaxVersion \in Nat
  /\ {"no invite", "no email"} \cap Invites = {} /\ "no email" \notin Emails /\ Slots \in Nat
  /\ "no user" \notin Users
  /\ Rates \subseteq Nat

\* Two requests with one key compete for its place; the two keys have three places
\* of their own and two at the gateway.
Limits == [l \in {"a", "b", "global"} |-> IF l = "a" THEN 1 ELSE 2]

VARIABLES subject,
          keyRow, desk, principal, sigFails, frozen, caller,
          mode, clock, hits, tokens, request,
          version, banned, loginRow, refresh, blacklist, issued, code, handler,
          control, invite, expired, window, inTime, tempInvite, account, applicant,
          login, grantRow, identity, desktop,
          arm, armVersion, entry, writer, reader, affinity, recorder, reports, flushes, crossed,
          stage, path, raw, adapted, canonical, profile, body, reply, answer,
          preset, cached, doc, queue, editor, worker, edits, faults, apart, cursor, pager,
          artifact, chunks, points, collection, run, rerun,
          object, asset, pinned, used, uploader, maker, vanished,
          assistant, submission, overtaken, marketDoc, marketPoint, broker, install, reviewer,
          search,
          candidate, review, candPoint, sysPoint, evaluations, promotions, actor, passed, raced,
          policy, trade, acked, order, txn, quota, payHandler, adjusted, days, crashes

Key == INSTANCE ApiKeys

Limiter == INSTANCE RateLimits

Session == INSTANCE Sessions

Signup == INSTANCE Registration

Desktop == INSTANCE DesktopLogin

\* Reports that race with a router's look-up, and calls of one chat session.
Reports == INSTANCE RoutingArms
  WITH Arms <- {"a"}, Writers <- {"w1", "w2"}, Readers <- {"r"}, Recorders <- {},
       Items <- {"i", "j"}, MaxFeedback <- 2, CoolThreshold <- 2, ExploreLimit <- 2,
       FailureLimit <- 2, MaxFlushes <- 1, version <- armVersion
Affine == INSTANCE RoutingArms
  WITH Arms <- {"a"}, Writers <- {}, Readers <- {}, Recorders <- {"c1", "c2"},
       Items <- {"i", "j"}, MaxFeedback <- 4, CoolThreshold <- 2, ExploreLimit <- 2,
       FailureLimit <- 2, MaxFlushes <- 1, version <- armVersion

Protocol == INSTANCE ChatProtocols
  WITH Shapes <- {<<"user">>, <<"system", "user">>, <<"user", "system", "user">>,
                  <<"user", "assistant", "user">>, <<"system", "user", "user">>},
       MaxBlocks <- 2, MaxTools <- 2

\* The index of presets, pages of a search by two searchers, and artifacts that are
\* embedded again with another model.
Documents == INSTANCE SearchIndexes
  WITH Presets <- {"p"}, Workers <- {"w1", "w2"}, MaxEdits <- 2, MaxFaults <- 1, Hits <- <<>>,
       PageSize <- 1, Artifacts <- {}, Models <- {"m"}, MaxRuns <- 1, handler <- editor
Pages == INSTANCE SearchIndexes
  WITH Presets <- {}, Workers <- {}, MaxEdits <- 0, MaxFaults <- 0,
       Hits <- [x |-> <<1, 2, 3>>, y |-> <<2, 3>>],
       PageSize <- 1, Artifacts <- {}, Models <- {"m"}, MaxRuns <- 1, handler <- editor
Embedded == INSTANCE SearchIndexes
  WITH Presets <- {}, Workers <- {}, MaxEdits <- 0, MaxFaults <- 0, Hits <- <<>>,
       PageSize <- 1, Artifacts <- {"a"}, Models <- {"m", "n"}, MaxRuns <- 2, handler <- editor

\* Objects in buckets, and on the local disk.
Buckets == INSTANCE MediaAssets
  WITH Contents <- {"x"}, ObjectKeys <- {"k1", "k2"}, Uploaders <- {"u1", "u2"},
       Makers <- {"m1"}, Local <- FALSE, MaxVanished <- 1
Disk == INSTANCE MediaAssets
  WITH Contents <- {"x"}, ObjectKeys <- {"k1", "k2"}, Uploaders <- {"u1", "u2"},
       Makers <- {"m1"}, Local <- TRUE, MaxVanished <- 1

Market == INSTANCE AssistantMarket
  WITH Users <- Installers, MaxVersion <- MaxRevision,
       review <- submission, doc <- marketDoc, point <- marketPoint

Knowledge == INSTANCE SpecKnowledge

\* A recharge around midnight, next to an adjustment and a crash.
Paid == INSTANCE Recharges WITH handler <- payHandler

key == <<keyRow, desk, principal, sigFails, frozen, caller>>
rate == <<mode, clock, hits, tokens, request>>
session == <<version, banned, loginRow, refresh, blacklist, issued, code, handler>>
signup == <<control, invite, expired, window, inTime, tempInvite, account, applicant>>
desktops == <<login, grantRow, identity, desktop>>
arms == <<arm, armVersion, entry, writer, reader, affinity, recorder, reports, flushes, crossed>>
chat == <<stage, path, raw, adapted, canonical, profile, body, reply, answer>>
index == <<preset, cached, doc, queue, editor, worker, edits, faults, apart, cursor, pager,
           artifact, chunks, points, collection, run, rerun>>
media == <<object, asset, pinned, used, uploader, maker, vanished>>
market == <<assistant, submission, overtaken, marketDoc, marketPoint, broker, install,
            reviewer, search>>
knowledge == <<candidate, review, candPoint, sysPoint, evaluations, promotions, actor, passed,
               raced>>
money == <<policy, trade, acked, order, txn, quota, payHandler, adjusted, days, crashes>>
shared == <<media, market, knowledge, money>>
accessVars == <<subject, key, rate, session, signup, desktops, arms, chat, index, shared>>

Subjects ==
  {"keys", "limits", "sessions", "sign-up", "desktop", "reports", "affinity", "protocols",
   "presets", "pages", "artifacts", "buckets", "disk", "market", "knowledge", "recharge"}

\* The start of a component that may start in several ways is fixed while it rests.
Init ==
  /\ subject \in Subjects
  /\ Key!Init
  /\ Limiter!Init
  /\ subject # "limits" => mode = "script"
  /\ Session!Init
  /\ Signup!Init
  /\ subject # "sign-up" => control
  /\ Desktop!Init
  /\ IF subject = "affinity" THEN Affine!Init ELSE Reports!Init
  /\ Protocol!Init
  /\ subject # "protocols" => path = "gateway" /\ raw = CHOOSE r \in Protocol!Raws : TRUE
  /\ \/ subject = "pages" /\ Pages!Init
     \/ subject = "artifacts" /\ Embedded!Init
     \/ subject \notin {"pages", "artifacts"} /\ Documents!Init
  /\ Buckets!Init
  /\ Market!Init
  /\ Knowledge!Init
  /\ Paid!Init

KeysMove ==
  /\ subject = "keys" /\ Key!Next
  /\ UNCHANGED <<subject, rate, session, signup, desktops, arms, chat, index, shared>>

RatesMove ==
  /\ subject = "limits" /\ Limiter!Next
  /\ UNCHANGED <<subject, key, session, signup, desktops, arms, chat, index, shared>>

SessionsMove ==
  /\ subject = "sessions" /\ Session!Next
  /\ UNCHANGED <<subject, key, rate, signup, desktops, arms, chat, index, shared>>

SignupMoves ==
  /\ subject = "sign-up" /\ Signup!Next
  /\ UNCHANGED <<subject, key, rate, session, desktops, arms, chat, index, shared>>

DesktopMoves ==
  /\ subject = "desktop" /\ Desktop!Next
  /\ UNCHANGED <<subject, key, rate, session, signup, arms, chat, index, shared>>

ArmsMove ==
  /\ \/ subject = "reports" /\ Reports!Next
     \/ subject = "affinity" /\ Affine!Next
  /\ UNCHANGED <<subject, key, rate, session, signup, desktops, chat, index, shared>>

ProtocolMoves ==
  /\ subject = "protocols" /\ Protocol!Next
  /\ UNCHANGED <<subject, key, rate, session, signup, desktops, arms, index, shared>>

IndexMoves ==
  /\ \/ subject = "presets" /\ Documents!Next
     \/ subject = "pages" /\ Pages!Next
     \/ subject = "artifacts" /\ Embedded!Next
  /\ UNCHANGED <<subject, key, rate, session, signup, desktops, arms, chat, shared>>

MediaMove ==
  /\ \/ subject = "buckets" /\ Buckets!Next
     \/ subject = "disk" /\ Disk!Next
  /\ UNCHANGED <<subject, key, rate, session, signup, desktops, arms, chat, index,
                 market, knowledge, money>>

MarketMoves ==
  /\ subject = "market" /\ Market!Next
  /\ UNCHANGED <<subject, key, rate, session, signup, desktops, arms, chat, index,
                 media, knowledge, money>>

KnowledgeMoves ==
  /\ subject = "knowledge" /\ Knowledge!Next
  /\ UNCHANGED <<subject, key, rate, session, signup, desktops, arms, chat, index,
                 media, market, money>>

MoneyMoves ==
  /\ subject = "recharge" /\ Paid!Next
  /\ UNCHANGED <<subject, key, rate, session, signup, desktops, arms, chat, index,
                 media, market, knowledge>>

Next ==
  \/ KeysMove \/ RatesMove \/ SessionsMove \/ SignupMoves \/ DesktopMoves \/ ArmsMove
  \/ ProtocolMoves \/ IndexMoves \/ MediaMove \/ MarketMoves \/ KnowledgeMoves \/ MoneyMoves

Spec == Init /\ [][Next]_accessVars

-----------------------------------------------------------------------------
\* Every row, counter, token and cached value of these components keeps its type.
TypesHold ==
  CASE subject = "keys" -> Key!TypeOK
    [] subject = "limits" -> Limiter!TypeOK
    [] subject = "sessions" -> Session!TypeOK
    [] subject = "sign-up" -> Signup!TypeOK
    [] subject = "desktop" -> Desktop!TypeOK
    [] subject = "reports" -> Reports!TypeOK
    [] subject = "affinity" -> Affine!TypeOK
    [] subject = "protocols" -> Protocol!TypeOK
    [] subject = "presets" -> Documents!TypeOK
    [] subject = "pages" -> Pages!TypeOK
    [] subject = "artifacts" -> Embedded!TypeOK
    [] subject = "buckets" -> Buckets!TypeOK
    [] subject = "disk" -> Disk!TypeOK
    [] subject = "market" -> Market!TypeOK
    [] subject = "knowledge" -> Knowledge!TypeOK
    [] subject = "recharge" -> Paid!TypeOK

\* Nobody gets in on what was spent, revoked or used up, whatever was under way when it
\* was: no window of the rate limiter admits more than its limit and a refused request
\* uses none up (WindowsHold), tokens of an older version or a revoked session are
\* refused (RevokedIsRefused), a code admits one account (InviteAdmitsOne), a grant signs
\* in once (SpentGrantRefused), and only an account the provider vouched for
\* (SignedInIsKnown). Likewise a search of the market finds what is open to the user
\* (FoundIsOpen) and knowledge reaches the system's only past the critic
\* (SystemPassedCritic).
AdmittedRightly ==
  /\ subject = "limits" => Limiter!WindowsHold
  /\ subject = "sessions" => Session!RevokedIsRefused
  /\ subject = "sign-up" => Signup!InviteAdmitsOne
  /\ subject = "desktop" => Desktop!SpentGrantRefused /\ Desktop!SignedInIsKnown
  /\ subject = "market" => Market!FoundIsOpen
  /\ subject = "knowledge" => Knowledge!SystemPassedCritic

\* No step takes a withdrawal back: a key that was revoked, has expired or was deleted
\* admits no call again (WithdrawnForGood), no rotation that had read the session before
\* revives it (RevocationIsFinal), and a used or revoked invitation code stays so, though
\* a failing sign-up returns what it reserved (CodesEnd). An archived assistant stays out
\* (ArchivedStaysOut) and only a pending review is decided (VerdictFollowsSubmission); a
\* settled order stays settled, whatever notification comes (SettledStays).
DecisionsLast ==
  /\ Key!WithdrawnForGood
  /\ Session!RevocationIsFinal
  /\ Signup!CodesEnd
  /\ Market!ArchivedStaysOut
  /\ Market!VerdictFollowsSubmission
  /\ Paid!SettledStays

\* What is kept beside the rows agrees with them, however writers, readers and tasks
\* interleave: the cached state of a routing arm is the current one (NoOldEntry) and its
\* counts agree (CountsAgree), an affinity is given up at its limits (LimitsAreKept), the
\* presets' documents follow the rows (DocumentsFollowRows), an indexed artifact has its
\* points (ChunksHavePoints), a row of an asset that is in use stays (RowsKept) and a
\* confirmed upload is served (AnsweredServes), status, review and points of a piece of
\* knowledge agree (PlacesAgree), and so do a balance and the books (BalanceIsBooks). What
\* a client says reaches the upstream once (SaidOnce),
\* and what the upstream answers reaches the client (AnswerKept).
CopiesAgree ==
  CASE subject = "reports" -> Reports!NoOldEntry /\ Reports!CountsAgree
    [] subject = "affinity" -> Affine!LimitsAreKept
    [] subject = "protocols" -> Protocol!SaidOnce /\ Protocol!AnswerKept
    [] subject = "presets" -> Documents!DocumentsFollowRows
    [] subject = "artifacts" -> Embedded!ChunksHavePoints
    [] subject = "buckets" -> Buckets!RowsKept /\ Buckets!AnsweredServes
    [] subject = "disk" -> Disk!RowsKept /\ Disk!AnsweredServes
    [] subject = "knowledge" -> Knowledge!PlacesAgree
    [] subject = "recharge" -> Paid!BalanceIsBooks
    [] OTHER -> TRUE

=============================================================================
