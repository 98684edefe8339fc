----------------------------- MODULE Dashboard -----------------------------
(***************************************************************************)
(* The page's requests to its own node: searches, settings, connections to *)
(* peers, the statistics of a peer and the restart (App.tsx, Settings.tsx, *)
(* PeerDetail.tsx; Peer.ts).                                               *)
(*                                                                         *)
(* Requests are numbered in the order in which the page makes them.  A     *)
(* configuration is the number of the save that made it, 0 the first one.  *)
(* The two directions of the connection are queues, which a break empties. *)
(* React's state updates are taken as immediate.                           *)
(***************************************************************************)
EXTENDS Naturals, FiniteSets, Sequences

CONSTANTS
  Host,         \* hosts that the user connects to
  Subject,      \* peers whose page the user opens
  None,
  MaxRequests,  \* how many requests the page makes
  MaxMishaps,   \* breaks, crashes, restarts and failures of inbound peers
  MaxAttempts   \* MAX_CONNECTION_ATTEMPTS

ASSUME DashboardAssumption ==
  /\ None \notin Host \cup Subject
  /\ MaxRequests \in Nat /\ MaxMishaps \in Nat /\ MaxAttempts \in Nat \ {0}

VARIABLES
  requests,       \* what the page has asked for, with the outcome
  ws,             \* wsState: "connecting", "open" or "closed"
  toNode, toPage, \* what is on the way
  work,           \* the searches and dials that the node is busy with
  config,         \* the node's settings
  stored,         \* the settings in its database
  exiting,        \* a restart was asked for; the process ends in 500 ms
  shown,          \* runtimeConfig
  configLoading,  \* runtimeConfigLoading
  edited,         \* the draft of the settings differs from the settings
  saving,         \* the save that the settings tab waits for, or 0
  purging,        \* the purge that it waits for, or 0
  restarting,     \* restartPendingReconnect
  sawDisconnect,  \* restartSawDisconnectRef
  loading,        \* searchLoading
  mount,          \* the request that opened the page of a peer, 0 if none is
  data,           \* the peer whose statistics that page shows
  mishaps

nodeVars     == <<work, config, stored, exiting>>
settingsVars == <<shown, configLoading, edited>>
restartVars  == <<restarting, sawDisconnect>>
peerVars     == <<mount, data>>
vars == <<requests, ws, toNode, toPage, nodeVars, settingsVars, saving, purging,
          restartVars, loading, peerVars, mishaps>>

Kind == {"search", "save", "purge", "connect", "stats"}
Number == 0..MaxRequests
Request == [kind : Kind, about : Host \cup Subject \cup {None}, nonce : Number,
            state : {"pending", "done", "failed", "gone"}, at : Number]
ToNode == [kind : Kind \cup {"get", "restart"}, n : Number]
ToPage ==
  [type : {"response", "config_error", "peer_cache_purged", "peer_stats"}, n : Number]
  \cup [type : {"runtime_config_updated"}, n : Number, config : Number]
  \cup [type : {"runtime_config"}, config : Number]
  \cup [type : {"connection_error"}, n : Number, host : Host]
  \cup [type : {"refresh_ui"}]

TypeOK ==
  /\ requests \in Seq(Request) /\ Len(requests) <= MaxRequests
  /\ ws \in {"connecting", "open", "closed"}
  /\ toNode \in Seq(ToNode) /\ toPage \in Seq(ToPage)
  /\ work \subseteq DOMAIN requests
  /\ config \in Number /\ stored \in Number /\ exiting \in BOOLEAN
  /\ shown \in Number \cup {None} /\ configLoading \in BOOLEAN /\ edited \in BOOLEAN
  /\ saving \in Number /\ purging \in Number
  /\ restarting \in BOOLEAN /\ sawDisconnect \in BOOLEAN /\ loading \in BOOLEAN
  /\ mount \in Number /\ data \in Subject \cup {None}
  /\ mishaps \in 0..MaxMishaps

Init ==
  /\ requests = <<>> /\ ws = "connecting" /\ toNode = <<>> /\ toPage = <<>>
  /\ work = {} /\ config = 0 /\ stored = 0 /\ exiting = FALSE
  /\ shown = None /\ configLoading = TRUE /\ edited = FALSE
  /\ saving = 0 /\ purging = 0
  /\ restarting = FALSE /\ sawDisconnect = FALSE /\ loading = FALSE
  /\ mount = 0 /\ data = None /\ mishaps = 0

-----------------------------------------------------------------------------
(* The page's requests *)

Pending(n) == n \in DOMAIN requests /\ requests[n].state = "pending"
PendingOf(kind) == {n \in DOMAIN requests : Pending(n) /\ requests[n].kind = kind}

Newest == Len(requests) + 1

\* The nonces of a peer's page start anew with each page, at the same number.
OpenedStats == {n \in DOMAIN requests : mount # 0 /\ n >= mount /\ requests[n].kind = "stats"}

\* Mutant of StatsNonce: the counter is read and not raised.
StatsNonceAgain == 0

StatsNonce == Cardinality(OpenedStats)

Made(kind, about, nonce) ==
  /\ Newest <= MaxRequests
  /\ requests' = Append(requests, [kind |-> kind, about |-> about, nonce |-> nonce,
                                   state |-> "pending", at |-> 0])

Sends(kind, n) == toNode' = Append(toNode, [kind |-> kind, n |-> n])

\* The button is disabled during a search; the Enter key and a choice from the
\* history are not.
DoSearch ==
  /\ ws = "open"
  /\ Made("search", None, Newest) /\ Sends("search", Newest)
  /\ loading' = TRUE
  /\ UNCHANGED <<ws, toPage, nodeVars, settingsVars, saving, purging, restartVars,
                 peerVars, mishaps>>

\* The user changes a field that is not locked.
Edit ==
  /\ shown # None /\ ~ edited
  /\ edited' = TRUE
  /\ UNCHANGED <<requests, ws, toNode, toPage, nodeVars, shown, configLoading, saving,
                 purging, restartVars, loading, peerVars, mishaps>>

Save ==
  /\ ws = "open" /\ edited /\ ~ configLoading /\ saving = 0
  /\ Made("save", None, Newest) /\ Sends("save", Newest)
  /\ saving' = Newest
  /\ UNCHANGED <<ws, toPage, nodeVars, settingsVars, purging, restartVars, loading,
                 peerVars, mishaps>>

Purge ==
  /\ ws = "open" /\ shown # None /\ ~ configLoading /\ saving = 0 /\ purging = 0
  /\ Made("purge", None, Newest) /\ Sends("purge", Newest)
  /\ purging' = Newest
  /\ UNCHANGED <<ws, toPage, nodeVars, settingsVars, saving, restartVars, loading,
                 peerVars, mishaps>>

Refresh ==
  /\ ws = "open" /\ ~ configLoading /\ saving = 0
  /\ Sends("get", 0)
  /\ configLoading' = TRUE
  /\ UNCHANGED <<requests, ws, toPage, nodeVars, shown, edited, saving, purging,
                 restartVars, loading, peerVars, mishaps>>

\* Another tab is chosen: the draft and the locks of the buttons are forgotten.
LeaveSettings ==
  /\ edited \/ saving # 0 \/ purging # 0
  /\ edited' = FALSE /\ saving' = 0 /\ purging' = 0
  /\ UNCHANGED <<requests, ws, toNode, toPage, nodeVars, shown, configLoading,
                 restartVars, loading, peerVars, mishaps>>

RequestRestart ==
  /\ ws = "open" /\ ~ restarting /\ mishaps < MaxMishaps
  /\ Sends("restart", 0)
  /\ restarting' = TRUE /\ sawDisconnect' = FALSE
  /\ mishaps' = mishaps + 1
  /\ UNCHANGED <<requests, ws, toPage, nodeVars, settingsVars, saving, purging, loading,
                 peerVars>>

\* The attempts that do not fit into the list are no longer looked at.
Sliced(attempts) ==
  [n \in DOMAIN attempts |->
    IF /\ attempts[n].kind = "connect" /\ attempts[n].state = "pending"
       /\ Cardinality({k \in DOMAIN attempts : k > n /\ attempts[k].kind = "connect"})
            >= MaxAttempts
    THEN [attempts[n] EXCEPT !.state = "gone"] ELSE attempts[n]]

RequestConnect(h) ==
  /\ ws = "open" /\ Newest <= MaxRequests
  /\ requests' = Sliced(Append(requests, [kind |-> "connect", about |-> h,
                                 nonce |-> Newest, state |-> "pending", at |-> 0]))
  /\ Sends("connect", Newest)
  /\ UNCHANGED <<ws, toPage, nodeVars, settingsVars, saving, purging, restartVars,
                 loading, peerVars, mishaps>>

\* The page of a peer is opened, or the one that is open changes to p.  On a
\* closed socket send() does nothing.
OpenPeer(p) ==
  /\ ws # "connecting"
  /\ Made("stats", p, StatsNonce)
  /\ mount' = IF mount = 0 THEN Newest ELSE mount
  /\ data' = None
  /\ IF ws = "open" THEN Sends("stats", Newest) ELSE UNCHANGED toNode
  /\ UNCHANGED <<ws, toPage, nodeVars, settingsVars, saving, purging, restartVars,
                 loading, mishaps>>

Forgotten(n) == [requests[n] EXCEPT !.state = IF Pending(n) THEN "gone" ELSE @]

ClosePeer ==
  /\ mount # 0
  /\ requests' = [n \in DOMAIN requests |->
                    IF n \in OpenedStats THEN Forgotten(n) ELSE requests[n]]
  /\ mount' = 0 /\ data' = None
  /\ UNCHANGED <<ws, toNode, toPage, nodeVars, settingsVars, saving, purging,
                 restartVars, loading, mishaps>>

-----------------------------------------------------------------------------
(* The node *)

Tell(packets) == toPage' = toPage \o packets

Takes(kinds) ==
  /\ toNode # <<>> /\ Head(toNode).kind \in kinds
  /\ toNode' = Tail(toNode)

\* A search and a dial take their time.
TakeWork ==
  /\ Takes({"search", "connect"})
  /\ work' = work \cup {Head(toNode).n}
  /\ UNCHANGED <<requests, ws, toPage, config, stored, exiting, settingsVars, saving,
                 purging, restartVars, loading, peerVars, mishaps>>

Answered(type, n) == <<[type |-> type, n |-> n]>>

\* The patch is refused; or it is applied, and its write succeeds or throws.
UpdateConfig(n) ==
  \/ UNCHANGED <<config, stored>> /\ Tell(Answered("config_error", n))
  \/ /\ config' = n /\ stored' = n
     /\ Tell(<<[type |-> "runtime_config_updated", n |-> n, config |-> n]>>)
  \/ config' = n /\ UNCHANGED stored /\ Tell(Answered("config_error", n))

TakeSave ==
  /\ Takes({"save"})
  /\ UpdateConfig(Head(toNode).n)
  /\ UNCHANGED <<requests, ws, work, exiting, settingsVars, saving, purging, restartVars,
                 loading, peerVars, mishaps>>

Snapshot == <<[type |-> "runtime_config", config |-> config]>>

TakeQuick ==
  /\ Takes({"get", "purge", "stats"})
  /\ Tell(CASE Head(toNode).kind = "get"   -> Snapshot
            [] Head(toNode).kind = "purge" -> Answered("peer_cache_purged", Head(toNode).n)
            [] Head(toNode).kind = "stats" -> Answered("peer_stats", Head(toNode).n))
  /\ UNCHANGED <<requests, ws, nodeVars, settingsVars, saving, purging, restartVars,
                 loading, peerVars, mishaps>>

TakeRestart ==
  /\ Takes({"restart"})
  /\ exiting' = TRUE
  /\ UNCHANGED <<requests, ws, toPage, work, config, stored, settingsVars, saving,
                 purging, restartVars, loading, peerVars, mishaps>>

ConnectionError(n, h) == <<[type |-> "connection_error", n |-> n, host |-> h]>>

NodeAnswers(n) ==
  /\ n \in work
  /\ work' = work \ {n}
  /\ \/ requests[n].kind = "search" /\ Tell(Answered("response", n))
     \/ requests[n].kind = "connect" /\ Tell(<<[type |-> "refresh_ui"]>>)
     \/ requests[n].kind = "connect" /\ Tell(ConnectionError(n, requests[n].about))
  /\ UNCHANGED <<requests, ws, toNode, config, stored, exiting, settingsVars, saving,
                 purging, restartVars, loading, peerVars, mishaps>>

\* A peer that connects is refused; the nonce is one of the node's own.
InboundRefused(h) ==
  /\ ws = "open" /\ mishaps < MaxMishaps
  /\ Tell(ConnectionError(0, h))
  /\ mishaps' = mishaps + 1
  /\ UNCHANGED <<requests, ws, toNode, nodeVars, settingsVars, saving, purging,
                 restartVars, loading, peerVars>>

-----------------------------------------------------------------------------
(* The connection *)

Connect ==
  /\ ws = "closed"
  /\ ws' = "connecting"
  /\ UNCHANGED <<requests, toNode, toPage, nodeVars, settingsVars, saving, purging,
                 restartVars, loading, peerVars, mishaps>>

\* The node sends its settings to a page that connects.
Open ==
  /\ ws = "connecting"
  /\ ws' = "open" /\ configLoading' = TRUE
  /\ Tell(Snapshot)
  /\ restarting' = (restarting /\ ~ sawDisconnect) /\ sawDisconnect' = FALSE
  /\ UNCHANGED <<requests, toNode, nodeVars, shown, edited, saving, purging, loading,
                 peerVars, mishaps>>

OpenFails ==
  /\ ws = "connecting" /\ mishaps < MaxMishaps
  /\ ws' = "closed" /\ mishaps' = mishaps + 1
  /\ UNCHANGED <<requests, toNode, toPage, nodeVars, settingsVars, saving, purging,
                 restartVars, loading, peerVars>>

\* The answers to what the node is busy with go to the old connection.
Broken ==
  /\ ws' = IF ws = "open" THEN "closed" ELSE ws
  /\ toNode' = <<>> /\ toPage' = <<>> /\ work' = {}
  /\ sawDisconnect' = (sawDisconnect \/ restarting)

Break ==
  /\ ws = "open" /\ mishaps < MaxMishaps
  /\ Broken
  /\ mishaps' = mishaps + 1
  /\ UNCHANGED <<requests, config, stored, exiting, settingsVars, saving, purging,
                 restarting, loading, peerVars>>

NodeRestarts ==
  /\ Broken
  /\ config' = stored /\ exiting' = FALSE
  /\ UNCHANGED <<requests, stored, settingsVars, saving, purging, restarting, loading,
                 peerVars>>

NodeExits   == exiting /\ NodeRestarts /\ UNCHANGED mishaps
NodeCrashes == ~ exiting /\ mishaps < MaxMishaps /\ NodeRestarts /\ mishaps' = mishaps + 1

-----------------------------------------------------------------------------
(* The answers *)

Receives(type) ==
  /\ toPage # <<>> /\ Head(toPage).type = type
  /\ toPage' = Tail(toPage)
  /\ UNCHANGED <<ws, toNode, nodeVars, restartVars, mount, mishaps>>

Settled(n, state) ==
  requests' = [requests EXCEPT ![n].state = state, ![n].at = Len(requests)]

\* Mutant of SearchEnds: only an answer ends the loading.
SearchEndsByAnswer(n, state) ==
  loading' = IF requests[n].kind = "search" /\ state = "done" THEN FALSE ELSE loading

\* An answer and a timeout alike end the loading, whichever search is the last.
SearchEnds(n, state) ==
  loading' = IF requests[n].kind = "search" THEN FALSE ELSE loading

\* The request is answered, or its timer fires.
Settle(n, state) ==
  /\ Settled(n, state)
  /\ SearchEnds(n, state)
  /\ saving'  = IF saving = n THEN 0 ELSE saving
  /\ purging' = IF purging = n THEN 0 ELSE purging

Ignore == UNCHANGED <<requests, loading, saving, purging>>

\* An answer counts if its request is still waited for.
OnAnswer(type, kind, state) ==
  /\ Receives(type)
  /\ LET n == Head(toPage).n IN
       IF n \in PendingOf(kind) THEN Settle(n, state) ELSE Ignore
  /\ UNCHANGED <<settingsVars, data>>

OnResponse    == OnAnswer("response", "search", "done")
OnConfigError == OnAnswer("config_error", "save", "failed")
OnPurged      == OnAnswer("peer_cache_purged", "purge", "done")

\* New settings reset the draft.
Shows(c) == shown' = c /\ edited' = FALSE

\* Mutant of OnRuntimeConfig: settings that are shown already are kept.
OnRuntimeConfigOnce ==
  /\ Receives("runtime_config")
  /\ IF shown = None THEN Shows(Head(toPage).config) ELSE UNCHANGED <<shown, edited>>
  /\ configLoading' = FALSE
  /\ Ignore /\ UNCHANGED data

OnRuntimeConfig ==
  /\ Receives("runtime_config")
  /\ Shows(Head(toPage).config)
  /\ configLoading' = FALSE
  /\ Ignore /\ UNCHANGED data

OnConfigUpdated ==
  /\ Receives("runtime_config_updated")
  /\ LET n == Head(toPage).n IN
       IF n \in PendingOf("save") THEN Settle(n, "done") /\ Shows(Head(toPage).config)
                                  ELSE Ignore /\ UNCHANGED <<shown, edited>>
  /\ UNCHANGED <<configLoading, data>>

\* The answer is taken by the request of the page of a peer that has its nonce.
Claimants(n) == {k \in OpenedStats : Pending(k) /\ requests[k].nonce = requests[n].nonce}

OnPeerStats ==
  /\ Receives("peer_stats")
  /\ LET n == Head(toPage).n IN
       IF Claimants(n) = {} THEN Ignore /\ UNCHANGED data
       ELSE /\ Settle(CHOOSE k \in Claimants(n) : \A j \in Claimants(n) : j <= k, "done")
            /\ data' = requests[n].about
  /\ UNCHANGED settingsVars

\* An error whose request is not waited for is taken for the newest attempt to
\* the same host.
Blamed(n, h) ==
  LET same == {k \in PendingOf("connect") : requests[k].about = h} IN
  IF n \in PendingOf("connect") THEN {n}
  ELSE {k \in same : \A j \in same : j <= k}

OnConnectionError ==
  /\ Receives("connection_error")
  /\ LET blamed == Blamed(Head(toPage).n, Head(toPage).host) IN
       IF blamed = {} THEN Ignore
       ELSE \E k \in blamed : Settle(k, "failed")
  /\ UNCHANGED <<settingsVars, data>>

\* window.location.reload()
OnRefreshUi ==
  /\ toPage # <<>> /\ Head(toPage).type = "refresh_ui"
  /\ requests' = [n \in DOMAIN requests |-> Forgotten(n)]
  /\ ws' = "connecting" /\ toNode' = <<>> /\ toPage' = <<>> /\ work' = {}
  /\ shown' = None /\ configLoading' = TRUE /\ edited' = FALSE
  /\ saving' = 0 /\ purging' = 0
  /\ restarting' = FALSE /\ sawDisconnect' = FALSE /\ loading' = FALSE
  /\ mount' = 0 /\ data' = None
  /\ UNCHANGED <<config, stored, exiting, mishaps>>

\* Mutant of TimesOut: nothing ends an attempt but its answer.
TimesOutButAttempts(n) ==
  /\ Pending(n) /\ requests[n].kind # "connect"
  /\ Settle(n, "failed")
  /\ UNCHANGED <<ws, toNode, toPage, nodeVars, settingsVars, restartVars, peerVars, mishaps>>

\* 30 s for a search or an attempt, 10 s for the others
TimesOut(n) ==
  /\ Pending(n)
  /\ Settle(n, "failed")
  /\ UNCHANGED <<ws, toNode, toPage, nodeVars, settingsVars, restartVars, peerVars, mishaps>>

-----------------------------------------------------------------------------
User ==
  \/ DoSearch \/ Edit \/ Save \/ Purge \/ Refresh \/ LeaveSettings \/ RequestRestart
  \/ \E h \in Host : RequestConnect(h)
  \/ \E p \in Subject : OpenPeer(p)
  \/ ClosePeer

NodeTakes == TakeWork \/ TakeSave \/ TakeQuick \/ TakeRestart

PageReceives ==
  \/ OnResponse \/ OnRuntimeConfig \/ OnConfigUpdated \/ OnConfigError \/ OnPurged
  \/ OnPeerStats \/ OnConnectionError \/ OnRefreshUi

TimerFires == \E n \in 1..MaxRequests : TimesOut(n)

Next ==
  \/ User \/ NodeTakes \/ PageReceives \/ TimerFires
  \/ \E n \in 1..MaxRequests : NodeAnswers(n)
  \/ \E h \in Host : InboundRefused(h)
  \/ Connect \/ Open \/ OpenFails \/ Break \/ NodeExits \/ NodeCrashes

\* Browser and node run their timers, deliver packets and handle them; the page
\* tries to connect again after 5 s, and the node ends 500 ms after it was asked.
Fairness ==
  /\ WF_vars(TimerFires)
  /\ WF_vars(NodeTakes \/ PageReceives)
  /\ WF_vars(Connect \/ Open)
  /\ WF_vars(NodeExits)

Spec == Init /\ [][Next]_vars /\ Fairness

-----------------------------------------------------------------------------
(* Properties *)

InFlight(types) == \E i \in DOMAIN toPage : toPage[i].type \in types

\* What the page shows of the settings is what the node has, as soon as no
\* answer with settings is on the way, unless the page was told that the save
\* which made the node's settings failed.
ShownConfigIsCurrent ==
  ws = "open" /\ ~ InFlight({"runtime_config", "runtime_config_updated", "config_error"})
    => \/ shown = config
       \/ config # 0 /\ requests[config].state = "failed"

\* The page shows that it is searching only while a search is waited for; and it
\* hides that it waits for one only after another search ended in the meantime.
SpinnerIsHonest ==
  /\ loading => PendingOf("search") # {}
  /\ \A n \in PendingOf("search") : ~ loading =>
       \E k \in DOMAIN requests : /\ requests[k].kind = "search"
                                  /\ requests[k].state \in {"done", "failed"}
                                  /\ requests[k].at >= n

Selected == CHOOSE n \in OpenedStats : \A k \in OpenedStats : k <= n

\* The page of a peer shows the statistics of another one only until its own
\* request is answered; or if, before the page was opened, a request ended without
\* its answer that has the nonce of the page's own, as each page counts its requests
\* anew (PeerDetail).
PeerStatsAreItsOwn ==
  data # None =>
    \/ data = requests[Selected].about
    \/ requests[Selected].state # "done"
    \/ \E k \in 1..(mount - 1) :
         /\ requests[k].kind = "stats" /\ requests[k].state \in {"gone", "failed"}
         /\ requests[k].nonce = requests[Selected].nonce

Quiet ==
  /\ \A n \in 1..MaxRequests : ~ Pending(n)
  /\ ~ loading /\ ~ configLoading /\ ~ restarting /\ saving = 0 /\ purging = 0

\* Whatever breaks, the page never waits for ever: every request ends in an
\* answer, a failure or a reload, and every indicator goes out.
PageSettles == []<>Quiet
=============================================================================
