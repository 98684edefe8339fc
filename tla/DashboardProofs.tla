--------------------------- MODULE DashboardProofs ---------------------------
(***************************************************************************)
(* Proofs about Dashboard, for any hosts, peers and numbers of requests:   *)
(* types, and what the page shows.                                         *)
(***************************************************************************)
EXTENDS Dashboard, FiniteSetTheorems, SequenceTheorems, TLAPS

\* Packets that name the request they belong to
Asks(packet) == packet.kind \notin {"get", "restart"}
Replies == {"runtime_config_updated", "config_error", "peer_stats"}

\* The connection's queues are empty, and the node is busy with nothing, unless
\* the connection is open.
ClosedIsEmpty == ws # "open" => toNode = <<>> /\ toPage = <<>> /\ work = {}

\* What is on the way belongs to requests that were made.
PacketsAreOwned ==
  /\ \A i \in DOMAIN toNode : Asks(toNode[i]) =>
       toNode[i].n \in DOMAIN requests /\ requests[toNode[i].n].kind = toNode[i].kind
  /\ \A i \in DOMAIN toPage : toPage[i].type \in Replies =>
       /\ toPage[i].n \in DOMAIN requests
       /\ requests[toPage[i].n].kind = IF toPage[i].type = "peer_stats" THEN "stats" ELSE "save"
       /\ toPage[i].type = "runtime_config_updated" => toPage[i].config = toPage[i].n

\* What a request is about depends on its kind.
SubjectsFit ==
  \A n \in DOMAIN requests :
    /\ requests[n].kind = "connect" => requests[n].about \in Host
    /\ requests[n].kind = "stats" => requests[n].about \in Subject

\* Both queues keep the order in which the requests were made.
PacketsAreOrdered ==
  /\ \A i, j \in DOMAIN toNode :
       i < j /\ Asks(toNode[i]) /\ Asks(toNode[j]) => toNode[i].n < toNode[j].n
  /\ \A i, j \in DOMAIN toPage :
       i < j /\ toPage[i].type \in Replies /\ toPage[j].type \in Replies
         => toPage[i].n < toPage[j].n
  /\ \A i \in DOMAIN toPage, j \in DOMAIN toNode :
       toPage[i].type \in Replies /\ Asks(toNode[j]) => toPage[i].n < toNode[j].n

\* A configuration is the first one or that of a save; and a save whose answer
\* can still come is waited for or was given up.
SavesAreOpen ==
  /\ \A c \in {config, stored} : c # 0 => c \in DOMAIN requests /\ requests[c].kind = "save"
  /\ \A i \in DOMAIN toNode : toNode[i].kind = "save" =>
       requests[toNode[i].n].state \in {"pending", "failed"}
  /\ \A i \in DOMAIN toPage : toPage[i].type \in {"runtime_config_updated", "config_error"} =>
       requests[toPage[i].n].state \in {"pending", "failed"}

\* Packets with which the page comes to know that c are the settings of the node
Covers(packet, c) ==
  \/ packet.type = "runtime_config" /\ packet.config = c
  \/ packet.type \in {"runtime_config_updated", "config_error"} /\ packet.n = c

\* The page knows the settings, or knows that their save failed.
Known == shown = config \/ (config # 0 /\ requests[config].state = "failed")

\* The page knows the settings or is about to; and no older settings come after.
SettingsCatchUp ==
  ws = "open" =>
    /\ Known \/ \E j \in DOMAIN toPage : Covers(toPage[j], config)
    /\ \A i \in DOMAIN toPage :
         toPage[i].type \in {"runtime_config", "runtime_config_updated"}
         /\ toPage[i].config # config
           => \E j \in DOMAIN toPage : i < j /\ Covers(toPage[j], config)

\* Within the page of a peer, nonces tell the requests apart.
NoncesAreDistinct ==
  /\ \A k \in OpenedStats : requests[k].nonce < Cardinality(OpenedStats)
  /\ \A j, k \in OpenedStats : requests[j].nonce = requests[k].nonce => j = k

\* Only the page that is open waits for statistics, and has asked for some.
StatsOfOpenPage ==
  /\ mount = 0 => data = None
  /\ mount # 0 => mount \in OpenedStats /\ \E k \in OpenedStats : \A j \in OpenedStats : j <= k
  /\ \A k \in DOMAIN requests : requests[k].kind = "stats" /\ Pending(k) => k \in OpenedStats

\* A request before k that ended without its answer and has the same nonce
Overtaken(k) ==
  \E j \in DOMAIN requests :
    /\ j < k /\ requests[j].kind = "stats" /\ requests[j].state \in {"gone", "failed"}
    /\ requests[j].nonce = requests[k].nonce

\* What is still asked for, or answered and not received
Awaited(k) ==
  \/ \E i \in DOMAIN toNode : toNode[i].kind = "stats" /\ toNode[i].n = k
  \/ \E i \in DOMAIN toPage : toPage[i].type = "peer_stats" /\ toPage[i].n = k

\* A request whose answer can still come is done only if it was overtaken; and
\* the answer of the page's last request is the last one.
StatsAreOvertaken ==
  /\ \A k \in DOMAIN requests :
       requests[k].kind = "stats" /\ requests[k].state = "done" /\ Awaited(k) => Overtaken(k)
  /\ \A k \in OpenedStats :
       (\A j \in OpenedStats : j <= k) /\ requests[k].state = "done" =>
         \/ Overtaken(k)
         \/ data = requests[k].about /\ \A j \in DOMAIN requests : ~ Awaited(j)

IInv ==
  /\ TypeOK /\ ClosedIsEmpty
  /\ PacketsAreOwned /\ SubjectsFit /\ PacketsAreOrdered
  /\ SavesAreOpen /\ SettingsCatchUp /\ SpinnerIsHonest
  /\ NoncesAreDistinct /\ StatsOfOpenPage /\ StatsAreOvertaken

-----------------------------------------------------------------------------
(* Types. *)

USE DashboardAssumption

\* What an action does to a queue
LEMMA QueueTypes ==
  ASSUME NEW S, NEW q \in Seq(S)
  PROVE  /\ <<>> \in Seq(S)
         /\ \A x \in S : Append(q, x) \in Seq(S) /\ q \o <<x>> = Append(q, x)
         /\ q # <<>> => Tail(q) \in Seq(S) /\ Head(q) \in S
OBVIOUS

LEMMA RequestTypes ==
  ASSUME TypeOK
  PROVE  /\ requests \in Seq(Request) /\ Len(requests) \in Number
         /\ DOMAIN requests = 1..Len(requests) /\ DOMAIN requests \subseteq Number
         /\ Newest <= MaxRequests => Newest \in Number
<1>1. Len(requests) \in Nat /\ DOMAIN requests = 1..Len(requests) BY LenProperties DEF TypeOK
<1> QED BY <1>1 DEF TypeOK, Number, Newest

LEMMA SettledTypes ==
  ASSUME TypeOK, NEW n \in DOMAIN requests, NEW state \in {"done", "failed"}, Settle(n, state)
  PROVE  requests' \in Seq(Request) /\ Len(requests') = Len(requests)
<1>1. Len(requests) \in Number /\ requests \in [1..Len(requests) -> Request] /\ Len(requests) \in Nat
  BY RequestTypes, LenProperties DEF TypeOK
<1>2. requests' = [requests EXCEPT ![n].state = state, ![n].at = Len(requests)]
  BY DEF Settle, Settled
<1>3. requests' \in [1..Len(requests) -> Request]
  BY <1>1, <1>2 DEF Request
<1> QED BY <1>1, <1>3, SeqDef, LenProperties

\* A packet for the other side, by its kind
LEMMA PacketTypes ==
  ASSUME NEW n \in Number
  PROVE  /\ \A kind \in Kind \cup {"get", "restart"} : [kind |-> kind, n |-> n] \in ToNode
         /\ \A type \in {"response", "config_error", "peer_cache_purged", "peer_stats"} :
              [type |-> type, n |-> n] \in ToPage
         /\ \A c \in Number :
              /\ [type |-> "runtime_config_updated", n |-> n, config |-> c] \in ToPage
              /\ [type |-> "runtime_config", config |-> c] \in ToPage
         /\ \A h \in Host : [type |-> "connection_error", n |-> n, host |-> h] \in ToPage
         /\ [type |-> "refresh_ui"] \in ToPage
BY DEF ToNode, ToPage

LEMMA MadeTypes ==
  ASSUME TypeOK, NEW kind \in Kind, NEW about \in Host \cup Subject \cup {None},
         NEW nonce \in Number, Made(kind, about, nonce)
  PROVE  /\ requests' \in Seq(Request) /\ Len(requests') <= MaxRequests
         /\ DOMAIN requests \subseteq DOMAIN requests'
         /\ Newest \in Number
<1>1. [kind |-> kind, about |-> about, nonce |-> nonce, state |-> "pending", at |-> 0] \in Request
  BY DEF Request, Number
<1>2. /\ requests' \in Seq(Request) /\ Len(requests') = Len(requests) + 1
      /\ Len(requests) \in Nat /\ DOMAIN requests = 1..Len(requests)
      /\ DOMAIN requests' = 1..Len(requests')
  BY <1>1, RequestTypes, AppendProperties, LenProperties DEF Made, TypeOK
<1> QED BY <1>2, RequestTypes DEF Made, Newest

LEMMA StatsNonceType ==
  ASSUME TypeOK
  PROVE  IsFiniteSet(OpenedStats) /\ StatsNonce \in Nat /\ StatsNonce <= Len(requests)
<1>1. OpenedStats \in SUBSET (1..Len(requests)) /\ Len(requests) \in Nat
  BY RequestTypes DEF OpenedStats, Number
<1>2. IsFiniteSet(1..Len(requests)) /\ Cardinality(1..Len(requests)) = Len(requests)
  BY <1>1, FS_Interval
<1> QED BY <1>1, <1>2, FS_Subset, FS_CardinalityType DEF StatsNonce

LEMMA UserTypes ==
  ASSUME TypeOK, User
  PROVE  TypeOK'
<1> USE DEF nodeVars, settingsVars, restartVars, peerVars
<1>1. /\ 0 \in Number /\ TRUE \in BOOLEAN /\ FALSE \in BOOLEAN
      /\ mishaps < MaxMishaps => mishaps + 1 \in 0..MaxMishaps
  BY DEF Number, TypeOK
<1>2. ASSUME NEW kind \in Kind \cup {"get", "restart"}, NEW n \in Number, Sends(kind, n)
      PROVE  toNode' \in Seq(ToNode)
  BY <1>2, PacketTypes, QueueTypes DEF TypeOK, Sends
<1>3. Newest <= MaxRequests => Newest \in Number BY RequestTypes
<1>4. Kind = {"search", "save", "purge", "connect", "stats"} BY DEF Kind
<1>5. CASE DoSearch
  <2>1. Made("search", None, Newest) /\ Sends("search", Newest) BY <1>5 DEF DoSearch
  <2>2. Newest \in Number BY <1>3, <2>1 DEF Made
  <2>3. /\ requests' \in Seq(Request) /\ Len(requests') <= MaxRequests
        /\ DOMAIN requests \subseteq DOMAIN requests'
    BY <1>4, <2>1, <2>2, MadeTypes
  <2>4. toNode' \in Seq(ToNode) BY <1>2, <1>4, <2>1, <2>2
  <2> QED BY <1>1, <1>5, <2>2, <2>3, <2>4 DEF TypeOK, DoSearch
<1>6. CASE Edit BY <1>6 DEF TypeOK, Edit
<1>7. CASE Save
  <2>1. Made("save", None, Newest) /\ Sends("save", Newest) BY <1>7 DEF Save
  <2>2. Newest \in Number BY <1>3, <2>1 DEF Made
  <2>3. /\ requests' \in Seq(Request) /\ Len(requests') <= MaxRequests
        /\ DOMAIN requests \subseteq DOMAIN requests'
    BY <1>4, <2>1, <2>2, MadeTypes
  <2>4. toNode' \in Seq(ToNode) BY <1>2, <1>4, <2>1, <2>2
  <2> QED BY <1>1, <1>7, <2>2, <2>3, <2>4 DEF TypeOK, Save
<1>8. CASE Purge
  <2>1. Made("purge", None, Newest) /\ Sends("purge", Newest) BY <1>8 DEF Purge
  <2>2. Newest \in Number BY <1>3, <2>1 DEF Made
  <2>3. /\ requests' \in Seq(Request) /\ Len(requests') <= MaxRequests
        /\ DOMAIN requests \subseteq DOMAIN requests'
    BY <1>4, <2>1, <2>2, MadeTypes
  <2>4. toNode' \in Seq(ToNode) BY <1>2, <1>4, <2>1, <2>2
  <2> QED BY <1>1, <1>8, <2>2, <2>3, <2>4 DEF TypeOK, Purge
<1>9. CASE Refresh BY <1>1, <1>2, <1>9 DEF TypeOK, Refresh
<1>10. CASE LeaveSettings BY <1>1, <1>10 DEF TypeOK, LeaveSettings
<1>11. CASE RequestRestart BY <1>1, <1>2, <1>11 DEF TypeOK, RequestRestart
<1>12. ASSUME NEW h \in Host, RequestConnect(h) PROVE TypeOK'
  <2> DEFINE new == [kind |-> "connect", about |-> h, nonce |-> Newest, state |-> "pending", at |-> 0]
             attempts == Append(requests, new)
  <2>1. Newest \in Number /\ new \in Request BY <1>1, <1>3, <1>4, <1>12 DEF RequestConnect, Request
  <2>2. /\ attempts \in Seq(Request) /\ Len(attempts) = Len(requests) + 1
        /\ attempts \in [1..Len(attempts) -> Request] /\ Len(attempts) \in Nat
        /\ DOMAIN attempts = 1..Len(attempts) /\ DOMAIN requests \subseteq DOMAIN attempts
    <3>1. attempts \in Seq(Request) /\ Len(attempts) = Len(requests) + 1
      BY <2>1, AppendProperties DEF TypeOK
    <3> HIDE DEF attempts
    <3> QED BY <3>1, RequestTypes, LenProperties
  <2> HIDE DEF attempts
  <2>3. Sliced(attempts) \in [1..Len(attempts) -> Request] BY <2>2 DEF Sliced, Request
  <2>4. Sliced(attempts) \in Seq(Request) /\ Len(Sliced(attempts)) = Len(attempts)
    BY <2>2, <2>3, SeqDef, LenProperties
  <2>5. requests' = Sliced(attempts) /\ Len(requests) + 1 <= MaxRequests /\ Sends("connect", Newest)
    BY <1>12 DEF RequestConnect, attempts, Newest
  <2>6. toNode' \in Seq(ToNode) BY <1>2, <1>4, <2>1, <2>5
  <2>7. Len(requests') <= MaxRequests /\ DOMAIN requests \subseteq DOMAIN requests'
    BY <2>2, <2>4, <2>5, LenProperties
  <2>8. requests' \in Seq(Request) BY <2>4, <2>5
  <2> QED BY <1>12, <2>6, <2>7, <2>8 DEF TypeOK, RequestConnect
<1>13. ASSUME NEW p \in Subject, OpenPeer(p) PROVE TypeOK'
  <2>1. Newest \in Number BY <1>3, <1>13 DEF OpenPeer, Made
  <2>2. StatsNonce \in Number BY StatsNonceType, RequestTypes DEF Number
  <2>3. /\ requests' \in Seq(Request) /\ Len(requests') <= MaxRequests
        /\ DOMAIN requests \subseteq DOMAIN requests'
    BY <1>4, <1>13, <2>2, MadeTypes DEF OpenPeer
  <2>4. toNode' \in Seq(ToNode) BY <1>2, <1>4, <1>13, <2>1 DEF TypeOK, OpenPeer
  <2> QED BY <1>13, <2>1, <2>3, <2>4 DEF TypeOK, OpenPeer
<1>14. CASE ClosePeer
  <2>1. Len(requests) \in Nat /\ requests \in [1..Len(requests) -> Request]
    BY LenProperties DEF TypeOK
  <2>2. requests' \in [1..Len(requests) -> Request]
    BY <1>14, <2>1 DEF ClosePeer, Forgotten, Request
  <2>3. requests' \in Seq(Request) /\ Len(requests') = Len(requests)
    BY <2>1, <2>2, SeqDef, LenProperties
  <2> QED BY <1>1, <1>14, <2>1, <2>2, <2>3 DEF TypeOK, ClosePeer
<1> QED BY <1>5, <1>6, <1>7, <1>8, <1>9, <1>10, <1>11, <1>12, <1>13, <1>14 DEF User

LEMMA NodeTypes ==
  ASSUME TypeOK, PacketsAreOwned, SubjectsFit,
         NodeTakes \/ (\E n \in 1..MaxRequests : NodeAnswers(n)) \/ (\E h \in Host : InboundRefused(h))
  PROVE  TypeOK'
<1> USE DEF nodeVars, settingsVars, restartVars, peerVars
<1>1. /\ 0 \in Number /\ TRUE \in BOOLEAN
      /\ mishaps < MaxMishaps => mishaps + 1 \in 0..MaxMishaps
      /\ 1..MaxRequests \subseteq Number
  BY DEF Number, TypeOK
<1>2. ASSUME NEW kinds, Takes(kinds)
      PROVE  toNode' \in Seq(ToNode) /\ Head(toNode) \in ToNode /\ Head(toNode).n \in Number
  <2>1. toNode' \in Seq(ToNode) /\ Head(toNode) \in ToNode BY <1>2, QueueTypes DEF TypeOK, Takes
  <2> QED BY <2>1 DEF ToNode
<1>3. ASSUME NEW packet \in ToPage, Tell(<<packet>>)
      PROVE  toPage' \in Seq(ToPage)
  BY <1>3, QueueTypes DEF TypeOK, Tell
<1>4. CASE TakeWork
  <2>1. Takes({"search", "connect"}) BY <1>4 DEF TakeWork
  <2>2. Head(toNode) = toNode[1] /\ 1 \in DOMAIN toNode
    BY <2>1 DEF Takes, TypeOK
  <2>3. Head(toNode).n \in DOMAIN requests BY <2>1, <2>2 DEF Takes, PacketsAreOwned, Asks
  <2> QED BY <1>2, <1>4, <2>1, <2>3 DEF TypeOK, TakeWork
<1>5. CASE TakeSave
  <2>1. Takes({"save"}) /\ UpdateConfig(Head(toNode).n) BY <1>5 DEF TakeSave
  <2> DEFINE n == Head(toNode).n
  <2>2. n \in Number /\ toNode' \in Seq(ToNode) BY <1>2, <2>1
  <2> HIDE DEF n
  <2>3. toPage' \in Seq(ToPage) /\ config' \in Number /\ stored' \in Number
    BY <1>3, <2>1, <2>2, PacketTypes DEF UpdateConfig, Answered, TypeOK, n
  <2> QED BY <1>5, <2>2, <2>3 DEF TypeOK, TakeSave
<1>6. CASE TakeQuick
  <2>1. Takes({"get", "purge", "stats"}) BY <1>6 DEF TakeQuick
  <2>2. Head(toNode).n \in Number /\ toNode' \in Seq(ToNode) BY <1>2, <2>1
  <2>3. toPage' \in Seq(ToPage)
    BY <1>3, <1>6, <2>1, <2>2, PacketTypes DEF TakeQuick, Takes, Answered, Snapshot, TypeOK
  <2> QED BY <1>6, <2>2, <2>3 DEF TypeOK, TakeQuick
<1>7. CASE TakeRestart
  <2>1. Takes({"restart"}) BY <1>7 DEF TakeRestart
  <2> QED BY <1>1, <1>2, <1>7, <2>1 DEF TypeOK, TakeRestart
<1>8. ASSUME NEW n \in 1..MaxRequests, NodeAnswers(n) PROVE TypeOK'
  <2>1. requests[n] \in Request /\ n \in Number BY <1>1, <1>8 DEF NodeAnswers, TypeOK
  <2>2. requests[n].kind = "connect" => requests[n].about \in Host
    BY <1>8 DEF NodeAnswers, TypeOK, SubjectsFit
  <2>3. toPage' \in Seq(ToPage)
    BY <1>3, <1>8, <2>1, <2>2, PacketTypes DEF NodeAnswers, Answered, ConnectionError
  <2> QED BY <1>8, <2>3 DEF TypeOK, NodeAnswers
<1>9. ASSUME NEW h \in Host, InboundRefused(h) PROVE TypeOK'
  <2>1. toPage' \in Seq(ToPage)
    BY <1>1, <1>3, <1>9, PacketTypes DEF InboundRefused, ConnectionError
  <2> QED BY <1>1, <1>9, <2>1 DEF TypeOK, InboundRefused
<1> QED BY <1>4, <1>5, <1>6, <1>7, <1>8, <1>9 DEF NodeTakes

LEMMA ConnectionTypes ==
  ASSUME TypeOK, Connect \/ Open \/ OpenFails \/ Break \/ NodeExits \/ NodeCrashes
  PROVE  TypeOK'
<1> USE DEF nodeVars, settingsVars, restartVars, peerVars
<1>1. /\ TRUE \in BOOLEAN /\ FALSE \in BOOLEAN
      /\ mishaps < MaxMishaps => mishaps + 1 \in 0..MaxMishaps
  BY DEF TypeOK
<1>2. Broken => ws' \in {"connecting", "open", "closed"} /\ toNode' \in Seq(ToNode)
                /\ toPage' \in Seq(ToPage) /\ work' = {} /\ sawDisconnect' \in BOOLEAN
  BY DEF TypeOK, Broken
<1>3. CASE Connect BY <1>3 DEF TypeOK, Connect
<1>4. CASE Open
  <2> DEFINE packet == [type |-> "runtime_config", config |-> config]
  <2>1. toPage' \in Seq(ToPage)
    <3>1. packet \in ToPage BY DEF TypeOK, ToPage
    <3>2. toPage' = toPage \o <<packet>> BY <1>4 DEF Open, Tell, Snapshot
    <3> HIDE DEF packet
    <3> QED BY <3>1, <3>2, QueueTypes DEF TypeOK
  <2>2. restarting' \in BOOLEAN BY <1>4 DEF Open
  <2> QED BY <1>1, <1>4, <2>1, <2>2 DEF TypeOK, Open
<1>5. CASE OpenFails BY <1>1, <1>5 DEF TypeOK, OpenFails
<1>6. CASE Break BY <1>1, <1>2, <1>6 DEF TypeOK, Break
<1>7. CASE NodeExits BY <1>1, <1>2, <1>7 DEF TypeOK, NodeExits, NodeRestarts
<1>8. CASE NodeCrashes BY <1>1, <1>2, <1>8 DEF TypeOK, NodeCrashes, NodeRestarts
<1> QED BY <1>3, <1>4, <1>5, <1>6, <1>7, <1>8

LEMMA SettleTypes ==
  ASSUME TypeOK, NEW n \in DOMAIN requests, NEW state \in {"done", "failed"}, Settle(n, state)
  PROVE  /\ requests' \in Seq(Request) /\ Len(requests') <= MaxRequests
         /\ DOMAIN requests' = DOMAIN requests
         /\ loading' \in BOOLEAN /\ saving' \in Number /\ purging' \in Number
<1>1. requests' \in Seq(Request) /\ Len(requests') = Len(requests) BY SettledTypes
<1>2. DOMAIN requests' = DOMAIN requests BY <1>1, LenProperties DEF TypeOK
<1>3. 0 \in Number BY DEF Number
<1>4. saving' \in Number /\ purging' \in Number BY <1>3 DEF TypeOK, Settle
<1>5. loading' \in BOOLEAN BY DEF TypeOK, Settle, SearchEnds
<1>6. Len(requests') <= MaxRequests BY <1>1 DEF TypeOK
<1> QED BY <1>1, <1>2, <1>4, <1>5, <1>6

LEMMA IgnoreTypes ==
  ASSUME TypeOK, Ignore
  PROVE  /\ requests' \in Seq(Request) /\ Len(requests') <= MaxRequests
         /\ DOMAIN requests' = DOMAIN requests
         /\ loading' \in BOOLEAN /\ saving' \in Number /\ purging' \in Number
BY DEF TypeOK, Ignore

\* At most one request of the page takes an answer.
LEMMA Claimant ==
  ASSUME TypeOK, NoncesAreDistinct, NEW n, Claimants(n) # {}
  PROVE  LET k == CHOOSE k \in Claimants(n) : \A j \in Claimants(n) : j <= k
         IN  /\ Claimants(n) = {k} /\ k \in OpenedStats /\ k \in DOMAIN requests /\ Pending(k)
             /\ requests[k].nonce = requests[n].nonce
<1>1. PICK k \in Claimants(n) : TRUE OBVIOUS
<1>2. \A j \in Claimants(n) : j = k BY DEF Claimants, NoncesAreDistinct
<1>3. k \in DOMAIN requests /\ k \in Nat
  BY RequestTypes DEF Claimants, OpenedStats, Number
<1>4. \E c \in Claimants(n) : \A j \in Claimants(n) : j <= c BY <1>2, <1>3
<1>5. (CHOOSE c \in Claimants(n) : \A j \in Claimants(n) : j <= c) = k BY <1>2, <1>4
<1> QED BY <1>2, <1>3, <1>5 DEF Claimants

LEMMA AnswerTypes ==
  ASSUME TypeOK, PacketsAreOwned, SubjectsFit, NoncesAreDistinct,
         PageReceives \/ TimerFires
  PROVE  TypeOK'
<1> USE DEF nodeVars, settingsVars, restartVars, peerVars
<1>1. 0 \in Number /\ TRUE \in BOOLEAN /\ FALSE \in BOOLEAN BY DEF Number
<1> DEFINE SettledTypesHold ==
             /\ requests' \in Seq(Request) /\ Len(requests') <= MaxRequests
             /\ DOMAIN requests' = DOMAIN requests
             /\ loading' \in BOOLEAN /\ saving' \in Number /\ purging' \in Number
<1>2. ASSUME NEW type, Receives(type)
      PROVE  toPage' \in Seq(ToPage) /\ Head(toPage) \in ToPage /\ Head(toPage).type = type
  BY <1>2, QueueTypes DEF TypeOK, Receives
<1>3. ASSUME NEW n, NEW state \in {"done", "failed"}, n \in DOMAIN requests /\ Settle(n, state)
      PROVE  SettledTypesHold
  BY <1>3, SettleTypes
<1>4. Ignore => SettledTypesHold BY IgnoreTypes
<1>5. ASSUME NEW type, NEW kind, NEW state \in {"done", "failed"}, OnAnswer(type, kind, state)
      PROVE  TypeOK'
  <2>1. SettledTypesHold BY <1>3, <1>4, <1>5 DEF OnAnswer, PendingOf
  <2>2. toPage' \in Seq(ToPage) BY <1>2, <1>5 DEF OnAnswer
  <2> QED BY <1>5, <2>1, <2>2 DEF TypeOK, OnAnswer, Receives
<1>6. CASE OnResponse BY <1>5, <1>6 DEF OnResponse
<1>7. CASE OnConfigError BY <1>5, <1>7 DEF OnConfigError
<1>8. CASE OnPurged BY <1>5, <1>8 DEF OnPurged
<1>9. CASE OnRuntimeConfig
  <2>1. Receives("runtime_config") /\ Shows(Head(toPage).config) /\ Ignore BY <1>9 DEF OnRuntimeConfig
  <2>2. toPage' \in Seq(ToPage) /\ Head(toPage).config \in Number BY <1>2, <2>1 DEF ToPage
  <2> HIDE DEF SettledTypesHold
  <2>3. shown' \in Number /\ edited' \in BOOLEAN BY <1>1, <2>1, <2>2 DEF Shows
  <2> USE DEF SettledTypesHold
  <2> QED BY <1>1, <1>4, <1>9, <2>1, <2>2, <2>3 DEF TypeOK, OnRuntimeConfig, Receives
<1>10. CASE OnConfigUpdated
  <2>1. Receives("runtime_config_updated") BY <1>10 DEF OnConfigUpdated
  <2>2. toPage' \in Seq(ToPage) /\ Head(toPage).config \in Number BY <1>2, <2>1 DEF ToPage
  <2>3. SettledTypesHold BY <1>3, <1>4, <1>10 DEF OnConfigUpdated, PendingOf
  <2>4. shown' \in Number \cup {None} /\ edited' \in BOOLEAN
    BY <1>1, <1>10, <2>2 DEF OnConfigUpdated, Shows, TypeOK
  <2> QED BY <1>10, <2>1, <2>2, <2>3, <2>4 DEF TypeOK, OnConfigUpdated, Receives
<1>11. CASE OnConnectionError
  <2>1. Receives("connection_error") BY <1>11 DEF OnConnectionError
  <2>2. \A n, h : Blamed(n, h) \subseteq DOMAIN requests BY DEF Blamed, PendingOf
  <2>3. SettledTypesHold BY <1>3, <1>4, <1>11, <2>2 DEF OnConnectionError
  <2> QED BY <1>2, <1>11, <2>1, <2>3 DEF TypeOK, OnConnectionError, Receives
<1>12. CASE OnRefreshUi
  <2>1. Len(requests) \in Nat /\ requests \in [1..Len(requests) -> Request]
    BY LenProperties DEF TypeOK
  <2>2. requests' \in [1..Len(requests) -> Request]
    BY <1>12, <2>1 DEF OnRefreshUi, Forgotten, Request
  <2>3. requests' \in Seq(Request) /\ Len(requests') = Len(requests)
    BY <2>1, <2>2, SeqDef, LenProperties
  <2>4. Len(requests') <= MaxRequests BY <2>3 DEF TypeOK
  <2>5. toNode' \in Seq(ToNode) /\ toPage' \in Seq(ToPage) BY <1>12, QueueTypes DEF OnRefreshUi, TypeOK
  <2>6. work' \subseteq DOMAIN requests' BY <1>12 DEF OnRefreshUi
  <2> QED BY <1>1, <1>12, <2>3, <2>4, <2>5, <2>6 DEF TypeOK, OnRefreshUi
<1>13. ASSUME NEW n \in 1..MaxRequests, TimesOut(n) PROVE TypeOK'
  <2>1. SettledTypesHold BY <1>3, <1>13 DEF TimesOut, Pending
  <2> QED BY <1>13, <2>1 DEF TypeOK, TimesOut
<1>14. CASE OnPeerStats
  <2> DEFINE n == Head(toPage).n
  <2>1. Receives("peer_stats") BY <1>14 DEF OnPeerStats
  <2>2. toPage' \in Seq(ToPage) BY <1>2, <2>1
  <2>3. n \in DOMAIN requests /\ requests[n].kind = "stats"
    <3>1. Head(toPage) = toPage[1] /\ 1 \in DOMAIN toPage BY <2>1 DEF Receives, TypeOK
    <3> QED BY <2>1, <3>1 DEF Receives, PacketsAreOwned, Replies
  <2>4. requests[n].about \in Subject BY <2>3 DEF SubjectsFit
  <2>5. data' \in Subject \cup {None} BY <1>14, <2>4 DEF OnPeerStats, TypeOK
  <2> HIDE DEF n
  <2>6. SettledTypesHold
    <3>1. CASE Claimants(n) = {} BY <1>4, <1>14, <3>1 DEF OnPeerStats, n
    <3>2. CASE Claimants(n) # {}
      <4>1. PICK k \in Claimants(n) : k \in DOMAIN requests /\ Settle(k, "done")
        BY <1>14, <3>2, Claimant DEF OnPeerStats, n
      <4> QED BY <1>3, <4>1
    <3> QED BY <3>1, <3>2
  <2> QED BY <1>14, <2>1, <2>2, <2>5, <2>6 DEF TypeOK, OnPeerStats, Receives
<1> QED BY <1>6, <1>7, <1>8, <1>9, <1>10, <1>11, <1>12, <1>13, <1>14 DEF PageReceives, TimerFires

LEMMA TypesAreKept ==
  ASSUME TypeOK, PacketsAreOwned, SubjectsFit, NoncesAreDistinct, [Next]_vars
  PROVE  TypeOK'
<1>1. CASE UNCHANGED vars
  BY <1>1 DEF TypeOK, vars, nodeVars, settingsVars, restartVars, peerVars
<1> QED BY <1>1, UserTypes, NodeTypes, ConnectionTypes, AnswerTypes DEF Next

-----------------------------------------------------------------------------
(* What a step does to the requests and to the queues. *)

\* Requests are added at the end and keep what they are about; one that is no
\* longer waited for is not touched.
RequestsGrow ==
  /\ \A n \in DOMAIN requests :
       /\ n \in DOMAIN requests'
       /\ requests'[n].kind = requests[n].kind
       /\ requests'[n].about = requests[n].about
       /\ requests'[n].nonce = requests[n].nonce
       /\ ~ Pending(n) => requests'[n] = requests[n]
  /\ \A n \in DOMAIN requests' :
       n \notin DOMAIN requests =>
         /\ n = Newest /\ requests'[n].state = "pending"
         /\ requests'[n].kind = "connect" => requests'[n].about \in Host
         /\ requests'[n].kind = "stats" => /\ requests'[n].about \in Subject
                                            /\ OpenPeer(requests'[n].about)

PageAsks(packet) ==
  Asks(packet) => /\ packet.n = Newest /\ Newest \in DOMAIN requests'
                  /\ requests'[Newest].kind = packet.kind

NodeReplies(packet, asked) ==
  packet.type \in Replies =>
    /\ packet.n = asked.n
    /\ asked.kind = IF packet.type = "peer_stats" THEN "stats" ELSE "save"
    /\ packet.type = "runtime_config_updated" => packet.config = packet.n

QueuesMove ==
  \/ UNCHANGED <<toNode, toPage>>
  \/ toNode' = <<>> /\ toPage' = <<>>
  \/ /\ UNCHANGED toPage
     /\ \E packet \in ToNode : toNode' = Append(toNode, packet) /\ PageAsks(packet)
  \/ toNode # <<>> /\ toNode' = Tail(toNode) /\ UNCHANGED toPage
  \/ /\ toNode # <<>> /\ toNode' = Tail(toNode)
     /\ \E packet \in ToPage :
          toPage' = Append(toPage, packet) /\ NodeReplies(packet, Head(toNode))
  \/ /\ UNCHANGED toNode
     /\ \E packet \in ToPage : toPage' = Append(toPage, packet) /\ packet.type \notin Replies
  \/ toPage # <<>> /\ toPage' = Tail(toPage) /\ UNCHANGED toNode

LEMMA TailIndex ==
  ASSUME NEW S, NEW q \in Seq(S), q # <<>>
  PROVE  /\ 1 \in DOMAIN q /\ Head(q) = q[1]
         /\ \A i \in DOMAIN Tail(q) : i \in Nat /\ i + 1 \in DOMAIN q /\ Tail(q)[i] = q[i + 1]
         /\ \A i \in DOMAIN q : i \in Nat /\ (i # 1 => i - 1 \in DOMAIN Tail(q) /\ Tail(q)[i - 1] = q[i])
OBVIOUS

LEMMA AppendIndex ==
  ASSUME NEW S, NEW q \in Seq(S), NEW x \in S
  PROVE  /\ \A i \in DOMAIN Append(q, x) :
              \/ i \in DOMAIN q /\ Append(q, x)[i] = q[i]
              \/ i = Len(q) + 1 /\ Append(q, x)[i] = x
         /\ \A i \in DOMAIN q : i \in Nat /\ i < Len(q) + 1 /\ i \in DOMAIN Append(q, x) /\ Append(q, x)[i] = q[i]
         /\ Len(q) + 1 \in DOMAIN Append(q, x) /\ Append(q, x)[Len(q) + 1] = x
         /\ Len(q) \in Nat
OBVIOUS

LEMMA MadeGrows ==
  ASSUME TypeOK, NEW kind \in Kind, NEW about \in Host \cup Subject \cup {None},
         NEW nonce \in Number, Made(kind, about, nonce),
         kind # "connect", kind = "stats" => about \in Subject /\ OpenPeer(about)
  PROVE  /\ RequestsGrow /\ Newest \in DOMAIN requests' /\ requests'[Newest].kind = kind
         /\ requests'[Newest] = [kind |-> kind, about |-> about, nonce |-> nonce,
                                 state |-> "pending", at |-> 0]
         /\ \A n \in DOMAIN requests : requests'[n] = requests[n]
<1> DEFINE new == [kind |-> kind, about |-> about, nonce |-> nonce, state |-> "pending", at |-> 0]
<1>1. new \in Request BY DEF Request, Number
<1>2. requests' = Append(requests, new) BY DEF Made
<1>3. new.kind = kind /\ new.about = about /\ new.state = "pending" OBVIOUS
<1> HIDE DEF new
<1>4. /\ \A i \in DOMAIN requests' : i \in DOMAIN requests \/ (i = Newest /\ requests'[i] = new)
      /\ \A i \in DOMAIN requests : i \in DOMAIN requests' /\ requests'[i] = requests[i]
      /\ Newest \in DOMAIN requests' /\ requests'[Newest] = new
  BY <1>1, <1>2, AppendIndex DEF TypeOK, Newest
<1>5. new.kind = "stats" => new.about \in Subject /\ OpenPeer(new.about) BY <1>3
<1>6. RequestsGrow BY <1>3, <1>4, <1>5 DEF RequestsGrow
<1> QED BY <1>3, <1>4, <1>6 DEF new

LEMMA SettleGrows ==
  ASSUME TypeOK, NEW n, Pending(n), NEW state, Settle(n, state)
  PROVE  /\ RequestsGrow /\ DOMAIN requests' = DOMAIN requests
         /\ \A k \in DOMAIN requests : k # n => requests'[k] = requests[k]
         /\ requests'[n].state = state /\ requests'[n].at = Len(requests)
         /\ n \in DOMAIN requests
<1>1. n \in DOMAIN requests /\ requests[n] \in Request BY DEF Pending, TypeOK
<1>2. requests' = [requests EXCEPT ![n].state = state, ![n].at = Len(requests)]
  BY DEF Settle, Settled
<1>3. /\ DOMAIN requests' = DOMAIN requests
      /\ \A k \in DOMAIN requests : k # n => requests'[k] = requests[k]
  BY <1>1, <1>2
<1>4. /\ requests'[n].state = state /\ requests'[n].at = Len(requests)
      /\ requests'[n].kind = requests[n].kind /\ requests'[n].about = requests[n].about
      /\ requests'[n].nonce = requests[n].nonce
  BY <1>1, <1>2 DEF Request
<1> QED BY <1>1, <1>3, <1>4 DEF RequestsGrow

LEMMA IgnoreGrows ==
  ASSUME Ignore
  PROVE  RequestsGrow /\ requests' = requests
BY DEF Ignore, RequestsGrow

LEMMA ForgetGrows ==
  ASSUME TypeOK, NEW N,
         requests' = [n \in DOMAIN requests |-> IF n \in N THEN Forgotten(n) ELSE requests[n]]
  PROVE  /\ RequestsGrow /\ DOMAIN requests' = DOMAIN requests
         /\ \A n \in DOMAIN requests :
              requests'[n] # requests[n] => n \in N /\ Pending(n) /\ requests'[n].state = "gone"
         /\ \A n \in N : n \in DOMAIN requests => requests'[n].state # "pending"
<1>1. \A n \in DOMAIN requests : requests[n] \in Request BY DEF TypeOK
<1>2. \A n \in DOMAIN requests :
        /\ Forgotten(n).kind = requests[n].kind /\ Forgotten(n).about = requests[n].about
        /\ Forgotten(n).nonce = requests[n].nonce
        /\ ~ Pending(n) => Forgotten(n) = requests[n]
        /\ Pending(n) => Forgotten(n).state = "gone"
  BY <1>1 DEF Forgotten, Request
<1> QED BY <1>2 DEF RequestsGrow, Pending

LEMMA ConnectGrows ==
  ASSUME TypeOK, NEW h \in Host, RequestConnect(h)
  PROVE  /\ RequestsGrow /\ Newest \in DOMAIN requests' /\ requests'[Newest].kind = "connect"
         /\ requests'[Newest].about = h
         /\ \A n \in DOMAIN requests :
              requests'[n] # requests[n] => Pending(n) /\ requests[n].kind = "connect" /\ requests'[n].state = "gone"
<1> DEFINE new == [kind |-> "connect", about |-> h, nonce |-> Newest, state |-> "pending", at |-> 0]
           attempts == Append(requests, new)
<1>1. /\ new \in Request /\ new.kind = "connect" /\ new.about = h /\ new.state = "pending"
  BY RequestTypes DEF Request, RequestConnect, Kind, Number
<1>2. requests' = Sliced(attempts) BY DEF RequestConnect
<1> HIDE DEF new
<1>3. /\ \A i \in DOMAIN attempts : i \in DOMAIN requests \/ (i = Newest /\ attempts[i] = new)
      /\ \A i \in DOMAIN requests : i \in DOMAIN attempts /\ attempts[i] = requests[i] /\ i \in Nat /\ i < Newest
      /\ Newest \in DOMAIN attempts /\ attempts[Newest] = new
      /\ \A i \in DOMAIN attempts : attempts[i] \in Request
  BY <1>1, AppendIndex DEF TypeOK, Newest
<1> HIDE DEF attempts
<1>4. DOMAIN requests' = DOMAIN attempts BY <1>2 DEF Sliced
<1>5. \A n \in DOMAIN attempts :
        \/ requests'[n] = attempts[n]
        \/ /\ attempts[n].kind = "connect" /\ attempts[n].state = "pending"
           /\ requests'[n] = [attempts[n] EXCEPT !.state = "gone"]
           /\ Cardinality({k \in DOMAIN attempts : k > n /\ attempts[k].kind = "connect"}) >= MaxAttempts
  BY <1>2 DEF Sliced
<1>6. requests'[Newest] = new
  <2>1. {k \in DOMAIN attempts : k > Newest /\ attempts[k].kind = "connect"} = {}
    BY <1>3, RequestTypes DEF Newest, Number
  <2>2. ~ (0 >= MaxAttempts) BY DEF DashboardAssumption
  <2> QED BY <1>3, <1>5, <2>1, <2>2, FS_EmptySet
<1>7. \A n \in DOMAIN requests :
        /\ requests'[n].kind = requests[n].kind /\ requests'[n].about = requests[n].about
        /\ requests'[n].nonce = requests[n].nonce
        /\ requests'[n] # requests[n] => Pending(n) /\ requests[n].kind = "connect" /\ requests'[n].state = "gone"
  <2> TAKE n \in DOMAIN requests
  <2>1. attempts[n] = requests[n] /\ requests[n] \in Request /\ n \in DOMAIN attempts BY <1>3
  <2>2. CASE requests'[n] = requests[n] BY <2>2
  <2>3. CASE /\ requests[n].kind = "connect" /\ requests[n].state = "pending"
             /\ requests'[n] = [requests[n] EXCEPT !.state = "gone"]
    BY <2>1, <2>3 DEF Request, Pending
  <2> QED BY <1>5, <2>1, <2>2, <2>3
<1> QED BY <1>1, <1>3, <1>4, <1>6, <1>7 DEF RequestsGrow

LEMMA RequestsOnlyGrow ==
  ASSUME TypeOK, NoncesAreDistinct, [Next]_vars
  PROVE  RequestsGrow
<1> USE DEF nodeVars, settingsVars, restartVars, peerVars
<1>1. UNCHANGED requests => RequestsGrow BY DEF RequestsGrow
<1>2. \A n, state : Pending(n) /\ Settle(n, state) => RequestsGrow BY SettleGrows
<1>3. CASE DoSearch \/ Save \/ Purge
  BY <1>3, MadeGrows, RequestTypes DEF DoSearch, Save, Purge, Made, Kind
<1>4. ASSUME NEW p \in Subject, OpenPeer(p) PROVE RequestsGrow
  <2>1. StatsNonce \in Number BY StatsNonceType, RequestTypes DEF Number
  <2> QED BY <1>4, <2>1, MadeGrows DEF OpenPeer, Kind
<1>5. ASSUME NEW h \in Host, RequestConnect(h) PROVE RequestsGrow BY <1>5, ConnectGrows
<1>6. CASE ClosePeer BY <1>6, ForgetGrows DEF ClosePeer
<1>7. CASE OnRefreshUi
  <2>1. requests' = [n \in DOMAIN requests |-> IF n \in DOMAIN requests THEN Forgotten(n) ELSE requests[n]]
    BY <1>7 DEF OnRefreshUi
  <2> QED BY <2>1, ForgetGrows
<1>8. ASSUME NEW type, NEW kind, NEW state, OnAnswer(type, kind, state) PROVE RequestsGrow
  BY <1>2, <1>8, IgnoreGrows DEF OnAnswer, PendingOf
<1>9. CASE OnResponse \/ OnConfigError \/ OnPurged
  BY <1>8, <1>9 DEF OnResponse, OnConfigError, OnPurged
<1>10. CASE OnConfigUpdated BY <1>2, <1>10, IgnoreGrows DEF OnConfigUpdated, PendingOf
<1>11. CASE OnPeerStats BY <1>2, <1>11, IgnoreGrows, Claimant DEF OnPeerStats
<1>12. CASE OnConnectionError
  <2>1. \A n, h : \A k \in Blamed(n, h) : Pending(k) BY DEF Blamed, PendingOf
  <2> QED BY <1>2, <1>12, <2>1, IgnoreGrows DEF OnConnectionError
<1>13. CASE OnRuntimeConfig BY <1>13, IgnoreGrows DEF OnRuntimeConfig
<1>14. ASSUME NEW n \in 1..MaxRequests, TimesOut(n) PROVE RequestsGrow
  BY <1>2, <1>14 DEF TimesOut
<1>15. CASE Edit \/ Refresh \/ LeaveSettings \/ RequestRestart
  BY <1>1, <1>15 DEF Edit, Refresh, LeaveSettings, RequestRestart
<1>16. CASE NodeTakes \/ (\E n \in 1..MaxRequests : NodeAnswers(n)) \/ (\E h \in Host : InboundRefused(h))
  BY <1>1, <1>16 DEF NodeTakes, TakeWork, TakeSave, TakeQuick, TakeRestart, NodeAnswers, InboundRefused
<1>17. CASE Connect \/ Open \/ OpenFails \/ Break \/ NodeExits \/ NodeCrashes
  BY <1>1, <1>17 DEF Connect, Open, OpenFails, Break, NodeExits, NodeCrashes, NodeRestarts
<1>18. CASE UNCHANGED vars BY <1>1, <1>18 DEF vars
<1> QED BY <1>3, <1>4, <1>5, <1>6, <1>7, <1>9, <1>10, <1>11, <1>12, <1>13, <1>14, <1>15, <1>16,
           <1>17, <1>18 DEF Next, User, PageReceives, TimerFires

LEMMA QueuesOnlyMove ==
  ASSUME TypeOK, PacketsAreOwned, SubjectsFit, [Next]_vars
  PROVE  QueuesMove
<1> USE DEF nodeVars, settingsVars, restartVars, peerVars
<1>1. ASSUME NEW kind \in Kind, NEW about \in Host \cup Subject \cup {None}, NEW nonce \in Number,
             Made(kind, about, nonce), Sends(kind, Newest), UNCHANGED toPage,
             kind # "connect", kind = "stats" => about \in Subject /\ OpenPeer(about)
      PROVE  QueuesMove
  <2> DEFINE packet == [kind |-> kind, n |-> Newest]
  <2>1. Newest \in Number /\ Newest \in DOMAIN requests' /\ requests'[Newest].kind = kind
    <3>1. Newest \in Number BY <1>1, MadeTypes
    <3>2. Newest \in DOMAIN requests' /\ requests'[Newest].kind = kind BY <1>1, MadeGrows
    <3> QED BY <3>1, <3>2
  <2>2. packet \in ToNode /\ packet.n = Newest /\ packet.kind = kind BY <2>1, PacketTypes
  <2>3. toNode' = Append(toNode, packet) BY <1>1 DEF Sends
  <2> HIDE DEF packet
  <2> QED BY <1>1, <2>1, <2>2, <2>3 DEF QueuesMove, PageAsks
<1>2. ASSUME NEW kind \in {"get", "restart"}, Sends(kind, 0), UNCHANGED toPage
      PROVE  QueuesMove
  <2> DEFINE packet == [kind |-> kind, n |-> 0]
  <2>1. 0 \in Number BY DEF Number
  <2>2. packet \in ToNode /\ ~ Asks(packet) BY <2>1, PacketTypes DEF Asks
  <2>3. toNode' = Append(toNode, packet) BY <1>2 DEF Sends
  <2> HIDE DEF packet
  <2> QED BY <1>2, <2>2, <2>3 DEF QueuesMove, PageAsks
<1>3. ASSUME NEW packet \in ToPage, Tell(<<packet>>), packet.type \notin Replies, UNCHANGED toNode
      PROVE  QueuesMove
  BY <1>3, QueueTypes DEF Tell, TypeOK, QueuesMove
<1>4. ASSUME NEW kinds, Takes(kinds), NEW packet \in ToPage, Tell(<<packet>>),
             NodeReplies(packet, Head(toNode))
      PROVE  QueuesMove
  BY <1>4, QueueTypes DEF Takes, Tell, TypeOK, QueuesMove
<1>5. UNCHANGED <<toNode, toPage>> => QueuesMove BY DEF QueuesMove
<1>6. CASE DoSearch \/ Save \/ Purge
  BY <1>1, <1>6, RequestTypes DEF DoSearch, Save, Purge, Made, Kind
<1>7. ASSUME NEW h \in Host, RequestConnect(h) PROVE QueuesMove
  <2> DEFINE packet == [kind |-> "connect", n |-> Newest]
  <2>1. Newest \in Number BY <1>7, RequestTypes DEF RequestConnect
  <2>2. packet \in ToNode /\ packet.n = Newest /\ packet.kind = "connect"
    BY <2>1, PacketTypes DEF Kind
  <2>3. toNode' = Append(toNode, packet) /\ UNCHANGED toPage BY <1>7 DEF RequestConnect, Sends
  <2> HIDE DEF packet
  <2> QED BY <1>7, <2>2, <2>3, ConnectGrows DEF QueuesMove, PageAsks
<1>8. ASSUME NEW p \in Subject, OpenPeer(p) PROVE QueuesMove
  <2>1. StatsNonce \in Number BY StatsNonceType, RequestTypes DEF Number
  <2> QED BY <1>1, <1>5, <1>8, <2>1 DEF OpenPeer, Kind
<1>9. CASE Refresh \/ RequestRestart BY <1>2, <1>9 DEF Refresh, RequestRestart
<1>10. CASE Edit \/ LeaveSettings \/ ClosePeer \/ (\E n \in 1..MaxRequests : TimesOut(n))
  BY <1>5, <1>10 DEF Edit, LeaveSettings, ClosePeer, TimesOut
<1>11. CASE TakeWork \/ TakeRestart
  BY <1>11 DEF TakeWork, TakeRestart, Takes, QueuesMove
<1>12. CASE TakeSave
  <2> DEFINE n == Head(toNode).n
  <2>1. Takes({"save"}) /\ UpdateConfig(n) BY <1>12 DEF TakeSave
  <2>2. n \in Number /\ Head(toNode).kind = "save"
    <3>1. Head(toNode) \in ToNode BY <2>1, QueueTypes DEF Takes, TypeOK
    <3> QED BY <2>1, <3>1 DEF Takes, ToNode
  <2> DEFINE bad == [type |-> "config_error", n |-> n]
             good == [type |-> "runtime_config_updated", n |-> n, config |-> n]
  <2>3. bad \in ToPage /\ good \in ToPage BY <2>2, PacketTypes
  <2>4. NodeReplies(bad, Head(toNode)) /\ NodeReplies(good, Head(toNode))
    BY <2>2 DEF NodeReplies
  <2>5. Tell(<<bad>>) \/ Tell(<<good>>) BY <2>1 DEF UpdateConfig, Answered
  <2> HIDE DEF bad, good, n
  <2> QED BY <1>4, <2>1, <2>3, <2>4, <2>5
<1>13. CASE TakeQuick
  <2> DEFINE n == Head(toNode).n
             settings == [type |-> "runtime_config", config |-> config]
             purged == [type |-> "peer_cache_purged", n |-> n]
             stats == [type |-> "peer_stats", n |-> n]
  <2>1. Takes({"get", "purge", "stats"}) BY <1>13 DEF TakeQuick
  <2>2. n \in Number
    <3>1. Head(toNode) \in ToNode BY <2>1, QueueTypes DEF Takes, TypeOK
    <3> QED BY <2>1, <3>1 DEF Takes, ToNode
  <2>3. settings \in ToPage /\ purged \in ToPage /\ stats \in ToPage
    BY <2>2, PacketTypes DEF TypeOK
  <2>4. /\ NodeReplies(settings, Head(toNode)) /\ NodeReplies(purged, Head(toNode))
        /\ Head(toNode).kind = "stats" => NodeReplies(stats, Head(toNode))
    BY DEF NodeReplies, Replies
  <2>5. \/ Tell(<<settings>>) \/ Tell(<<purged>>)
        \/ Head(toNode).kind = "stats" /\ Tell(<<stats>>)
    BY <1>13, <2>1 DEF TakeQuick, Takes, Snapshot, Answered
  <2> HIDE DEF settings, purged, stats, n
  <2> QED BY <1>4, <2>1, <2>3, <2>4, <2>5
<1>14. ASSUME NEW n \in 1..MaxRequests, NodeAnswers(n) PROVE QueuesMove
  <2>1. n \in Number /\ (requests[n].kind = "connect" => requests[n].about \in Host)
    BY <1>14 DEF NodeAnswers, TypeOK, SubjectsFit, Number
  <2> DEFINE response == [type |-> "response", n |-> n]
             refresh == [type |-> "refresh_ui"]
             error == [type |-> "connection_error", n |-> n, host |-> requests[n].about]
  <2>2. /\ response \in ToPage /\ refresh \in ToPage
        /\ requests[n].kind = "connect" => error \in ToPage
    BY <2>1, PacketTypes
  <2>3. response.type \notin Replies /\ refresh.type \notin Replies /\ error.type \notin Replies
    BY DEF Replies
  <2>4. \/ Tell(<<response>>) \/ Tell(<<refresh>>)
        \/ requests[n].kind = "connect" /\ Tell(<<error>>)
    BY <1>14 DEF NodeAnswers, Answered, ConnectionError
  <2>5. UNCHANGED toNode BY <1>14 DEF NodeAnswers
  <2> HIDE DEF response, refresh, error
  <2> QED BY <1>3, <2>2, <2>3, <2>4, <2>5
<1>15. ASSUME NEW h \in Host, InboundRefused(h) PROVE QueuesMove
  <2> DEFINE error == [type |-> "connection_error", n |-> 0, host |-> h]
  <2>1. error \in ToPage /\ error.type \notin Replies
    <3>1. 0 \in Number BY DEF Number
    <3> QED BY <3>1, PacketTypes DEF Replies
  <2>2. Tell(<<error>>) /\ UNCHANGED toNode BY <1>15 DEF InboundRefused, ConnectionError
  <2> HIDE DEF error
  <2> QED BY <1>3, <2>1, <2>2
<1>16. CASE Open
  <2> DEFINE settings == [type |-> "runtime_config", config |-> config]
  <2>1. settings \in ToPage /\ settings.type \notin Replies BY DEF ToPage, Replies, TypeOK
  <2>2. Tell(<<settings>>) /\ UNCHANGED toNode BY <1>16 DEF Open, Snapshot
  <2> HIDE DEF settings
  <2> QED BY <1>3, <2>1, <2>2
<1>17. CASE Connect \/ OpenFails BY <1>5, <1>17 DEF Connect, OpenFails
<1>18. CASE Break \/ NodeExits \/ NodeCrashes \/ OnRefreshUi
  BY <1>18 DEF Break, NodeExits, NodeCrashes, NodeRestarts, Broken, OnRefreshUi, QueuesMove
<1>19. \A type : Receives(type) => QueuesMove BY DEF Receives, QueuesMove
<1>20. CASE OnResponse \/ OnRuntimeConfig \/ OnConfigUpdated \/ OnConfigError \/ OnPurged
            \/ OnPeerStats \/ OnConnectionError
  BY <1>19, <1>20 DEF OnResponse, OnRuntimeConfig, OnConfigUpdated, OnConfigError, OnPurged,
     OnPeerStats, OnConnectionError, OnAnswer
<1>21. CASE UNCHANGED vars BY <1>5, <1>21 DEF vars
<1> QED BY <1>6, <1>7, <1>8, <1>9, <1>10, <1>11, <1>12, <1>13, <1>14, <1>15, <1>16, <1>17, <1>18,
           <1>20, <1>21 DEF Next, User, NodeTakes, PageReceives, TimerFires

-----------------------------------------------------------------------------
(* The queues. *)

LEMMA OwnedIsKept ==
  ASSUME TypeOK, PacketsAreOwned, RequestsGrow, QueuesMove
  PROVE  PacketsAreOwned'
<1> DEFINE NodeOwned(q) == \A i \in DOMAIN q : Asks(q[i]) =>
             q[i].n \in DOMAIN requests' /\ requests'[q[i].n].kind = q[i].kind
           PacketOwned(p) == p.type \in Replies =>
             /\ p.n \in DOMAIN requests'
             /\ requests'[p.n].kind = IF p.type = "peer_stats" THEN "stats" ELSE "save"
             /\ p.type = "runtime_config_updated" => p.config = p.n
           PageOwned(q) == \A i \in DOMAIN q : PacketOwned(q[i])
<1>1. NodeOwned(toNode) /\ PageOwned(toPage) BY DEF PacketsAreOwned, RequestsGrow
<1>2. NodeOwned(<<>>) /\ PageOwned(<<>>) OBVIOUS
<1>3. toNode # <<>> => NodeOwned(Tail(toNode)) BY <1>1, TailIndex DEF TypeOK
<1>4. toPage # <<>> => PageOwned(Tail(toPage)) BY <1>1, TailIndex DEF TypeOK
<1>5. ASSUME NEW packet \in ToNode, PageAsks(packet) PROVE NodeOwned(Append(toNode, packet))
  BY <1>1, <1>5, AppendIndex DEF TypeOK, PageAsks
<1>6. ASSUME NEW packet \in ToPage, PacketOwned(packet) PROVE PageOwned(Append(toPage, packet))
  BY <1>1, <1>6, AppendIndex DEF TypeOK
<1>7. ASSUME NEW packet \in ToPage, toNode # <<>>, NodeReplies(packet, Head(toNode))
      PROVE  PacketOwned(packet)
  <2>1. Head(toNode) = toNode[1] /\ 1 \in DOMAIN toNode BY <1>7, TailIndex DEF TypeOK
  <2> QED BY <1>1, <1>7, <2>1 DEF NodeReplies, Asks
<1> HIDE DEF NodeOwned, PageOwned, PacketOwned
<1>8. NodeOwned(toNode') /\ PageOwned(toPage')
  <2>1. \A packet : packet.type \notin Replies => PacketOwned(packet) BY DEF PacketOwned
  <2> QED BY <1>1, <1>2, <1>3, <1>4, <1>5, <1>6, <1>7, <2>1 DEF QueuesMove
<1> QED BY <1>8 DEF NodeOwned, PageOwned, PacketOwned, PacketsAreOwned, Asks

LEMMA OrderIsKept ==
  ASSUME TypeOK, PacketsAreOwned, PacketsAreOrdered, QueuesMove
  PROVE  PacketsAreOrdered'
<1> DEFINE NodeOrdered(q) == \A i, j \in DOMAIN q : i < j /\ Asks(q[i]) /\ Asks(q[j]) => q[i].n < q[j].n
           PageOrdered(q) == \A i, j \in DOMAIN q :
             i < j /\ q[i].type \in Replies /\ q[j].type \in Replies => q[i].n < q[j].n
           Apart(q, r) == \A i \in DOMAIN q, j \in DOMAIN r :
             q[i].type \in Replies /\ Asks(r[j]) => q[i].n < r[j].n
<1>1. NodeOrdered(toNode) /\ PageOrdered(toPage) /\ Apart(toPage, toNode) BY DEF PacketsAreOrdered
<1>2. NodeOrdered(<<>>) /\ PageOrdered(<<>>) /\ Apart(<<>>, <<>>) OBVIOUS
<1>3. /\ \A n \in DOMAIN requests : n \in Nat /\ n < Newest
      /\ toNode \in Seq(ToNode) /\ toPage \in Seq(ToPage)
  BY RequestTypes DEF Newest, Number, TypeOK
<1>4. ASSUME toNode # <<>> PROVE NodeOrdered(Tail(toNode)) /\ Apart(toPage, Tail(toNode))
  BY <1>1, <1>3, <1>4, TailIndex
<1>5. ASSUME toPage # <<>> PROVE PageOrdered(Tail(toPage)) /\ Apart(Tail(toPage), toNode)
  BY <1>1, <1>3, <1>5, TailIndex
<1>6. ASSUME NEW packet \in ToNode, PageAsks(packet)
      PROVE  NodeOrdered(Append(toNode, packet)) /\ Apart(toPage, Append(toNode, packet))
  <2> DEFINE q == Append(toNode, packet)
  <2>1. \A i \in DOMAIN toNode : Asks(toNode[i]) => toNode[i].n < Newest
    BY <1>3 DEF PacketsAreOwned
  <2>2. \A i \in DOMAIN toPage : toPage[i].type \in Replies => toPage[i].n < Newest
    BY <1>3 DEF PacketsAreOwned
  <2>3. /\ \A i \in DOMAIN q :
              \/ i \in DOMAIN toNode /\ q[i] = toNode[i]
              \/ i = Len(toNode) + 1 /\ q[i] = packet
        /\ \A i \in DOMAIN toNode : i \in Nat /\ i < Len(toNode) + 1
        /\ Len(toNode) \in Nat
    BY <1>3, AppendIndex
  <2> HIDE DEF q
  <2>4. NodeOrdered(q) BY <1>1, <1>6, <2>1, <2>3 DEF PageAsks
  <2>5. Apart(toPage, q) BY <1>1, <1>6, <2>2, <2>3 DEF PageAsks
  <2> QED BY <2>4, <2>5 DEF q
<1>7. ASSUME NEW packet \in ToPage, packet.type \notin Replies
      PROVE  PageOrdered(Append(toPage, packet)) /\ Apart(Append(toPage, packet), toNode)
  <2> DEFINE q == Append(toPage, packet)
  <2>3. \A i \in DOMAIN q :
          \/ i \in DOMAIN toPage /\ q[i] = toPage[i]
          \/ i = Len(toPage) + 1 /\ q[i] = packet
    BY <1>3, AppendIndex
  <2> HIDE DEF q
  <2> QED BY <1>1, <1>7, <2>3 DEF q
<1>8. ASSUME NEW packet \in ToPage, toNode # <<>>, NodeReplies(packet, Head(toNode))
      PROVE  PageOrdered(Append(toPage, packet)) /\ Apart(Append(toPage, packet), Tail(toNode))
  <2> DEFINE q == Append(toPage, packet)
  <2>1. /\ 1 \in DOMAIN toNode /\ Head(toNode) = toNode[1]
        /\ \A j \in DOMAIN Tail(toNode) : j + 1 \in DOMAIN toNode /\ 1 < j + 1 /\ Tail(toNode)[j] = toNode[j + 1]
    BY <1>3, <1>8, TailIndex
  <2>2. packet.type \in Replies => packet.n = toNode[1].n /\ Asks(toNode[1])
    BY <1>8, <2>1 DEF NodeReplies, Asks
  <2>3. /\ \A i \in DOMAIN q :
              \/ i \in DOMAIN toPage /\ q[i] = toPage[i]
              \/ i = Len(toPage) + 1 /\ q[i] = packet
        /\ \A i \in DOMAIN toPage : i \in Nat /\ i < Len(toPage) + 1
        /\ Len(toPage) \in Nat
    BY <1>3, AppendIndex
  <2> HIDE DEF q
  <2>4. PageOrdered(q) BY <1>1, <2>1, <2>2, <2>3
  <2>5. Apart(q, Tail(toNode)) BY <1>1, <2>1, <2>2, <2>3
  <2> QED BY <2>4, <2>5 DEF q
<1> HIDE DEF NodeOrdered, PageOrdered, Apart
<1>9. NodeOrdered(toNode') /\ PageOrdered(toPage') /\ Apart(toPage', toNode')
  <2>1. CASE UNCHANGED <<toNode, toPage>> BY <1>1, <2>1
  <2>2. CASE toNode' = <<>> /\ toPage' = <<>> BY <1>2, <2>2
  <2>3. CASE UNCHANGED toPage /\ (toNode # <<>> /\ toNode' = Tail(toNode))
    BY <1>1, <1>4, <2>3
  <2>4. CASE UNCHANGED toPage /\ (\E packet \in ToNode : toNode' = Append(toNode, packet) /\ PageAsks(packet))
    BY <1>1, <1>6, <2>4
  <2>5. CASE /\ toNode # <<>> /\ toNode' = Tail(toNode)
             /\ \E packet \in ToPage : toPage' = Append(toPage, packet) /\ NodeReplies(packet, Head(toNode))
    BY <1>4, <1>8, <2>5
  <2>6. CASE /\ UNCHANGED toNode
             /\ \E packet \in ToPage : toPage' = Append(toPage, packet) /\ packet.type \notin Replies
    BY <1>1, <1>7, <2>6
  <2>7. CASE toPage # <<>> /\ toPage' = Tail(toPage) /\ UNCHANGED toNode BY <1>1, <1>5, <2>7
  <2> QED BY <2>1, <2>2, <2>3, <2>4, <2>5, <2>6, <2>7 DEF QueuesMove
<1> QED BY <1>9 DEF NodeOrdered, PageOrdered, Apart, PacketsAreOrdered, Asks

LEMMA SubjectsAreKept ==
  ASSUME SubjectsFit, RequestsGrow
  PROVE  SubjectsFit'
BY DEF SubjectsFit, RequestsGrow

\* How a request ends: it fails, is forgotten, or is answered by the packet
\* that is first on the way.
EndsAre(n) ==
  \/ requests'[n].state = "failed"
  \/ requests'[n].state = "gone" /\ (OnRefreshUi \/ ClosePeer \/ requests[n].kind = "connect")
  \/ requests'[n].state = "done" /\ requests[n].kind \in {"search", "purge"}
  \/ requests'[n].state = "done" /\ requests[n].kind = "save" /\ OnConfigUpdated /\ n = Head(toPage).n
  \/ requests'[n].state = "done" /\ OnPeerStats /\ n \in Claimants(Head(toPage).n)

LEMMA RequestsEnd ==
  ASSUME TypeOK, NoncesAreDistinct, [Next]_vars, NEW n \in DOMAIN requests, requests'[n] # requests[n]
  PROVE  Pending(n) /\ EndsAre(n)
<1> USE DEF nodeVars, settingsVars, restartVars, peerVars
<1>1. Pending(n) BY RequestsOnlyGrow DEF RequestsGrow
<1> SUFFICES EndsAre(n) BY <1>1
<1>2. ASSUME NEW kind \in Kind, NEW about \in Host \cup Subject \cup {None}, NEW nonce \in Number,
             Made(kind, about, nonce), kind # "connect", kind = "stats" => about \in Subject /\ OpenPeer(about)
      PROVE  FALSE
  BY <1>2, MadeGrows
<1>3. ASSUME NEW k, NEW state, Pending(k), Settle(k, state)
      PROVE  k = n /\ requests'[n].state = state
  BY <1>3, SettleGrows
<1>4. ~ Ignore BY DEF Ignore
<1>5. CASE DoSearch \/ Save \/ Purge
  BY <1>2, <1>5, RequestTypes DEF DoSearch, Save, Purge, Made, Kind
<1>6. ASSUME NEW p \in Subject, OpenPeer(p) PROVE FALSE
  <2>1. StatsNonce \in Number BY StatsNonceType, RequestTypes DEF Number
  <2> QED BY <1>2, <1>6, <2>1 DEF OpenPeer, Kind
<1>7. ASSUME NEW h \in Host, RequestConnect(h) PROVE EndsAre(n)
  BY <1>7, ConnectGrows DEF EndsAre
<1>8. CASE ClosePeer
  <2>1. requests'[n].state = "gone" BY <1>8, ForgetGrows DEF ClosePeer
  <2> QED BY <1>8, <2>1 DEF EndsAre
<1>9. CASE OnRefreshUi
  <2>1. requests' = [k \in DOMAIN requests |-> IF k \in DOMAIN requests THEN Forgotten(k) ELSE requests[k]]
    BY <1>9 DEF OnRefreshUi
  <2>2. requests'[n].state = "gone" BY <2>1, ForgetGrows
  <2> QED BY <1>9, <2>2 DEF EndsAre
<1>10. ASSUME NEW type, NEW kind, NEW state, OnAnswer(type, kind, state)
       PROVE  requests'[n].state = state /\ requests[n].kind = kind
  <2>1. Head(toPage).n \in PendingOf(kind) /\ Settle(Head(toPage).n, state) BY <1>4, <1>10 DEF OnAnswer
  <2> QED BY <1>3, <2>1 DEF PendingOf
<1>11. CASE OnResponse \/ OnConfigError \/ OnPurged
  <2>1. \/ requests'[n].state = "done" /\ requests[n].kind \in {"search", "purge"}
        \/ requests'[n].state = "failed"
    BY <1>10, <1>11 DEF OnResponse, OnConfigError, OnPurged
  <2> QED BY <2>1 DEF EndsAre
<1>12. CASE OnConfigUpdated
  <2>1. Head(toPage).n \in PendingOf("save") /\ Settle(Head(toPage).n, "done")
    BY <1>4, <1>12 DEF OnConfigUpdated
  <2> QED BY <1>3, <1>12, <2>1 DEF PendingOf, EndsAre
<1>13. CASE OnPeerStats
  <2>1. PICK k \in Claimants(Head(toPage).n) : Pending(k) /\ Settle(k, "done")
    BY <1>4, <1>13, Claimant DEF OnPeerStats
  <2> QED BY <1>3, <1>13, <2>1 DEF EndsAre
<1>14. CASE OnConnectionError
  <2>1. PICK k \in Blamed(Head(toPage).n, Head(toPage).host) : Settle(k, "failed")
    BY <1>4, <1>14 DEF OnConnectionError
  <2>2. Pending(k) BY DEF Blamed, PendingOf
  <2> QED BY <1>3, <2>1, <2>2 DEF EndsAre
<1>15. ASSUME NEW k \in 1..MaxRequests, TimesOut(k) PROVE EndsAre(n)
  BY <1>3, <1>15 DEF TimesOut, EndsAre
<1>16. ~ UNCHANGED requests OBVIOUS
<1>17. ~ (OnRuntimeConfig \/ Edit \/ Refresh \/ LeaveSettings \/ RequestRestart)
  BY <1>4, <1>16 DEF OnRuntimeConfig, Edit, Refresh, LeaveSettings, RequestRestart
<1>18. ~ (NodeTakes \/ (\E k \in 1..MaxRequests : NodeAnswers(k)) \/ (\E h \in Host : InboundRefused(h)))
  BY <1>16 DEF NodeTakes, TakeWork, TakeSave, TakeQuick, TakeRestart, NodeAnswers, InboundRefused
<1>19. ~ (Connect \/ Open \/ OpenFails \/ Break \/ NodeExits \/ NodeCrashes)
  BY <1>16 DEF Connect, Open, OpenFails, Break, NodeExits, NodeCrashes, NodeRestarts
<1>20. ~ UNCHANGED vars BY <1>16 DEF vars
<1> QED BY <1>5, <1>6, <1>7, <1>8, <1>9, <1>11, <1>12, <1>13, <1>14, <1>15, <1>17, <1>18,
           <1>19, <1>20 DEF Next, User, PageReceives, TimerFires

LEMMA EmptinessIsKept ==
  ASSUME TypeOK, ClosedIsEmpty, [Next]_vars
  PROVE  ClosedIsEmpty'
<1> USE DEF nodeVars, settingsVars, restartVars, peerVars, ClosedIsEmpty
<1>1. CASE User
  BY <1>1 DEF User, DoSearch, Edit, Save, Purge, Refresh, LeaveSettings, RequestRestart,
     RequestConnect, OpenPeer, ClosePeer
<1>2. CASE NodeTakes
  BY <1>2 DEF NodeTakes, TakeWork, TakeSave, TakeQuick, TakeRestart, Takes
<1>3. CASE PageReceives
  BY <1>3 DEF PageReceives, OnResponse, OnRuntimeConfig, OnConfigUpdated, OnConfigError, OnPurged,
     OnPeerStats, OnConnectionError, OnAnswer, Receives, OnRefreshUi
<1>4. CASE TimerFires BY <1>4 DEF TimerFires, TimesOut
<1>5. CASE (\E n \in 1..MaxRequests : NodeAnswers(n)) \/ (\E h \in Host : InboundRefused(h))
  BY <1>5 DEF NodeAnswers, InboundRefused
<1>6. CASE Connect \/ Open \/ OpenFails \/ Break \/ NodeExits \/ NodeCrashes
  BY <1>6 DEF Connect, Open, OpenFails, Break, NodeExits, NodeCrashes, NodeRestarts, Broken
<1>7. CASE UNCHANGED vars BY <1>7 DEF vars
<1> QED BY <1>1, <1>2, <1>3, <1>4, <1>5, <1>6, <1>7 DEF Next

-----------------------------------------------------------------------------
(* The settings that the page shows. *)

\* Only an answer ends a save, but for its timer and a reload; and an answer is
\* on its way but once.
LEMMA SavesAreKept ==
  ASSUME TypeOK, NoncesAreDistinct, PacketsAreOwned, PacketsAreOrdered, SavesAreOpen,
         RequestsGrow, QueuesMove, [Next]_vars
  PROVE  SavesAreOpen'
<1> USE DEF nodeVars, settingsVars, restartVars, peerVars
<1> DEFINE Saved(c) == c # 0 => c \in DOMAIN requests' /\ requests'[c].kind = "save"
           Settings == {"runtime_config_updated", "config_error"}
<1>1. Saved(config') /\ Saved(stored')
  <2>1. Saved(config) /\ Saved(stored) BY DEF SavesAreOpen, RequestsGrow
  <2>2. CASE TakeSave
    <3>1. Takes({"save"}) /\ UpdateConfig(Head(toNode).n) BY <2>2 DEF TakeSave
    <3>2. Head(toNode) = toNode[1] /\ 1 \in DOMAIN toNode BY <3>1, TailIndex DEF Takes, TypeOK
    <3>3. Saved(Head(toNode).n) BY <3>1, <3>2 DEF Takes, PacketsAreOwned, Asks, RequestsGrow
    <3> QED BY <2>1, <3>1, <3>3 DEF UpdateConfig
  <2>3. CASE NodeExits \/ NodeCrashes BY <2>1, <2>3 DEF NodeExits, NodeCrashes, NodeRestarts
  <2>4. CASE User
    BY <2>1, <2>4 DEF User, DoSearch, Edit, Save, Purge, Refresh, LeaveSettings, RequestRestart,
       RequestConnect, OpenPeer, ClosePeer
  <2>5. CASE PageReceives \/ TimerFires
    BY <2>1, <2>5 DEF PageReceives, OnResponse, OnRuntimeConfig, OnConfigUpdated, OnConfigError,
       OnPurged, OnPeerStats, OnConnectionError, OnAnswer, Receives, OnRefreshUi, TimerFires, TimesOut
  <2>6. CASE TakeWork \/ TakeQuick \/ TakeRestart \/ (\E n \in 1..MaxRequests : NodeAnswers(n))
             \/ (\E h \in Host : InboundRefused(h))
    BY <2>1, <2>6 DEF TakeWork, TakeQuick, TakeRestart, NodeAnswers, InboundRefused
  <2>7. CASE Connect \/ Open \/ OpenFails \/ Break
    BY <2>1, <2>7 DEF Connect, Open, OpenFails, Break
  <2>8. CASE UNCHANGED vars BY <2>1, <2>8 DEF vars
  <2> HIDE DEF Saved
  <2> QED BY <2>2, <2>3, <2>4, <2>5, <2>6, <2>7, <2>8 DEF Next, NodeTakes
<1>2. ASSUME NEW n \in DOMAIN requests, requests[n].kind = "save",
             requests[n].state \in {"pending", "failed"}, ~ OnRefreshUi,
             ~ (OnConfigUpdated /\ Head(toPage).n = n)
      PROVE  requests'[n].state \in {"pending", "failed"}
  <2>1. CASE requests'[n] = requests[n] BY <1>2, <2>1
  <2>2. CASE requests'[n] # requests[n]
    <3>1. EndsAre(n) BY <2>2, RequestsEnd
    <3>2. CASE ClosePeer /\ requests'[n].state = "gone"
      BY <1>2, <3>2, ForgetGrows DEF ClosePeer, OpenedStats
    <3>3. ~ (OnPeerStats /\ n \in Claimants(Head(toPage).n)) BY <1>2 DEF Claimants, OpenedStats
    <3> QED BY <1>2, <3>1, <3>2, <3>3 DEF EndsAre
  <2> QED BY <2>1, <2>2
<1> DEFINE NodeOpen(q) == \A i \in DOMAIN q : q[i].kind = "save" =>
             requests'[q[i].n].state \in {"pending", "failed"}
           PageOpen(q) == \A i \in DOMAIN q : q[i].type \in Settings =>
             requests'[q[i].n].state \in {"pending", "failed"}
<1>3. /\ toPage # <<>> => Head(toPage) = toPage[1] /\ 1 \in DOMAIN toPage
      /\ toNode # <<>> => Head(toNode) = toNode[1] /\ 1 \in DOMAIN toNode
      /\ OnConfigUpdated => /\ toPage # <<>> /\ Head(toPage).type \in Replies
                             /\ toPage' = Tail(toPage) /\ toNode' = toNode
      /\ OnRefreshUi => toNode' = <<>> /\ toPage' = <<>>
  BY TailIndex DEF TypeOK, OnConfigUpdated, Receives, Replies, OnRefreshUi
<1>4. ~ OnRefreshUi => NodeOpen(toNode)
  <2> SUFFICES ASSUME ~ OnRefreshUi, NEW i \in DOMAIN toNode, toNode[i].kind = "save"
               PROVE  requests'[toNode[i].n].state \in {"pending", "failed"}
    OBVIOUS
  <2>1. /\ toNode[i].n \in DOMAIN requests /\ requests[toNode[i].n].kind = "save"
        /\ requests[toNode[i].n].state \in {"pending", "failed"}
        /\ toNode[i].n \in Nat
    BY RequestTypes DEF PacketsAreOwned, SavesAreOpen, Asks, Number
  <2>2. ~ (OnConfigUpdated /\ Head(toPage).n = toNode[i].n)
    BY <1>3, <2>1 DEF PacketsAreOrdered, Asks
  <2> QED BY <1>2, <2>1, <2>2
<1>5. ASSUME ~ OnRefreshUi, NEW i \in DOMAIN toPage, toPage[i].type \in Settings,
             ~ OnConfigUpdated \/ i # 1
      PROVE  requests'[toPage[i].n].state \in {"pending", "failed"}
  <2>1. /\ toPage[i].n \in DOMAIN requests /\ requests[toPage[i].n].kind = "save"
        /\ requests[toPage[i].n].state \in {"pending", "failed"}
        /\ toPage[i].n \in Nat /\ i \in Nat \ {0} /\ toPage[i].type \in Replies
    BY <1>5, RequestTypes DEF PacketsAreOwned, SavesAreOpen, Replies, Number, TypeOK
  <2>2. ~ (OnConfigUpdated /\ Head(toPage).n = toPage[i].n)
    BY <1>3, <1>5, <2>1 DEF PacketsAreOrdered
  <2> QED BY <1>2, <1>5, <2>1, <2>2
<1>6. NodeOpen(<<>>) /\ PageOpen(<<>>) OBVIOUS
<1>7. \A n \in DOMAIN requests' : n = Newest => requests'[n].state = "pending"
  BY RequestTypes DEF RequestsGrow, Newest, Number
<1>8. ASSUME NEW packet \in ToNode, PageAsks(packet), ~ OnRefreshUi PROVE NodeOpen(Append(toNode, packet))
  BY <1>4, <1>7, <1>8, AppendIndex DEF TypeOK, PageAsks, Asks
<1>9. toNode # <<>> /\ ~ OnRefreshUi => NodeOpen(Tail(toNode)) BY <1>4, TailIndex DEF TypeOK
<1>10. ASSUME toPage # <<>>, ~ OnRefreshUi PROVE PageOpen(Tail(toPage))
  <2>1. \A i \in DOMAIN Tail(toPage) : i + 1 \in DOMAIN toPage /\ i + 1 # 1 /\ Tail(toPage)[i] = toPage[i + 1]
    BY <1>10, TailIndex DEF TypeOK
  <2> QED BY <1>5, <1>10, <2>1
<1>11. ASSUME ~ OnRefreshUi, ~ OnConfigUpdated PROVE PageOpen(toPage) BY <1>5, <1>11
<1>12. ASSUME ~ OnRefreshUi, ~ OnConfigUpdated, NEW packet \in ToPage,
              packet.type \notin Replies \/ (toNode # <<>> /\ NodeReplies(packet, Head(toNode)))
       PROVE  PageOpen(Append(toPage, packet))
  <2>1. packet.type \in Settings => requests'[packet.n].state \in {"pending", "failed"}
    BY <1>3, <1>4, <1>12 DEF NodeReplies, Replies
  <2> QED BY <1>11, <1>12, <2>1, AppendIndex DEF TypeOK
<1> HIDE DEF NodeOpen, PageOpen
<1>13. NodeOpen(toNode') /\ PageOpen(toPage')
  <2>1. CASE OnRefreshUi BY <1>3, <1>6, <2>1
  <2>2. CASE OnConfigUpdated /\ ~ OnRefreshUi BY <1>3, <1>4, <1>10, <2>2
  <2>3. CASE ~ OnConfigUpdated /\ ~ OnRefreshUi
    BY <1>4, <1>6, <1>8, <1>9, <1>10, <1>11, <1>12, <2>3 DEF QueuesMove
  <2> QED BY <2>1, <2>2, <2>3
<1> QED BY <1>1, <1>13 DEF SavesAreOpen, NodeOpen, PageOpen

LEMMA SettingsStay ==
  ASSUME TypeOK, SettingsCatchUp, RequestsGrow, ws' = "open" => ws = "open",
         UNCHANGED <<toPage, config, shown>>, config # 0 => config \in DOMAIN requests
  PROVE  SettingsCatchUp'
BY DEF SettingsCatchUp, Known, Covers, RequestsGrow, Pending

\* A packet with no settings, or with the present ones, is told.
LEMMA SettingsFollow ==
  ASSUME TypeOK, ws = "open" => SettingsCatchUp, RequestsGrow, UNCHANGED <<ws, config, shown>>,
         NEW packet \in ToPage, toPage' = Append(toPage, packet),
         packet.type \in {"runtime_config", "runtime_config_updated"} => packet.config = config,
         config # 0 => config \in DOMAIN requests
  PROVE  SettingsCatchUp'
<1>1. /\ \A i \in DOMAIN toPage' :
            \/ i \in DOMAIN toPage /\ toPage'[i] = toPage[i]
            \/ i = Len(toPage) + 1 /\ toPage'[i] = packet
      /\ \A i \in DOMAIN toPage : i \in DOMAIN toPage' /\ toPage'[i] = toPage[i]
  BY AppendIndex DEF TypeOK
<1> QED BY <1>1 DEF SettingsCatchUp, Known, Covers, RequestsGrow, Pending

\* The settings change, and the packet that tells so is the last one.
LEMMA SettingsChange ==
  ASSUME TypeOK, NEW packet \in ToPage, toPage' = Append(toPage, packet), Covers(packet, config'),
         packet.type \in {"runtime_config", "runtime_config_updated"} => packet.config = config'
  PROVE  SettingsCatchUp'
<1>1. /\ \A i \in DOMAIN toPage' :
            \/ i \in DOMAIN toPage /\ i < Len(toPage) + 1
            \/ i = Len(toPage) + 1 /\ toPage'[i] = packet
      /\ Len(toPage) + 1 \in DOMAIN toPage' /\ toPage'[Len(toPage) + 1] = packet
  BY AppendIndex DEF TypeOK
<1> QED BY <1>1 DEF SettingsCatchUp, Covers

\* The first packet is received.
LEMMA SettingsArrive ==
  ASSUME TypeOK, SettingsCatchUp, SavesAreOpen, PacketsAreOwned, RequestsGrow,
         PageReceives, ~ OnRefreshUi
  PROVE  SettingsCatchUp'
<1> USE DEF nodeVars, settingsVars, restartVars, peerVars
<1> DEFINE p == Head(toPage)
           Settings == {"runtime_config", "runtime_config_updated"}
<1>1. /\ toPage # <<>> /\ toPage' = Tail(toPage) /\ UNCHANGED <<ws, config>>
      /\ \/ UNCHANGED shown
         \/ p.type = "runtime_config" /\ shown' = p.config
         \/ p.type = "runtime_config_updated" /\ shown' = p.config
  BY DEF PageReceives, OnResponse, OnRuntimeConfig, OnConfigUpdated, OnConfigError, OnPurged,
     OnPeerStats, OnConnectionError, OnAnswer, Receives, Shows
<1>2. p = toPage[1] /\ 1 \in DOMAIN toPage BY <1>1, TailIndex DEF TypeOK
<1>3. config # 0 => config \in DOMAIN requests BY DEF SavesAreOpen
<1>4. ASSUME Covers(p, config) PROVE Known'
  <2>1. CASE p.type = "runtime_config"
    <3>1. OnRuntimeConfig
      BY <2>1 DEF PageReceives, OnResponse, OnConfigUpdated, OnConfigError, OnPurged,
         OnPeerStats, OnConnectionError, OnAnswer, Receives
    <3> QED BY <1>1, <1>4, <2>1, <3>1 DEF OnRuntimeConfig, Shows, Covers, Known
  <2>2. CASE p.type \in {"runtime_config_updated", "config_error"}
    <3>1. /\ p.n = config /\ p.n \in DOMAIN requests /\ requests[p.n].kind = "save"
          /\ requests[p.n].state \in {"pending", "failed"} /\ config # 0
          /\ p.type = "runtime_config_updated" => p.config = config
      BY <1>2, <1>4, <2>2, RequestTypes DEF Covers, PacketsAreOwned, SavesAreOpen, Replies
    <3>2. p.n \notin PendingOf("save") => requests'[config].state = "failed"
      BY <3>1 DEF PendingOf, Pending, RequestsGrow
    <3>3. CASE p.type = "runtime_config_updated"
      <4>1. OnConfigUpdated
        BY <3>3 DEF PageReceives, OnResponse, OnRuntimeConfig, OnConfigError, OnPurged,
           OnPeerStats, OnConnectionError, OnAnswer, Receives
      <4>2. p.n \in PendingOf("save") => shown' = p.config BY <4>1 DEF OnConfigUpdated, Shows
      <4> QED BY <1>1, <3>1, <3>2, <3>3, <4>2 DEF Known
    <3>4. CASE p.type = "config_error"
      <4>1. OnConfigError
        BY <3>4 DEF PageReceives, OnResponse, OnRuntimeConfig, OnConfigUpdated, OnPurged,
           OnPeerStats, OnConnectionError, OnAnswer, Receives
      <4>2. p.n \in PendingOf("save") => Pending(p.n) /\ Settle(p.n, "failed")
        BY <4>1 DEF OnConfigError, OnAnswer, PendingOf
      <4>3. p.n \in PendingOf("save") => requests'[config].state = "failed"
        BY <3>1, <4>2, SettleGrows
      <4> QED BY <1>1, <3>1, <3>2, <4>3 DEF Known
    <3> QED BY <2>2, <3>3, <3>4
  <2> QED BY <1>4, <2>1, <2>2 DEF Covers
<1>5. ASSUME NEW j \in DOMAIN toPage, j # 1, Covers(toPage[j], config)
      PROVE  j - 1 \in DOMAIN toPage' /\ Covers(toPage'[j - 1], config')
  BY <1>1, <1>5, TailIndex DEF TypeOK, Covers
<1> HIDE DEF p
<1>6. ws' = "open" => Known' \/ \E j \in DOMAIN toPage' : Covers(toPage'[j], config')
  <2>1. CASE Covers(p, config) BY <1>4, <2>1
  <2>2. CASE ~ Covers(p, config) /\ UNCHANGED shown
    <3>1. Known => Known' BY <1>1, <1>3, <2>2 DEF Known, RequestsGrow, Pending
    <3>2. ws' = "open" => Known \/ \E j \in DOMAIN toPage : j # 1 /\ Covers(toPage[j], config)
      BY <1>1, <1>2, <2>2 DEF SettingsCatchUp
    <3> QED BY <1>5, <3>1, <3>2
  <2>3. CASE ~ Covers(p, config) /\ shown' # shown
    <3>1. p.type \in Settings /\ p.config # config
      BY <1>1, <1>2, <2>3 DEF Covers, PacketsAreOwned, Replies
    <3>2. ws' = "open" => \E j \in DOMAIN toPage : 1 < j /\ Covers(toPage[j], config)
      BY <1>1, <1>2, <3>1 DEF SettingsCatchUp
    <3> QED BY <1>5, <3>2
  <2> QED BY <2>1, <2>2, <2>3
<1>7. ASSUME ws' = "open", NEW i \in DOMAIN toPage', toPage'[i].type \in Settings, toPage'[i].config # config'
      PROVE  \E j \in DOMAIN toPage' : i < j /\ Covers(toPage'[j], config')
  <2>1. i \in Nat /\ i + 1 \in DOMAIN toPage /\ toPage'[i] = toPage[i + 1]
    BY <1>1, <1>7, TailIndex DEF TypeOK
  <2>2. PICK j \in DOMAIN toPage : i + 1 < j /\ Covers(toPage[j], config)
    BY <1>1, <1>7, <2>1 DEF SettingsCatchUp
  <2>3. j \in Nat BY <1>1, TailIndex DEF TypeOK
  <2>4. j # 1 /\ i < j - 1 BY <2>1, <2>2, <2>3
  <2> QED BY <1>5, <2>2, <2>4
<1> QED BY <1>6, <1>7 DEF SettingsCatchUp, Covers

LEMMA SettingsAreKept ==
  ASSUME TypeOK, ClosedIsEmpty, PacketsAreOwned, SubjectsFit, SavesAreOpen, SettingsCatchUp,
         RequestsGrow, [Next]_vars
  PROVE  SettingsCatchUp'
<1> USE DEF nodeVars, settingsVars, restartVars, peerVars
<1>1. config # 0 => config \in DOMAIN requests BY DEF SavesAreOpen
<1>2. (ws' = "open" => ws = "open") /\ UNCHANGED <<toPage, config, shown>> => SettingsCatchUp'
  BY <1>1, SettingsStay
<1>3. ASSUME NEW packet \in ToPage, Tell(<<packet>>), UNCHANGED <<ws, config, shown>>,
             packet.type \in {"runtime_config", "runtime_config_updated"} => packet.config = config
      PROVE  SettingsCatchUp'
  <2>1. toPage' = Append(toPage, packet) BY <1>3, QueueTypes DEF Tell, TypeOK
  <2> QED BY <1>1, <1>3, <2>1, SettingsFollow
<1>4. CASE User \/ TakeWork \/ TakeRestart \/ TimerFires
  BY <1>2, <1>4 DEF User, DoSearch, Edit, Save, Purge, Refresh, LeaveSettings, RequestRestart,
     RequestConnect, OpenPeer, ClosePeer, TakeWork, TakeRestart, TimerFires, TimesOut
<1>5. CASE TakeSave
  <2> DEFINE n == Head(toNode).n
             bad == [type |-> "config_error", n |-> n]
             good == [type |-> "runtime_config_updated", n |-> n, config |-> n]
  <2>1. Takes({"save"}) /\ UpdateConfig(n) /\ UNCHANGED <<ws, shown>> BY <1>5 DEF TakeSave
  <2>2. n \in Number
    <3>1. Head(toNode) \in ToNode BY <2>1, QueueTypes DEF Takes, TypeOK
    <3> QED BY <3>1 DEF ToNode
  <2>3. bad \in ToPage /\ good \in ToPage BY <2>2, PacketTypes
  <2>4. CASE Tell(<<bad>>) /\ config' = config BY <1>3, <2>1, <2>3, <2>4
  <2>5. CASE Tell(<<bad>>) /\ config' = n
    <3>1. toPage' = Append(toPage, bad) BY <2>3, <2>5, QueueTypes DEF Tell, TypeOK
    <3>2. Covers(bad, config') BY <2>5 DEF Covers
    <3> QED BY <2>3, <3>1, <3>2, SettingsChange
  <2>6. CASE Tell(<<good>>) /\ config' = n
    <3>1. toPage' = Append(toPage, good) BY <2>3, <2>6, QueueTypes DEF Tell, TypeOK
    <3>2. Covers(good, config') BY <2>6 DEF Covers
    <3> QED BY <2>3, <2>6, <3>1, <3>2, SettingsChange
  <2> QED BY <2>1, <2>4, <2>5, <2>6 DEF UpdateConfig, Answered
<1>6. CASE TakeQuick
  <2> DEFINE n == Head(toNode).n
             settings == [type |-> "runtime_config", config |-> config]
             purged == [type |-> "peer_cache_purged", n |-> n]
             stats == [type |-> "peer_stats", n |-> n]
  <2>1. Takes({"get", "purge", "stats"}) BY <1>6 DEF TakeQuick
  <2>2. n \in Number
    <3>1. Head(toNode) \in ToNode BY <2>1, QueueTypes DEF Takes, TypeOK
    <3> QED BY <3>1 DEF ToNode
  <2>3. settings \in ToPage /\ purged \in ToPage /\ stats \in ToPage
    BY <2>2, PacketTypes DEF TypeOK
  <2>4. Tell(<<settings>>) \/ Tell(<<purged>>) \/ Tell(<<stats>>)
    BY <1>6, <2>1 DEF TakeQuick, Takes, Snapshot, Answered
  <2>5. /\ settings.config = config
        /\ purged.type \notin {"runtime_config", "runtime_config_updated"}
        /\ stats.type \notin {"runtime_config", "runtime_config_updated"}
    OBVIOUS
  <2>6. UNCHANGED <<ws, config, shown>> BY <1>6 DEF TakeQuick
  <2> HIDE DEF settings, purged, stats
  <2> QED BY <1>3, <2>3, <2>4, <2>5, <2>6
<1>7. ASSUME NEW n \in 1..MaxRequests, NodeAnswers(n) PROVE SettingsCatchUp'
  <2> DEFINE response == [type |-> "response", n |-> n]
             refresh == [type |-> "refresh_ui"]
             error == [type |-> "connection_error", n |-> n, host |-> requests[n].about]
  <2>1. n \in Number /\ (requests[n].kind = "connect" => requests[n].about \in Host)
    BY <1>7 DEF NodeAnswers, TypeOK, SubjectsFit, Number
  <2>2. /\ response \in ToPage /\ refresh \in ToPage
        /\ requests[n].kind = "connect" => error \in ToPage
    BY <2>1, PacketTypes
  <2>3. \/ Tell(<<response>>) \/ Tell(<<refresh>>)
        \/ requests[n].kind = "connect" /\ Tell(<<error>>)
    BY <1>7 DEF NodeAnswers, Answered, ConnectionError
  <2>4. UNCHANGED <<ws, config, shown>> BY <1>7 DEF NodeAnswers
  <2>5. \A packet \in {response, refresh, error} :
          packet.type \notin {"runtime_config", "runtime_config_updated"}
    OBVIOUS
  <2> HIDE DEF response, refresh, error
  <2> QED BY <1>3, <2>2, <2>3, <2>4, <2>5
<1>8. ASSUME NEW h \in Host, InboundRefused(h) PROVE SettingsCatchUp'
  <2> DEFINE error == [type |-> "connection_error", n |-> 0, host |-> h]
  <2>1. 0 \in Number BY DEF Number
  <2>2. error \in ToPage /\ error.type = "connection_error" BY <2>1, PacketTypes
  <2>3. Tell(<<error>>) /\ UNCHANGED <<ws, config, shown>>
    BY <1>8 DEF InboundRefused, ConnectionError
  <2> HIDE DEF error
  <2> QED BY <1>3, <2>2, <2>3
<1>9. CASE Open
  <2> DEFINE settings == [type |-> "runtime_config", config |-> config]
  <2>1. settings \in ToPage BY PacketTypes DEF TypeOK
  <2>2. toPage' = Append(toPage, settings) /\ config' = config
    BY <1>9, <2>1, QueueTypes DEF Open, Snapshot, Tell, TypeOK
  <2>3. Covers(settings, config') BY <2>2 DEF Covers
  <2> QED BY <2>1, <2>2, <2>3, SettingsChange
<1>10. CASE Connect \/ OpenFails \/ Break \/ NodeExits \/ NodeCrashes \/ OnRefreshUi
  <2>1. ws' # "open"
    BY <1>10 DEF Connect, OpenFails, Break, NodeExits, NodeCrashes, NodeRestarts, Broken, OnRefreshUi
  <2> QED BY <2>1 DEF SettingsCatchUp
<1>11. CASE PageReceives /\ ~ OnRefreshUi BY <1>11, SettingsArrive
<1>12. CASE UNCHANGED vars BY <1>2, <1>12 DEF vars
<1> QED BY <1>4, <1>5, <1>6, <1>7, <1>8, <1>9, <1>10, <1>11, <1>12 DEF Next, NodeTakes


-----------------------------------------------------------------------------
(* The statistics that the page of a peer shows. *)

OpensPeer == \E p \in Subject : OpenPeer(p)

LEMMA PageStays ==
  ASSUME [Next]_vars, ~ ClosePeer, ~ OnRefreshUi, ~ OpensPeer
  PROVE  mount' = mount /\ (OnPeerStats \/ data' = data)
<1> USE DEF nodeVars, settingsVars, restartVars, peerVars
<1>1. CASE User
  BY <1>1 DEF User, DoSearch, Edit, Save, Purge, Refresh, LeaveSettings, RequestRestart,
     RequestConnect, OpensPeer
<1>2. CASE NodeTakes \/ (\E n \in 1..MaxRequests : NodeAnswers(n)) \/ (\E h \in Host : InboundRefused(h))
  BY <1>2 DEF NodeTakes, TakeWork, TakeSave, TakeQuick, TakeRestart, NodeAnswers, InboundRefused
<1>3. CASE PageReceives \/ TimerFires
  BY <1>3 DEF PageReceives, OnResponse, OnRuntimeConfig, OnConfigUpdated, OnConfigError, OnPurged,
     OnPeerStats, OnConnectionError, OnAnswer, Receives, TimerFires, TimesOut
<1>4. CASE Connect \/ Open \/ OpenFails \/ Break \/ NodeExits \/ NodeCrashes
  BY <1>4 DEF Connect, Open, OpenFails, Break, NodeExits, NodeCrashes, NodeRestarts
<1>5. CASE UNCHANGED vars BY <1>5 DEF vars
<1> QED BY <1>1, <1>2, <1>3, <1>4, <1>5 DEF Next

\* Only the choice of a peer adds to the requests of the page that is open.
LEMMA OpenedStays ==
  ASSUME TypeOK, RequestsGrow, mount' = mount, ~ OpensPeer
  PROVE  /\ OpenedStats' = OpenedStats
         /\ \A k \in DOMAIN requests' : requests'[k].kind = "stats" => k \in DOMAIN requests
BY DEF OpenedStats, RequestsGrow, OpensPeer

LEMMA OpenedAdded ==
  ASSUME TypeOK, StatsOfOpenPage, NEW p \in Subject, OpenPeer(p)
  PROVE  /\ IsFiniteSet(OpenedStats) /\ Newest \notin OpenedStats
         /\ OpenedStats' = OpenedStats \cup {Newest}
         /\ \A k \in OpenedStats : k < Newest
         /\ Newest \in DOMAIN requests' /\ requests'[Newest].nonce = Cardinality(OpenedStats)
         /\ requests'[Newest].state = "pending"
         /\ \A k \in DOMAIN requests : requests'[k] = requests[k]
         /\ mount' = IF mount = 0 THEN Newest ELSE mount
         /\ data' = None /\ OpenedStats \subseteq DOMAIN requests
<1>1. /\ DOMAIN requests = 1..Len(requests) /\ Len(requests) \in Nat /\ Newest \notin DOMAIN requests
      /\ Newest \in Nat \ {0} /\ mount \in Nat
  BY RequestTypes DEF Newest, Number, TypeOK
<1>2. IsFiniteSet(OpenedStats) /\ OpenedStats \subseteq DOMAIN requests
  <2>1. OpenedStats \subseteq 1..Len(requests) BY <1>1 DEF OpenedStats
  <2>2. IsFiniteSet(1..Len(requests)) BY <1>1, FS_Interval
  <2> QED BY <1>1, <2>1, <2>2, FS_Subset
<1>3. StatsNonce \in Number BY StatsNonceType, RequestTypes DEF Number
<1>4. Made("stats", p, StatsNonce) BY DEF OpenPeer
<1> DEFINE new == [kind |-> "stats", about |-> p, nonce |-> StatsNonce, state |-> "pending", at |-> 0]
<1>5. /\ RequestsGrow /\ Newest \in DOMAIN requests' /\ requests'[Newest] = new
      /\ \A k \in DOMAIN requests : requests'[k] = requests[k]
  BY <1>3, <1>4, MadeGrows DEF Kind
<1>6. DOMAIN requests' = DOMAIN requests \cup {Newest} BY <1>5 DEF RequestsGrow
<1>7. mount' = (IF mount = 0 THEN Newest ELSE mount) /\ data' = None BY DEF OpenPeer
<1>8. OpenedStats' = OpenedStats \cup {Newest}
  <2>1. CASE mount = 0 BY <1>1, <1>5, <1>6, <1>7, <2>1 DEF OpenedStats, Newest
  <2>2. CASE mount # 0
    <3>1. mount < Newest BY <1>1, <1>2, <2>2 DEF StatsOfOpenPage, Newest
    <3> QED BY <1>1, <1>5, <1>6, <1>7, <2>2, <3>1 DEF OpenedStats, Newest
  <2> QED BY <2>1, <2>2
<1>9. \A k \in OpenedStats : k < Newest BY <1>1, <1>2 DEF Newest
<1> QED BY <1>1, <1>2, <1>5, <1>7, <1>8, <1>9 DEF StatsNonce

LEMMA NoncesAreKept ==
  ASSUME TypeOK, NoncesAreDistinct, StatsOfOpenPage, RequestsGrow, [Next]_vars
  PROVE  NoncesAreDistinct'
<1>1. CASE ClosePeer \/ OnRefreshUi
  <2>1. OpenedStats' = {} BY <1>1 DEF ClosePeer, OnRefreshUi, OpenedStats
  <2> QED BY <2>1 DEF NoncesAreDistinct
<1>2. ASSUME NEW p \in Subject, OpenPeer(p) PROVE NoncesAreDistinct'
  <2>1. IsFiniteSet(OpenedStats) /\ Newest \notin OpenedStats /\ OpenedStats' = OpenedStats \cup {Newest}
    BY <1>2, OpenedAdded
  <2>2. Cardinality(OpenedStats') = Cardinality(OpenedStats) + 1 /\ Cardinality(OpenedStats) \in Nat
    BY <2>1, FS_AddElement, FS_CardinalityType
  <2>3. /\ requests'[Newest].nonce = Cardinality(OpenedStats)
        /\ \A k \in OpenedStats : requests'[k] = requests[k]
    BY <1>2, OpenedAdded
  <2>4. \A k \in OpenedStats : requests[k].nonce \in Nat /\ requests[k].nonce < Cardinality(OpenedStats)
    <3>1. \A k \in OpenedStats : requests[k] \in Request BY DEF TypeOK, OpenedStats
    <3> QED BY <3>1 DEF Request, Number, NoncesAreDistinct
  <2> QED BY <2>1, <2>2, <2>3, <2>4 DEF NoncesAreDistinct
<1>3. CASE ~ ClosePeer /\ ~ OnRefreshUi /\ ~ OpensPeer
  <2>1. OpenedStats' = OpenedStats BY <1>3, PageStays, OpenedStays
  <2>2. \A k \in OpenedStats : requests'[k].nonce = requests[k].nonce BY DEF RequestsGrow, OpenedStats
  <2> QED BY <2>1, <2>2 DEF NoncesAreDistinct
<1> QED BY <1>1, <1>2, <1>3 DEF OpensPeer

LEMMA PageIsKept ==
  ASSUME TypeOK, StatsOfOpenPage, NoncesAreDistinct, RequestsGrow, [Next]_vars
  PROVE  StatsOfOpenPage'
<1>1. \A k \in DOMAIN requests : Pending(k)' => Pending(k)
  BY DEF RequestsGrow, Pending
<1>2. CASE ClosePeer
  <2>1. /\ \A k \in OpenedStats : k \in DOMAIN requests => requests'[k].state # "pending"
        /\ DOMAIN requests' = DOMAIN requests
    BY <1>2, ForgetGrows DEF ClosePeer
  <2>2. mount' = 0 /\ data' = None BY <1>2 DEF ClosePeer
  <2>3. \A k \in DOMAIN requests' : requests'[k].kind = "stats" => ~ Pending(k)'
    BY <1>1, <2>1 DEF StatsOfOpenPage, RequestsGrow, Pending
  <2> QED BY <2>2, <2>3 DEF StatsOfOpenPage
<1>3. CASE OnRefreshUi
  <2>1. requests' = [n \in DOMAIN requests |-> IF n \in DOMAIN requests THEN Forgotten(n) ELSE requests[n]]
    BY <1>3 DEF OnRefreshUi
  <2>2. \A k \in DOMAIN requests' : ~ Pending(k)' BY <2>1, ForgetGrows DEF Pending
  <2>3. mount' = 0 /\ data' = None BY <1>3 DEF OnRefreshUi
  <2> QED BY <2>2, <2>3 DEF StatsOfOpenPage
<1>4. ASSUME NEW p \in Subject, OpenPeer(p) PROVE StatsOfOpenPage'
  <2>1. /\ OpenedStats' = OpenedStats \cup {Newest} /\ \A k \in OpenedStats : k < Newest
        /\ mount' = (IF mount = 0 THEN Newest ELSE mount) /\ data' = None
    BY <1>4, OpenedAdded
  <2>2. \A j \in OpenedStats' : j <= Newest
    BY <2>1, RequestTypes DEF OpenedStats, Number, Newest
  <2>3. mount' # 0 => mount' \in OpenedStats' BY <2>1 DEF StatsOfOpenPage
  <2>4. \A k \in DOMAIN requests' : requests'[k].kind = "stats" /\ Pending(k)' => k \in OpenedStats'
    BY <1>1, <2>1 DEF StatsOfOpenPage, RequestsGrow
  <2> QED BY <2>1, <2>2, <2>3, <2>4 DEF StatsOfOpenPage
<1>5. CASE ~ ClosePeer /\ ~ OnRefreshUi /\ ~ OpensPeer
  <2>1. mount' = mount /\ (OnPeerStats \/ data' = data) BY <1>5, PageStays
  <2>2. /\ OpenedStats' = OpenedStats
        /\ \A k \in DOMAIN requests' : requests'[k].kind = "stats" => k \in DOMAIN requests
    BY <1>5, <2>1, OpenedStays
  <2>3. mount = 0 => data' = None
    <3>1. mount = 0 => Claimants(Head(toPage).n) = {} BY DEF Claimants, OpenedStats
    <3> QED BY <2>1, <3>1 DEF OnPeerStats, StatsOfOpenPage
  <2>4. \A k \in DOMAIN requests' : requests'[k].kind = "stats" /\ Pending(k)' => k \in OpenedStats'
    BY <1>1, <2>2 DEF StatsOfOpenPage, RequestsGrow
  <2> QED BY <2>1, <2>2, <2>3, <2>4 DEF StatsOfOpenPage
<1> QED BY <1>2, <1>3, <1>4, <1>5 DEF OpensPeer

LEMMA OvertakenStays ==
  ASSUME RequestsGrow, NEW k \in DOMAIN requests, Overtaken(k)
  PROVE  Overtaken(k)'
BY DEF Overtaken, RequestsGrow, Pending

LEMMA AwaitedStays ==
  ASSUME TypeOK, QueuesMove, PacketsAreOwned, NEW k \in DOMAIN requests, Awaited(k)'
  PROVE  Awaited(k)
<1> DEFINE Asked == \E i \in DOMAIN toNode : toNode[i].kind = "stats" /\ toNode[i].n = k
           Told == \E i \in DOMAIN toPage : toPage[i].type = "peer_stats" /\ toPage[i].n = k
           AskedIn(q) == \E i \in DOMAIN q : q[i].kind = "stats" /\ q[i].n = k
           ToldIn(q) == \E i \in DOMAIN q : q[i].type = "peer_stats" /\ q[i].n = k
<1>1. AskedIn(toNode') \/ ToldIn(toPage') BY DEF Awaited
<1>2. Awaited(k) <=> AskedIn(toNode) \/ ToldIn(toPage) BY DEF Awaited
<1>3. k # Newest BY RequestTypes DEF Newest, Number
<1>4. ~ AskedIn(<<>>) /\ ~ ToldIn(<<>>) OBVIOUS
<1>5. ASSUME NEW packet \in ToNode, PageAsks(packet), AskedIn(Append(toNode, packet)) PROVE AskedIn(toNode)
  BY <1>3, <1>5, AppendIndex DEF TypeOK, PageAsks, Asks
<1>6. toNode # <<>> /\ AskedIn(Tail(toNode)) => AskedIn(toNode) BY TailIndex DEF TypeOK
<1>7. toPage # <<>> /\ ToldIn(Tail(toPage)) => ToldIn(toPage) BY TailIndex DEF TypeOK
<1>8. ASSUME NEW packet \in ToPage, ToldIn(Append(toPage, packet)),
             packet.type \notin Replies \/ (toNode # <<>> /\ NodeReplies(packet, Head(toNode)))
      PROVE  AskedIn(toNode) \/ ToldIn(toPage)
  <2>1. ToldIn(toPage) \/ (packet.type = "peer_stats" /\ packet.n = k)
    BY <1>8, AppendIndex DEF TypeOK
  <2>2. packet.type = "peer_stats" /\ packet.n = k => AskedIn(toNode)
    BY <1>8, TailIndex DEF TypeOK, NodeReplies, Replies
  <2> QED BY <2>1, <2>2
<1> HIDE DEF AskedIn, ToldIn
<1> QED BY <1>1, <1>2, <1>4, <1>5, <1>6, <1>7, <1>8 DEF QueuesMove

\* A packet of statistics that is on its way answers a request of the page.
LEMMA AwaitedIsStats ==
  ASSUME TypeOK, PacketsAreOwned, NEW k, Awaited(k)
  PROVE  k \in DOMAIN requests /\ requests[k].kind = "stats"
BY DEF Awaited, PacketsAreOwned, Asks, Replies

\* The answer that is received came before what is still awaited.
LEMMA ReceivedIsFirst ==
  ASSUME TypeOK, PacketsAreOwned, PacketsAreOrdered, OnPeerStats, NEW k, Awaited(k)'
  PROVE  /\ Head(toPage).n < k /\ Head(toPage).n \in DOMAIN requests
         /\ requests[Head(toPage).n].kind = "stats" /\ Awaited(Head(toPage).n)
<1>1. /\ toPage # <<>> /\ toPage' = Tail(toPage) /\ toNode' = toNode
      /\ Head(toPage).type = "peer_stats"
  BY DEF OnPeerStats, Receives
<1>2. Head(toPage) = toPage[1] /\ 1 \in DOMAIN toPage BY <1>1, TailIndex DEF TypeOK
<1>3. CASE \E i \in DOMAIN toNode : toNode[i].kind = "stats" /\ toNode[i].n = k
  BY <1>1, <1>2, <1>3 DEF PacketsAreOrdered, PacketsAreOwned, Asks, Replies, Awaited
<1>4. CASE \E i \in DOMAIN Tail(toPage) : Tail(toPage)[i].type = "peer_stats" /\ Tail(toPage)[i].n = k
  <2>1. PICK i \in DOMAIN toPage : 1 < i /\ toPage[i].type = "peer_stats" /\ toPage[i].n = k
    <3>1. PICK i \in DOMAIN Tail(toPage) : Tail(toPage)[i].type = "peer_stats" /\ Tail(toPage)[i].n = k
      BY <1>4
    <3>2. i \in Nat /\ i + 1 \in DOMAIN toPage /\ Tail(toPage)[i] = toPage[i + 1] /\ i \in DOMAIN Tail(toPage)
      BY <1>1, TailIndex DEF TypeOK
    <3>3. i # 0 BY <1>1, <3>2, TailIndex, LenProperties DEF TypeOK
    <3> QED BY <3>1, <3>2, <3>3
  <2> QED BY <1>1, <1>2, <2>1 DEF PacketsAreOrdered, PacketsAreOwned, Replies, Awaited
<1> QED BY <1>1, <1>3, <1>4 DEF Awaited

\* An answer that is taken by a later request of the same nonce
LEMMA TakenByAnother ==
  ASSUME TypeOK, StatsOfOpenPage, NoncesAreDistinct, StatsAreOvertaken, RequestsGrow,
         NEW n \in DOMAIN requests, requests[n].kind = "stats", Awaited(n),
         NEW k \in Claimants(n), n < k
  PROVE  Overtaken(k)'
<1>1. k \in OpenedStats /\ Pending(k) /\ requests[k].nonce = requests[n].nonce /\ k \in DOMAIN requests
  BY DEF Claimants, OpenedStats
<1>2. requests[n] \in Request /\ n \in Nat /\ k \in Nat BY <1>1, RequestTypes DEF TypeOK, Number
<1>3. requests[n].state # "pending"
  <2>1. Pending(n) => n \in OpenedStats BY DEF StatsOfOpenPage
  <2> QED BY <1>1, <1>2, <2>1 DEF Pending, NoncesAreDistinct
<1>4. CASE requests[n].state \in {"gone", "failed"} BY <1>1, <1>4, OvertakenStays DEF Overtaken
<1>5. CASE requests[n].state = "done"
  <2>1. Overtaken(n) BY <1>5 DEF StatsAreOvertaken
  <2>2. Overtaken(k)
    <3>1. \A j \in DOMAIN requests : j < n => j < k BY <1>2, RequestTypes DEF Number
    <3> QED BY <1>1, <2>1, <3>1 DEF Overtaken
  <2> QED BY <1>1, <2>2, OvertakenStays
<1> QED BY <1>2, <1>3, <1>4, <1>5 DEF Request

LEMMA OvertakenIsKept ==
  ASSUME TypeOK, PacketsAreOwned, PacketsAreOrdered, SubjectsFit, NoncesAreDistinct,
         StatsOfOpenPage, StatsAreOvertaken, RequestsGrow, QueuesMove, PacketsAreOwned', [Next]_vars
  PROVE  StatsAreOvertaken'
<1> DEFINE n == Head(toPage).n
           DoneBefore(k) == k \in DOMAIN requests /\ requests[k].kind = "stats" /\ requests[k].state = "done"
           NewlyDone(k) == OnPeerStats /\ k \in Claimants(Head(toPage).n)
           Last(k) == k \in OpenedStats /\ \A j \in OpenedStats : j <= k
<1>1. ASSUME NEW k \in DOMAIN requests', requests'[k].kind = "stats", requests'[k].state = "done"
      PROVE  DoneBefore(k) \/ (NewlyDone(k) /\ k \in DOMAIN requests)
  <2>1. k \in DOMAIN requests BY <1>1 DEF RequestsGrow
  <2>2. CASE requests'[k] = requests[k] BY <1>1, <2>1, <2>2
  <2>3. CASE requests'[k] # requests[k]
    <3>1. EndsAre(k) /\ requests[k].kind = "stats" BY <1>1, <2>1, <2>3, RequestsEnd DEF RequestsGrow
    <3> QED BY <1>1, <2>1, <3>1 DEF EndsAre
  <2> QED BY <2>2, <2>3
<1>2. ASSUME NEW k, NewlyDone(k), k \in DOMAIN requests, n \in DOMAIN requests, n < k,
             requests[n].kind = "stats", Awaited(n)
      PROVE  Overtaken(k)'
  BY <1>2, TakenByAnother
<1>3. ASSUME NEW k \in DOMAIN requests', requests'[k].kind = "stats", requests'[k].state = "done", Awaited(k)'
      PROVE  Overtaken(k)'
  <2>1. CASE DoneBefore(k) BY <1>3, <2>1, AwaitedStays, OvertakenStays DEF StatsAreOvertaken
  <2>2. CASE NewlyDone(k) /\ k \in DOMAIN requests
    <3>1. n < k /\ n \in DOMAIN requests /\ requests[n].kind = "stats" /\ Awaited(n)
      BY <1>3, <2>2, ReceivedIsFirst
    <3> QED BY <1>2, <2>2, <3>1
  <2> QED BY <1>1, <1>3, <2>1, <2>2
<1>4. OnPeerStats => /\ toPage # <<>> /\ n \in DOMAIN requests /\ requests[n].kind = "stats"
                     /\ Awaited(n) /\ n \in Number
  <2>1. OnPeerStats => toPage # <<>> /\ Head(toPage).type = "peer_stats" BY DEF OnPeerStats, Receives
  <2>2. toPage # <<>> => Head(toPage) = toPage[1] /\ 1 \in DOMAIN toPage BY TailIndex DEF TypeOK
  <2> QED BY <2>1, <2>2, RequestTypes DEF PacketsAreOwned, Replies, Awaited
<1> HIDE DEF n
<1>5. ASSUME NEW k, Last(k)', requests'[k].state = "done"
      PROVE  \/ Overtaken(k)'
             \/ data' = requests'[k].about /\ \A j \in DOMAIN requests' : ~ Awaited(j)'
  <2>1. k \in OpenedStats' /\ k \in DOMAIN requests' /\ requests'[k].kind = "stats"
    BY <1>5 DEF OpenedStats
  <2>2. ~ ClosePeer /\ ~ OnRefreshUi
    <3>1. ClosePeer \/ OnRefreshUi => OpenedStats' = {} BY DEF ClosePeer, OnRefreshUi, OpenedStats
    <3> QED BY <2>1, <3>1
  <2>3. ~ OpensPeer
    <3> SUFFICES ASSUME NEW p \in Subject, OpenPeer(p) PROVE FALSE BY DEF OpensPeer
    <3>1. /\ OpenedStats' = OpenedStats \cup {Newest} /\ \A j \in OpenedStats : j < Newest
          /\ requests'[Newest].state = "pending"
      BY OpenedAdded
    <3>2. k # Newest BY <1>5, <3>1
    <3>3. k < Newest /\ Newest <= k BY <1>5, <2>1, <3>1, <3>2
    <3> QED BY <3>3, RequestTypes, <2>1, <3>1, <3>2 DEF OpenedStats, Number, Newest
  <2>4. mount' = mount /\ (OnPeerStats \/ data' = data) BY <2>2, <2>3, PageStays
  <2>5. /\ OpenedStats' = OpenedStats /\ Last(k)
        /\ \A j \in DOMAIN requests' : requests'[j].kind = "stats" => j \in DOMAIN requests
    <3>1. /\ OpenedStats' = OpenedStats
          /\ \A j \in DOMAIN requests' : requests'[j].kind = "stats" => j \in DOMAIN requests
      BY <2>3, <2>4, OpenedStays
    <3> QED BY <1>5, <3>1
  <2>6. \A j \in DOMAIN requests' : Awaited(j)' => j \in DOMAIN requests /\ requests[j].kind = "stats" /\ Awaited(j)
    <3> SUFFICES ASSUME NEW j \in DOMAIN requests', Awaited(j)'
                 PROVE  j \in DOMAIN requests /\ requests[j].kind = "stats" /\ Awaited(j)
      OBVIOUS
    <3>1. requests'[j].kind = "stats" BY DEF Awaited, PacketsAreOwned, Asks, Replies
    <3>2. j \in DOMAIN requests BY <2>5, <3>1
    <3> QED BY <3>1, <3>2, AwaitedStays DEF RequestsGrow
  <2>7. CASE DoneBefore(k)
    <3>1. \/ Overtaken(k)
          \/ data = requests[k].about /\ \A j \in DOMAIN requests : ~ Awaited(j)
      BY <2>5, <2>7 DEF StatsAreOvertaken
    <3>2. CASE Overtaken(k) BY <2>7, <3>2, OvertakenStays
    <3>3. CASE data = requests[k].about /\ \A j \in DOMAIN requests : ~ Awaited(j)
      <4>1. ~ OnPeerStats BY <1>4, <3>3
      <4>2. requests'[k].about = requests[k].about BY <2>7 DEF RequestsGrow
      <4> QED BY <2>4, <2>6, <3>3, <4>1, <4>2
    <3> QED BY <3>1, <3>2, <3>3
  <2>8. CASE NewlyDone(k) /\ k \in DOMAIN requests
    <3>1. /\ n \in DOMAIN requests /\ requests[n].kind = "stats" /\ Awaited(n)
          /\ n \in Nat /\ k \in Nat /\ mount \in Nat
          /\ mount # 0 /\ k >= mount
      BY <1>4, <2>5, <2>8, RequestTypes DEF Number, TypeOK, OpenedStats
    <3>2. ASSUME NEW j \in DOMAIN requests, requests[j].kind = "stats", j > k PROVE FALSE
      <4>1. j \in Nat BY RequestTypes DEF Number
      <4>2. j \in OpenedStats BY <3>1, <3>2, <4>1 DEF OpenedStats
      <4> QED BY <2>5, <3>1, <3>2, <4>1, <4>2
    <3>3. CASE n < k BY <1>2, <2>8, <3>1, <3>3
    <3>4. CASE n = k
      <4>1. data' = requests'[k].about
        <5>1. Claimants(n) # {} BY <2>8 DEF n
        <5>2. data' = requests[n].about BY <2>8, <5>1 DEF OnPeerStats, n
        <5> QED BY <2>8, <3>4, <5>2 DEF RequestsGrow
      <4>2. ASSUME NEW j \in DOMAIN requests', Awaited(j)' PROVE FALSE
        <5>1. n < j BY <2>8, <4>2, ReceivedIsFirst DEF n
        <5> QED BY <2>6, <3>2, <3>4, <4>2, <5>1
      <4> QED BY <4>1, <4>2
    <3>5. CASE n > k BY <3>1, <3>2, <3>5
    <3> QED BY <3>1, <3>3, <3>4, <3>5
  <2> QED BY <1>1, <1>5, <2>1, <2>7, <2>8
<1> QED BY <1>3, <1>5 DEF StatsAreOvertaken

-----------------------------------------------------------------------------
(* The page's sign that it is searching. *)

\* What a step does to the searches: it starts one; leaves them alone; ends one,
\* and the sign goes out; or forgets them all.
SearchesMove ==
  \/ /\ loading' = TRUE /\ Newest \in DOMAIN requests'
     /\ requests'[Newest].kind = "search" /\ requests'[Newest].state = "pending"
  \/ /\ loading' = loading
     /\ \A k \in DOMAIN requests : requests[k].kind = "search" => requests'[k] = requests[k]
     /\ \A k \in DOMAIN requests' : requests'[k].kind = "search" => k \in DOMAIN requests
  \/ /\ loading' = FALSE /\ DOMAIN requests' = DOMAIN requests
     /\ \E k \in DOMAIN requests :
          /\ requests'[k].kind = "search" /\ requests'[k].state \in {"done", "failed"}
          /\ requests'[k].at = Len(requests)
  \/ loading' = FALSE /\ \A k \in DOMAIN requests' : requests'[k].state # "pending"

LEMMA SettleSearches ==
  ASSUME TypeOK, NEW n, Pending(n), NEW state \in {"done", "failed"}, Settle(n, state)
  PROVE  SearchesMove
<1>1. /\ RequestsGrow /\ DOMAIN requests' = DOMAIN requests /\ n \in DOMAIN requests
      /\ \A k \in DOMAIN requests : k # n => requests'[k] = requests[k]
      /\ requests'[n].state = state /\ requests'[n].at = Len(requests)
  BY SettleGrows
<1>2. requests'[n].kind = requests[n].kind BY <1>1 DEF RequestsGrow
<1>3. loading' = IF requests[n].kind = "search" THEN FALSE ELSE loading
  BY DEF Settle, SearchEnds
<1> QED BY <1>1, <1>2, <1>3 DEF SearchesMove

LEMMA SearchesOnlyMove ==
  ASSUME TypeOK, NoncesAreDistinct, [Next]_vars
  PROVE  SearchesMove
<1> USE DEF nodeVars, settingsVars, restartVars, peerVars
<1>1. UNCHANGED <<loading, requests>> => SearchesMove BY DEF SearchesMove
<1>2. ASSUME NEW n, NEW state \in {"done", "failed"}, Pending(n), Settle(n, state) PROVE SearchesMove
  BY <1>2, SettleSearches
<1>3. Ignore => SearchesMove BY <1>1 DEF Ignore
<1>4. CASE DoSearch
  <2>1. Newest \in DOMAIN requests' /\ requests'[Newest].kind = "search" /\ requests'[Newest].state = "pending"
    BY <1>4, MadeGrows, RequestTypes DEF DoSearch, Made, Kind
  <2> QED BY <1>4, <2>1 DEF DoSearch, SearchesMove
<1>5. ASSUME NEW kind \in {"save", "purge", "stats"}, NEW about \in Host \cup Subject \cup {None},
             NEW nonce \in Number, Made(kind, about, nonce),
             kind = "stats" => about \in Subject /\ OpenPeer(about), UNCHANGED loading
      PROVE  SearchesMove
  <2>1. /\ RequestsGrow /\ Newest \in DOMAIN requests' /\ requests'[Newest].kind = kind
        /\ \A n \in DOMAIN requests : requests'[n] = requests[n]
    BY <1>5, MadeGrows DEF Kind
  <2> QED BY <1>5, <2>1 DEF SearchesMove, RequestsGrow
<1>6. CASE Save \/ Purge BY <1>5, <1>6, RequestTypes DEF Save, Purge, Made
<1>7. ASSUME NEW p \in Subject, OpenPeer(p) PROVE SearchesMove
  <2>1. StatsNonce \in Number BY StatsNonceType, RequestTypes DEF Number
  <2> QED BY <1>5, <1>7, <2>1 DEF OpenPeer
<1>8. ASSUME NEW h \in Host, RequestConnect(h) PROVE SearchesMove
  <2>1. loading' = loading BY <1>8 DEF RequestConnect
  <2>2. /\ RequestsGrow /\ requests'[Newest].kind = "connect"
        /\ \A n \in DOMAIN requests : requests'[n] # requests[n] => requests[n].kind = "connect"
    BY <1>8, ConnectGrows
  <2> QED BY <2>1, <2>2 DEF SearchesMove, RequestsGrow
<1>9. CASE ClosePeer
  <2>1. loading' = loading BY <1>9 DEF ClosePeer
  <2>2. /\ DOMAIN requests' = DOMAIN requests
        /\ \A n \in DOMAIN requests : requests'[n] # requests[n] => n \in OpenedStats
    BY <1>9, ForgetGrows DEF ClosePeer
  <2>3. \A n \in DOMAIN requests : requests[n].kind = "search" => requests'[n] = requests[n]
    BY <2>2 DEF OpenedStats
  <2> QED BY <2>1, <2>2, <2>3 DEF SearchesMove
<1>10. CASE OnRefreshUi
  <2>1. requests' = [n \in DOMAIN requests |-> IF n \in DOMAIN requests THEN Forgotten(n) ELSE requests[n]]
    BY <1>10 DEF OnRefreshUi
  <2>2. \A k \in DOMAIN requests' : requests'[k].state # "pending" BY <2>1, ForgetGrows
  <2>3. loading' = FALSE BY <1>10 DEF OnRefreshUi
  <2> QED BY <2>2, <2>3 DEF SearchesMove
<1>11. CASE OnResponse \/ OnConfigError \/ OnPurged
  BY <1>2, <1>3, <1>11 DEF OnResponse, OnConfigError, OnPurged, OnAnswer, PendingOf
<1>12. CASE OnRuntimeConfig \/ OnConfigUpdated
  BY <1>2, <1>3, <1>12 DEF OnRuntimeConfig, OnConfigUpdated, PendingOf
<1>13. CASE OnPeerStats BY <1>2, <1>3, <1>13, Claimant DEF OnPeerStats
<1>14. CASE OnConnectionError
  <2>1. \A n, h : \A k \in Blamed(n, h) : Pending(k) BY DEF Blamed, PendingOf
  <2> QED BY <1>2, <1>3, <1>14, <2>1 DEF OnConnectionError
<1>15. CASE TimerFires BY <1>2, <1>15 DEF TimerFires, TimesOut
<1>16. CASE Edit \/ Refresh \/ LeaveSettings \/ RequestRestart
  BY <1>1, <1>16 DEF Edit, Refresh, LeaveSettings, RequestRestart
<1>17. CASE NodeTakes \/ (\E n \in 1..MaxRequests : NodeAnswers(n)) \/ (\E h \in Host : InboundRefused(h))
  BY <1>1, <1>17 DEF NodeTakes, TakeWork, TakeSave, TakeQuick, TakeRestart, NodeAnswers, InboundRefused
<1>18. CASE Connect \/ Open \/ OpenFails \/ Break \/ NodeExits \/ NodeCrashes
  BY <1>1, <1>18 DEF Connect, Open, OpenFails, Break, NodeExits, NodeCrashes, NodeRestarts
<1>19. CASE UNCHANGED vars BY <1>1, <1>19 DEF vars
<1> QED BY <1>4, <1>6, <1>7, <1>8, <1>9, <1>10, <1>11, <1>12, <1>13, <1>14, <1>15, <1>16, <1>17,
           <1>18, <1>19 DEF Next, User, PageReceives

LEMMA SpinnerIsKept ==
  ASSUME TypeOK, SpinnerIsHonest, RequestsGrow, SearchesMove
  PROVE  SpinnerIsHonest'
<1>1. \A k \in DOMAIN requests : k \in Nat /\ k <= Len(requests) /\ requests[k] \in Request
  BY RequestTypes DEF Number, TypeOK
<1>2. CASE /\ loading' = TRUE /\ Newest \in DOMAIN requests'
           /\ requests'[Newest].kind = "search" /\ requests'[Newest].state = "pending"
  BY <1>2 DEF SpinnerIsHonest, PendingOf, Pending
<1>3. CASE /\ loading' = loading
           /\ \A k \in DOMAIN requests : requests[k].kind = "search" => requests'[k] = requests[k]
           /\ \A k \in DOMAIN requests' : requests'[k].kind = "search" => k \in DOMAIN requests
  <2>1. PendingOf("search")' = PendingOf("search")
    BY <1>3 DEF PendingOf, Pending, RequestsGrow
  <2> QED BY <1>3, <2>1 DEF SpinnerIsHonest, RequestsGrow
<1>4. CASE /\ loading' = FALSE /\ DOMAIN requests' = DOMAIN requests
           /\ \E k \in DOMAIN requests :
                /\ requests'[k].kind = "search" /\ requests'[k].state \in {"done", "failed"}
                /\ requests'[k].at = Len(requests)
  BY <1>1, <1>4, RequestTypes DEF SpinnerIsHonest, PendingOf
<1>5. CASE loading' = FALSE /\ \A k \in DOMAIN requests' : requests'[k].state # "pending"
  BY <1>5 DEF SpinnerIsHonest, PendingOf, Pending
<1> QED BY <1>2, <1>3, <1>4, <1>5 DEF SearchesMove

-----------------------------------------------------------------------------
(* Theorems. *)

LEMMA InitHolds == Init => IInv
<1> SUFFICES ASSUME Init PROVE IInv OBVIOUS
<1>1. /\ requests = <<>> /\ toNode = <<>> /\ toPage = <<>> /\ work = {} /\ mount = 0 /\ data = None
      /\ config = 0 /\ stored = 0 /\ ws = "connecting" /\ shown = None /\ ~ loading
  BY DEF Init
<1>2. DOMAIN requests = {} /\ DOMAIN toNode = {} /\ DOMAIN toPage = {} BY <1>1
<1>3. TypeOK
  <2>1. requests \in Seq(Request) /\ Len(requests) <= MaxRequests
        /\ toNode \in Seq(ToNode) /\ toPage \in Seq(ToPage)
    BY <1>1
  <2>2. 0 \in Number /\ 0 \in 0..MaxMishaps BY DEF Number
  <2> QED BY <1>1, <1>2, <2>1, <2>2 DEF Init, TypeOK
<1>4. OpenedStats = {} BY <1>1, <1>2 DEF OpenedStats
<1> QED BY <1>1, <1>2, <1>3, <1>4 DEF IInv, ClosedIsEmpty, PacketsAreOwned, SubjectsFit,
       PacketsAreOrdered, SavesAreOpen, SettingsCatchUp, NoncesAreDistinct, StatsOfOpenPage,
       StatsAreOvertaken, SpinnerIsHonest, PendingOf

LEMMA NextKeeps == IInv /\ [Next]_vars => IInv'
<1> SUFFICES ASSUME IInv, [Next]_vars PROVE IInv' OBVIOUS
<1>1. /\ TypeOK /\ ClosedIsEmpty /\ PacketsAreOwned /\ SubjectsFit /\ PacketsAreOrdered
      /\ SavesAreOpen /\ SettingsCatchUp /\ SpinnerIsHonest
      /\ NoncesAreDistinct /\ StatsOfOpenPage /\ StatsAreOvertaken
  BY DEF IInv
<1>2. RequestsGrow /\ QueuesMove /\ SearchesMove
  BY <1>1, RequestsOnlyGrow, QueuesOnlyMove, SearchesOnlyMove
<1>3. TypeOK' BY <1>1, TypesAreKept
<1>4. ClosedIsEmpty' BY <1>1, EmptinessIsKept
<1>5. PacketsAreOwned' /\ SubjectsFit' BY <1>1, <1>2, OwnedIsKept, SubjectsAreKept
<1>6. PacketsAreOrdered' BY <1>1, <1>2, OrderIsKept
<1>7. SavesAreOpen' /\ SettingsCatchUp' BY <1>1, <1>2, SavesAreKept, SettingsAreKept
<1>8. NoncesAreDistinct' /\ StatsOfOpenPage' BY <1>1, <1>2, NoncesAreKept, PageIsKept
<1>9. StatsAreOvertaken' BY <1>1, <1>2, <1>5, OvertakenIsKept
<1>10. SpinnerIsHonest' BY <1>1, <1>2, SpinnerIsKept
<1> QED BY <1>3, <1>4, <1>5, <1>6, <1>7, <1>8, <1>9, <1>10 DEF IInv

\* The inductive invariant: what is on the way is owned by requests, in order;
\* and what the page shows is current, about to be, or was overtaken.
THEOREM InvariantHolds == Spec => []IInv
BY InitHolds, NextKeeps, PTL DEF Spec

\* The page and the node stay within the types of their states.
THEOREM DashboardIsTyped == Spec => []TypeOK
<1>1. IInv => TypeOK BY DEF IInv
<1> QED BY <1>1, InvariantHolds, PTL

\* However saves, refreshes, breaks and restarts interleave, the settings that the
\* page shows are the node's when no settings are on the way, unless the page was
\* told that the save of those failed (App.tsx).
THEOREM ShownConfigStaysCurrent == Spec => []ShownConfigIsCurrent
<1>1. IInv => ShownConfigIsCurrent
  BY DEF IInv, SettingsCatchUp, Known, Covers, ShownConfigIsCurrent, InFlight
<1> QED BY <1>1, InvariantHolds, PTL

\* The page never shows a search that nobody waits for; and it hides one only after
\* another ended since it was made.
THEOREM SpinnerStaysHonest == Spec => []SpinnerIsHonest
<1>1. IInv => SpinnerIsHonest BY DEF IInv
<1> QED BY <1>1, InvariantHolds, PTL

\* The page of a peer shows what its last request asked for, unless a request of
\* an earlier page, which ended without its answer, has the same nonce.
THEOREM PeerStatsStayItsOwn == Spec => []PeerStatsAreItsOwn
<1>1. ASSUME IInv, data # None PROVE PeerStatsAreItsOwn
  <2>1. TypeOK /\ StatsOfOpenPage /\ StatsAreOvertaken /\ NoncesAreDistinct BY <1>1 DEF IInv
  <2>2. mount # 0 /\ \E k \in OpenedStats : \A j \in OpenedStats : j <= k
    BY <1>1, <2>1 DEF StatsOfOpenPage
  <2>3. Selected \in OpenedStats /\ \A j \in OpenedStats : j <= Selected BY <2>2 DEF Selected
  <2>4. CASE requests[Selected].state # "done" BY <2>4 DEF PeerStatsAreItsOwn
  <2>5. CASE data = requests[Selected].about BY <2>5 DEF PeerStatsAreItsOwn
  <2>6. CASE Overtaken(Selected)
    <3>1. PICK j \in DOMAIN requests :
            /\ j < Selected /\ requests[j].kind = "stats" /\ requests[j].state \in {"gone", "failed"}
            /\ requests[j].nonce = requests[Selected].nonce
      BY <2>6 DEF Overtaken
    <3>2. j \notin OpenedStats
      <4>1. j # Selected BY <2>1, <2>3, <3>1, RequestTypes DEF OpenedStats, Number
      <4> QED BY <2>1, <2>3, <3>1, <4>1 DEF NoncesAreDistinct
    <3>3. j \in 1..(mount - 1)
      BY <2>1, <2>2, <3>1, <3>2, RequestTypes DEF OpenedStats, Number, TypeOK
    <3> QED BY <3>1, <3>3 DEF PeerStatsAreItsOwn
  <2> QED BY <2>1, <2>3, <2>4, <2>5, <2>6 DEF StatsAreOvertaken
<1>2. IInv => PeerStatsAreItsOwn BY <1>1 DEF PeerStatsAreItsOwn
<1> QED BY <1>2, InvariantHolds, PTL
=============================================================================
