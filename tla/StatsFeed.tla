----------------------------- MODULE StatsFeed -----------------------------
(***************************************************************************)
(* What the backend pushes to the page and what the page makes of it: the  *)
(* reports of the StatsReporter, which a debounce timer delays, and the    *)
(* messages of the node, which are pushed as they come and asked for as a  *)
(* whole when the page connects (StatsReporter.ts; App.tsx).               *)
(*                                                                         *)
(* What a report tells is a version, which every change raises.  A delay   *)
(* of one second ends at some Second; timers of equal delay fire in the    *)
(* order in which they were armed.  The page renders, and then runs the    *)
(* effects of the rendering, whenever React chooses, but it runs the       *)
(* effects of a rendering before the next rendering.  The list of peers is *)
(* shown when the countries of a report's peers have been looked up, which *)
(* lookups of several reports may do in any order, or fail to; the list of *)
(* DHT nodes goes the same way and is left out.                            *)
(***************************************************************************)
EXTENDS Integers, Sequences, Functions

CONSTANTS
  Msg,         \* messages that the node receives
  Global,      \* those of them that are sent to the global chat
  MaxChanges,  \* how often the statistics change
  MaxPackets,  \* how many packets may be on the way to the page
  MaxBreaks,   \* how often the connection breaks
  MaxLookups   \* for how many lists of peers countries are looked up at a time

ASSUME FeedAssumption ==
  /\ Global \subseteq Msg
  /\ MaxChanges \in Nat /\ MaxPackets \in Nat \ {0} /\ MaxBreaks \in Nat
  /\ MaxLookups \in Nat \ {0}

VARIABLES
  version,   \* the statistics as they are
  timers,    \* the stats timers that are armed, in the order of arming
  dhtTimer,  \* dhtDebounceTimer is armed
  history,   \* localMessageHistory
  api,       \* apiPeer: "none", "current", or "stale" after its socket broke
  asked,     \* the page's message_history request is on the way
  toPage,    \* the packets on the way to the page
  breaks,    \* how often the connection has broken
  page,      \* wsState: "open" or "closed"
  self,      \* the page's stats.self.address: "none", "placeholder" or "own"
  view,      \* the version that the page knows, and shows but for the peers
  lookups,   \* how many lists of each version have their countries looked up
  listed,    \* the version of the list of peers that is shown
  pending,   \* pendingDirectMessagesRef
  ref,       \* messagesRef
  queued,    \* the messages last given to setMessages
  rendered,  \* the messages of the last rendering
  effect,    \* its effect, which assigns messagesRef, has not run yet
  dropped,   \* history variable: messages for the node that met a placeholder
  overwritten \* history variable: messages that a later setMessages left out

backendVars == <<version, timers, dhtTimer, history>>
linkVars    == <<api, asked, toPage, breaks, page>>
listVars    == <<ref, queued, rendered, effect, overwritten>>
peerVars    == <<lookups, listed>>
pageVars    == <<self, view, peerVars, pending, listVars, dropped>>
vars == <<backendVars, linkVars, pageVars>>

\* A list of peers is of no version before the first report, and when a peer that has
\* connected was put into an older one.
NoVersion == -1
Versions  == {NoVersion} \cup 0..MaxChanges

Timer == [tracked : BOOLEAN, due : BOOLEAN]
Packet ==
  [type : {"message"}, message : Msg] \cup [type : {"message_history"}, messages : SUBSET Msg]
  \cup [type : {"partial"}] \cup [type : {"stats"}, version : 0..MaxChanges]

TypeOK ==
  /\ version \in 0..MaxChanges
  /\ timers \in Seq(Timer) /\ dhtTimer \in BOOLEAN
  /\ history \subseteq Msg
  /\ api \in {"none", "current", "stale"} /\ asked \in BOOLEAN
  /\ toPage \in Seq(Packet) /\ breaks \in 0..MaxBreaks
  /\ page \in {"open", "closed"}
  /\ self \in {"none", "placeholder", "own"}
  /\ view \in Versions /\ listed \in Versions
  /\ lookups \in [Versions -> Nat]
  /\ pending \subseteq Msg /\ dropped \subseteq Msg /\ overwritten \subseteq Msg
  /\ ref \subseteq Msg /\ queued \subseteq Msg /\ rendered \subseteq Msg
  /\ effect \in BOOLEAN

Young == [tracked |-> TRUE, due |-> FALSE]
Forgotten(t) == [t EXCEPT !.tracked = FALSE]

Init ==
  /\ version = 0 /\ timers = <<Young>> /\ dhtTimer = FALSE
  /\ history = {}
  /\ api = "none" /\ asked = FALSE /\ toPage = <<>> /\ breaks = 0
  /\ page = "closed" /\ self = "none"
  /\ view = NoVersion /\ listed = NoVersion /\ lookups = [v \in Versions |-> 0]
  /\ pending = {} /\ dropped = {} /\ overwritten = {}
  /\ ref = {} /\ queued = {} /\ rendered = {} /\ effect = FALSE

-----------------------------------------------------------------------------
(* The StatsReporter *)

\* The timer that is remembered, which can only be the one armed last, is cleared.
Cleared(armed) ==
  IF armed # <<>> /\ armed[Len(armed)].tracked
  THEN SubSeq(armed, 1, Len(armed) - 1) ELSE armed

\* Mutant of Armed: the timer is not cleared.
ArmedAgain(armed) == Append(armed, Young)

\* debouncedStatsReport()
Armed(armed) == Append(Cleared(armed), Young)

\* Every packet to a peer, and every one from a peer, counts as data transfer.
Send(packets) ==
  /\ toPage' = IF api = "current" THEN toPage \o packets ELSE toPage
  /\ Len(toPage') <= MaxPackets

ReportPackets == <<[type |-> "stats", version |-> version]>>

\* The timer that is armed while the report is sent is forgotten by the last
\* line of the callback.
AfterReport(others) ==
  LET armed == IF api = "none" THEN others ELSE Armed(others)
  IN  [i \in DOMAIN armed |-> Forgotten(armed[i])]

ReportFires ==
  /\ timers # <<>> /\ Head(timers).due
  /\ Send(ReportPackets)
  /\ timers' = AfterReport(Tail(timers))
  /\ UNCHANGED <<version, dhtTimer, history, api, asked, breaks, page, pageVars>>

\* A node of the DHT is heard of; the timer is armed anew.
DhtNode ==
  /\ dhtTimer' = TRUE
  /\ UNCHANGED <<version, timers, history, linkVars, pageVars>>

DhtReportFires ==
  /\ dhtTimer
  /\ dhtTimer' = FALSE
  /\ Send(<<[type |-> "partial"]>>)
  /\ timers' = IF api = "none" THEN timers ELSE Armed(timers)
  /\ UNCHANGED <<version, history, api, asked, breaks, page, pageVars>>

\* A peer connects or disconnects, or the votes change.  A connected peer is
\* reported at once.
Change ==
  /\ version < MaxChanges
  /\ version' = version + 1
  /\ \/ Send(<<[type |-> "partial"]>>)
     \/ UNCHANGED toPage
  /\ timers' = Armed(timers)
  /\ UNCHANGED <<dhtTimer, history, api, asked, breaks, page, pageVars>>

\* Packets to and from peers that change nothing that is reported
Traffic ==
  /\ timers' = Armed(timers)
  /\ UNCHANGED <<version, dhtTimer, history, linkVars, pageVars>>

\* A second passes; no timer that is due is still waiting.
Second ==
  /\ timers # <<>> /\ ~ Head(timers).due
  /\ timers' = [i \in DOMAIN timers |-> [timers[i] EXCEPT !.due = TRUE]]
  /\ UNCHANGED <<version, dhtTimer, history, linkVars, pageVars>>

\* A message for this node or the global chat is new: it is remembered, and
\* pushed to the page.
NewMessage(m) ==
  /\ m \notin history
  /\ history' = history \cup {m}
  /\ Send(<<[type |-> "message", message |-> m]>>)
  /\ timers' = Armed(timers)
  /\ UNCHANGED <<version, dhtTimer, api, asked, breaks, page, pageVars>>

\* The request for the history is answered.
AnswerHistory ==
  /\ asked /\ api = "current"
  /\ asked' = FALSE
  /\ Send(<<[type |-> "message_history", messages |-> history]>>)
  /\ timers' = Armed(timers)
  /\ UNCHANGED <<version, dhtTimer, history, api, breaks, page, pageVars>>

-----------------------------------------------------------------------------
(* The connection *)

\* The page connects, again after 5 s, and asks for the history; the backend
\* replaces a connection whose end it has not noticed.
Open ==
  /\ page = "closed"
  /\ page' = "open" /\ api' = "current" /\ asked' = TRUE
  /\ timers' = Armed(timers)
  /\ UNCHANGED <<version, dhtTimer, history, toPage, breaks, pageVars>>

Break ==
  /\ page = "open" /\ breaks < MaxBreaks
  /\ breaks' = breaks + 1
  /\ page' = "closed" /\ api' = "stale" /\ asked' = FALSE /\ toPage' = <<>>
  /\ UNCHANGED <<backendVars, pageVars>>

CloseNoticed ==
  /\ api = "stale"
  /\ api' = "none"
  /\ timers' = Armed(timers)
  /\ UNCHANGED <<version, dhtTimer, history, asked, toPage, breaks, page, pageVars>>

-----------------------------------------------------------------------------
(* The page *)

\* appendMessages(): what is new is added to the list that the ref holds,
\* which may be older than the list last given to setMessages.
AppendMessages(new) ==
  IF new \subseteq ref
  THEN UNCHANGED listVars
  ELSE /\ ref' = ref \cup new
       /\ queued' = ref'
       /\ overwritten' = (overwritten \cup queued) \ ref'
       /\ UNCHANGED <<rendered, effect>>

\* A message is shown if it is for the node or for all; as long as the page
\* has no address for the node, those for the node wait.
OnMessage(m) ==
  /\ IF m \in Global \/ self = "own"
     THEN AppendMessages({m}) /\ UNCHANGED <<pending, dropped>>
     ELSE /\ IF self = "none"
             THEN pending' = pending \cup {m} /\ UNCHANGED dropped
             ELSE dropped' = dropped \cup {m} /\ UNCHANGED pending
          /\ UNCHANGED listVars
  /\ UNCHANGED <<self, view, peerVars>>

OnHistory(messages) ==
  /\ AppendMessages(messages)
  /\ UNCHANGED <<self, view, peerVars, pending, dropped>>

\* A list of peers is to be shown when all its countries are known.
LookUp(v) ==
  /\ SumFunction(lookups) < MaxLookups
  /\ lookups' = [lookups EXCEPT ![v] = @ + 1]
  /\ UNCHANGED listed

\* A partial report that comes first makes up an address for the node.  It tells
\* of a peer, which is put into the list, or of DHT nodes.
OnPartial ==
  /\ self' = IF self = "none" THEN "placeholder" ELSE self
  /\ LookUp(NoVersion) \/ UNCHANGED peerVars
  /\ UNCHANGED <<view, pending, listVars, dropped>>

\* Mutant of Flushed: what has waited is forgotten.
FlushedNone(waiting) == {}

\* The messages that have waited for the address
Flushed(waiting) == waiting

\* Mutant of Merged: what the page knows is kept.
MergedKeeping(old, new) == IF old = NoVersion THEN new ELSE old

\* mergePartialStats(): what a report tells replaces what the page knows.
Merged(old, new) == new

OnStats(v) ==
  /\ self' = "own"
  /\ view' = Merged(view, v)
  /\ LookUp(view')
  /\ AppendMessages(Flushed(pending))
  /\ pending' = {}
  /\ UNCHANGED dropped

PageReceives ==
  /\ page = "open" /\ toPage # <<>>
  /\ toPage' = Tail(toPage)
  /\ LET p == Head(toPage)
     IN  \/ p.type = "message" /\ OnMessage(p.message)
         \/ p.type = "message_history" /\ OnHistory(p.messages)
         \/ p.type = "partial" /\ OnPartial
         \/ p.type = "stats" /\ OnStats(p.version)
  /\ UNCHANGED <<backendVars, api, asked, breaks, page>>

\* All countries of a list are known, and it is shown, whatever is shown already.
LookupEnds(v) ==
  /\ lookups[v] > 0
  /\ lookups' = [lookups EXCEPT ![v] = @ - 1]
  /\ listed' = v
  /\ UNCHANGED <<backendVars, linkVars, self, view, pending, listVars, dropped>>

\* A country cannot be looked up, and nothing of the list is shown.
LookupFails(v) ==
  /\ lookups[v] > 0
  /\ lookups' = [lookups EXCEPT ![v] = @ - 1]
  /\ UNCHANGED <<backendVars, linkVars, self, view, listed, pending, listVars, dropped>>

\* The effect that assigns the rendered messages to messagesRef
RunEffect ==
  /\ effect
  /\ effect' = FALSE
  /\ ref' = rendered
  /\ UNCHANGED <<backendVars, linkVars, self, view, peerVars, pending, queued, rendered, dropped, overwritten>>

\* React renders; the effect of the rendering before it has run by then.
Render ==
  /\ queued # rendered /\ ~ effect
  /\ rendered' = queued
  /\ effect' = TRUE
  /\ UNCHANGED <<backendVars, linkVars, self, view, peerVars, pending, ref, queued, dropped, overwritten>>

Next ==
  \/ ReportFires \/ DhtNode \/ DhtReportFires \/ Change \/ Traffic \/ Second
  \/ \E m \in Msg : NewMessage(m)
  \/ AnswerHistory
  \/ Open \/ Break \/ CloseNoticed
  \/ PageReceives \/ RunEffect \/ Render
  \/ \E v \in Versions : LookupEnds(v) \/ LookupFails(v)

\* Time passes and timers fire; sockets carry what they are given; the page
\* reconnects, React renders, and lookups end in one way or the other.  A timer that is
\* forgotten nobody can clear, so it fires as soon as there is room on the way to the
\* page, which is bounded here only.
Fairness ==
  /\ WF_vars(Second) /\ WF_vars(ReportFires) /\ WF_vars(AnswerHistory)
  /\ WF_vars(Open) /\ WF_vars(PageReceives)
  /\ SF_vars(ReportFires /\ ~ Head(timers).tracked)
  /\ WF_vars(RunEffect) /\ WF_vars(Render)
  /\ \A v \in Versions : WF_vars(LookupEnds(v) \/ LookupFails(v))

Spec == Init /\ [][Next]_vars /\ Fairness

-----------------------------------------------------------------------------
(* Properties *)

\* Although a report forgets the timer that it arms, which nothing clears any
\* more, there are never more than two stats timers (debouncedStatsReport).
AtMostTwoTimers == Len(timers) <= 2

Carries(p, m) ==
  \/ p.type = "message" /\ p.message = m
  \/ p.type = "message_history" /\ m \in p.messages

OnTheWay(m) == \E i \in DOMAIN toPage : Carries(toPage[i], m)

\* A connected page misses a message for this node only in two ways: it came
\* while the page took a placeholder for the node's address, or it was left out
\* of a list made from an older one.  Every other message is shown, waits for
\* the address, or is on the way, whatever breaks between (App.tsx).
MissesOnlyInTwoWays ==
  page = "open" /\ ~ asked =>
    \A m \in history :
      \/ m \in queued
      \/ m \in pending /\ self # "own"
      \/ OnTheWay(m)
      \/ m \in dropped \cup overwritten

\* A page comes to show the statistics as they are, its list of peers included, though
\* reports are lost with a connection and lookups end in any order.  There are two
\* exceptions: lookups that fail for ever, and packets that leave the timer no second
\* before the first report.  Once a report was sent to a page no traffic can stop the
\* next, because the timer that it leaves armed is forgotten (StatsReporter, applyStats).
StatsAreShown ==
  \/ <>[](\A i \in DOMAIN timers : timers[i].tracked)
  \/ []<><<\E v \in Versions : LookupFails(v)>>_vars
  \/ []<>(page = "open" /\ view = version /\ listed = version)

=============================================================================
