--------------------------- MODULE StatsFeedProofs ---------------------------
(***************************************************************************)
(* Proofs about StatsFeed, for any messages, changes and queues: types,    *)
(* the timers of the reporter, and what a page may miss.                   *)
(***************************************************************************)
EXTENDS StatsFeed, SequenceTheorems, TLAPS

-----------------------------------------------------------------------------
(* The timers. *)

\* At most one timer is remembered, the one armed last, and at most one forgotten.
Few(ts) ==
  /\ ts \in Seq(Timer)
  /\ Len(ts) <= 2
  /\ Len(ts) = 2 => ~ts[1].tracked /\ ts[2].tracked

TimersInv == Few(timers)

LEMMA UpToTwo ==
  ASSUME NEW k \in Nat, k <= 2
  PROVE  /\ k \in {0, 1, 2}
         /\ \A i \in 1..(k - 1) : k = 2 /\ i = 1
         /\ k + 1 = 2 => k = 1 /\ 1 \in 1..k
OBVIOUS

\* Clearing leaves the forgotten timer, and nothing of a timer that is remembered alone.
LEMMA ClearedTimers ==
  ASSUME NEW ts, Few(ts)
  PROVE  /\ Cleared(ts) \in Seq(Timer) /\ Len(Cleared(ts)) <= 1
         /\ \A i \in 1..Len(Cleared(ts)) : ~Cleared(ts)[i].tracked
         /\ (Len(ts) = 1 /\ ts[1].tracked) \/ ts = <<>> => Len(Cleared(ts)) = 0
<1>1. ts \in Seq(Timer) /\ Len(ts) \in Nat /\ Len(ts) <= 2 BY LenProperties DEF Few
<1>2. CASE ts = <<>>
  BY <1>1, <1>2, EmptySeq DEF Cleared
<1>3. CASE ts # <<>> /\ ts[Len(ts)].tracked
  <2>1. Len(ts) \in Nat \ {0} BY <1>1, <1>3, EmptySeq
  <2>2. \A i \in 1..(Len(ts) - 1) : ts[i] \in Timer BY <1>1, <2>1, ElementOfSeq
  <2>3. Cleared(ts) = SubSeq(ts, 1, Len(ts) - 1) BY <1>3 DEF Cleared
  <2>4. /\ Cleared(ts) \in Seq(Timer)
        /\ Len(Cleared(ts)) = Len(ts) - 1
        /\ \A i \in 1..(Len(ts) - 1) : Cleared(ts)[i] = ts[i]
    <3> DEFINE n == Len(ts) - 1
    <3>1. n \in Nat BY <2>1
    <3> HIDE DEF n
    <3>2. /\ SubSeq(ts, 1, n) \in Seq(Timer)
          /\ Len(SubSeq(ts, 1, n)) = IF 1 <= n THEN n - 1 + 1 ELSE 0
          /\ \A i \in 1..(n - 1 + 1) : SubSeq(ts, 1, n)[i] = ts[1 + i - 1]
      BY <2>2, <3>1, SubSeqProperties DEF n
    <3>3. Len(SubSeq(ts, 1, n)) = n /\ \A i \in 1..n : SubSeq(ts, 1, n)[i] = ts[i]
      BY <3>1, <3>2
    <3> QED BY <2>3, <3>2, <3>3 DEF n
  <2>5. \A i \in 1..(Len(ts) - 1) : Len(ts) = 2 /\ i = 1 BY <1>1, UpToTwo
  <2> QED BY <1>1, <1>3, <2>1, <2>4, <2>5 DEF Few
<1>4. CASE ts # <<>> /\ ~ts[Len(ts)].tracked
  <2>1. Len(ts) = 1
    <3>1. Len(ts) \in Nat \ {0} BY <1>1, <1>4, EmptySeq
    <3>2. Len(ts) # 2 BY <1>4 DEF Few
    <3> QED BY <1>1, <3>1, <3>2, UpToTwo
  <2>2. Cleared(ts) = ts BY <1>4 DEF Cleared
  <2>3. ~ts[1].tracked BY <1>4, <2>1
  <2>4. \A i \in 1..Len(ts) : ~ts[i].tracked
    <3>1. \A i \in 1..1 : i = 1 OBVIOUS
    <3> QED BY <2>1, <2>3, <3>1
  <2>5. Len(ts) <= 1 BY <2>1
  <2> QED BY <1>1, <1>4, <2>2, <2>3, <2>4, <2>5
<1> QED BY <1>2, <1>3, <1>4

LEMMA ArmedTimers ==
  ASSUME NEW ts, Few(ts)
  PROVE  /\ Few(Armed(ts))
         /\ (Len(ts) = 1 /\ ts[1].tracked) \/ ts = <<>> => Len(Armed(ts)) = 1
<1> DEFINE c == Cleared(ts)
<1>1. /\ c \in Seq(Timer) /\ Len(c) <= 1 /\ \A i \in 1..Len(c) : ~c[i].tracked
      /\ (Len(ts) = 1 /\ ts[1].tracked) \/ ts = <<>> => Len(c) = 0
  BY ClearedTimers
<1> HIDE DEF c
<1>2. Young \in Timer /\ Young.tracked BY DEF Young, Timer
<1>3. Len(c) \in Nat BY <1>1, LenProperties
<1>4. Armed(ts) = Append(c, Young) BY DEF Armed, c
<1>5. /\ Armed(ts) \in Seq(Timer)
      /\ Len(Armed(ts)) = Len(c) + 1
      /\ \A i \in 1..Len(c) : Armed(ts)[i] = c[i]
      /\ Armed(ts)[Len(c) + 1] = Young
  BY <1>1, <1>2, <1>4, AppendProperties
<1>6. Len(Armed(ts)) = 2 => Len(c) = 1 /\ ~c[1].tracked
  <2>1. Len(c) <= 2 BY <1>1, <1>3
  <2>2. Len(c) + 1 = 2 => Len(c) = 1 /\ 1 \in 1..Len(c) BY <1>3, <2>1, UpToTwo
  <2> QED BY <1>1, <1>5, <2>2
<1>7. Len(Armed(ts)) <= 2 BY <1>1, <1>3, <1>5
<1>8. Few(Armed(ts)) BY <1>2, <1>5, <1>6, <1>7 DEF Few
<1> QED BY <1>1, <1>3, <1>5, <1>8

\* A function that changes the timers one by one changes neither their number nor their type.
LEMMA MappedTimers ==
  ASSUME NEW ts \in Seq(Timer), NEW us,
         DOMAIN us = 1..Len(ts), us = [i \in 1..Len(ts) |-> us[i]],
         \A i \in 1..Len(ts) : us[i] \in Timer
  PROVE  us \in Seq(Timer) /\ Len(us) = Len(ts)
<1>1. Len(ts) \in Nat BY LenProperties
<1>2. us \in [1..Len(ts) -> Timer] OBVIOUS
<1>3. us \in Seq(Timer) BY <1>1, <1>2, SeqDef
<1> QED BY <1>1, <1>3, LenProperties

LEMMA ReportTimers ==
  ASSUME TimersInv, timers # <<>>, timers' = AfterReport(Tail(timers))
  PROVE  TimersInv'
<1> DEFINE others == Tail(timers)
           armed == IF api = "none" THEN others ELSE Armed(others)
<1>1. timers \in Seq(Timer) /\ Len(timers) \in {1, 2}
  <2>1. timers \in Seq(Timer) /\ Len(timers) <= 2 BY DEF TimersInv, Few
  <2>2. Len(timers) \in Nat \ {0} BY <2>1, EmptySeq
  <2> QED BY <2>1, <2>2, UpToTwo
<1>2. /\ others \in Seq(Timer) /\ Len(others) = Len(timers) - 1
      /\ \A i \in 1..Len(others) : others[i] = timers[i + 1]
  BY <1>1, HeadTailProperties
<1>3. /\ Len(others) = 0 \/ (Len(others) = 1 /\ others[1].tracked)
      /\ Few(others)
  BY <1>1, <1>2 DEF TimersInv, Few
<1>4. others = <<>> \/ (Len(others) = 1 /\ others[1].tracked)
  BY <1>2, <1>3, EmptySeq
<1> HIDE DEF others
<1>5. armed \in Seq(Timer) /\ Len(armed) <= 1
  <2>1. Few(Armed(others)) /\ Len(Armed(others)) = 1 BY <1>3, <1>4, ArmedTimers
  <2>2. Armed(others) \in Seq(Timer) BY <2>1 DEF Few
  <2>3. Len(others) <= 1 BY <1>3
  <2>4. CASE api = "none" BY <1>2, <2>3, <2>4
  <2>5. CASE api # "none"
    <3>1. Len(Armed(others)) <= 1 BY <2>1
    <3> QED BY <2>2, <2>5, <3>1
  <2> QED BY <2>4, <2>5
<1>6. timers' = [i \in DOMAIN armed |-> Forgotten(armed[i])] BY DEF AfterReport, others
<1> HIDE DEF armed
<1>7. DOMAIN armed = 1..Len(armed) /\ \A i \in 1..Len(armed) : armed[i] \in Timer
  BY <1>5, LenProperties, ElementOfSeq
<1>8. \A i \in 1..Len(armed) : timers'[i] \in Timer
  BY <1>6, <1>7 DEF Forgotten, Timer
<1>9. timers' \in Seq(Timer) /\ Len(timers') = Len(armed)
  BY <1>5, <1>6, <1>7, <1>8, MappedTimers
<1> QED BY <1>5, <1>9, LenProperties DEF TimersInv, Few

LEMMA SecondTimers ==
  ASSUME TimersInv, Second
  PROVE  TimersInv'
<1>1. timers' = [i \in DOMAIN timers |-> [timers[i] EXCEPT !.due = TRUE]] BY DEF Second
<1>2. timers \in Seq(Timer) /\ Len(timers) \in Nat BY LenProperties DEF TimersInv, Few
<1>3. DOMAIN timers = 1..Len(timers) /\ \A i \in 1..Len(timers) : timers[i] \in Timer
  BY <1>2, LenProperties, ElementOfSeq
<1>4. \A i \in 1..Len(timers) : timers'[i] \in Timer /\ timers'[i].tracked = timers[i].tracked
  BY <1>1, <1>3 DEF Timer
<1>5. timers' \in Seq(Timer) /\ Len(timers') = Len(timers)
  BY <1>1, <1>2, <1>3, <1>4, MappedTimers
<1> QED BY <1>2, <1>4, <1>5 DEF TimersInv, Few

LEMMA TimersInvIsInductive ==
  ASSUME TimersInv, [Next]_vars
  PROVE  TimersInv'
<1>1. CASE ReportFires
  BY <1>1, ReportTimers DEF ReportFires
<1>2. CASE Second
  BY <1>2, SecondTimers
<1>3. CASE timers' = Armed(timers)
  BY <1>3, ArmedTimers DEF TimersInv
<1>4. CASE UNCHANGED timers
  BY <1>4 DEF TimersInv
<1>5. (DhtNode \/ DhtReportFires \/ Change \/ Traffic) => timers' = Armed(timers) \/ UNCHANGED timers
  BY DEF DhtNode, DhtReportFires, Change, Traffic
<1>6. (AnswerHistory \/ Open \/ Break \/ CloseNoticed \/ \E m \in Msg : NewMessage(m))
        => timers' = Armed(timers) \/ UNCHANGED timers
  BY DEF AnswerHistory, Open, Break, CloseNoticed, NewMessage, backendVars
<1>7. /\ (PageReceives \/ RunEffect \/ Render \/ UNCHANGED vars) => UNCHANGED timers
      /\ (\E v \in Versions : LookupEnds(v) \/ LookupFails(v)) => UNCHANGED timers
  BY DEF PageReceives, RunEffect, Render, LookupEnds, LookupFails, backendVars, vars
<1> QED BY <1>1, <1>2, <1>3, <1>4, <1>5, <1>6, <1>7 DEF Next

\* A report forgets the timer that sending it arms; still there are never more than two.
THEOREM TimersStayFew == Spec => []AtMostTwoTimers
<1>1. Init => TimersInv
  BY DEF Init, TimersInv, Few, Young, Timer
<1>2. TimersInv => AtMostTwoTimers BY DEF TimersInv, Few, AtMostTwoTimers
<1> QED BY <1>1, <1>2, TimersInvIsInductive, PTL DEF Spec

-----------------------------------------------------------------------------
(* The packets. *)

LEMMA PacketFields ==
  ASSUME NEW p \in Packet
  PROVE  /\ p.type = "message" => p.message \in Msg
         /\ p.type = "message_history" => p.messages \subseteq Msg
         /\ p.type = "stats" => p.version \in 0..MaxChanges
         /\ p.type \in {"message", "message_history", "partial", "stats"}
BY DEF Packet

\* What is sent goes behind what is on the way.
LEMMA SendAppends ==
  ASSUME toPage \in Seq(Packet), NEW p \in Packet, Send(<<p>>)
  PROVE  /\ toPage' \in Seq(Packet)
         /\ \A m : OnTheWay(m) => OnTheWay(m)'
         /\ api = "current" => \A m : Carries(p, m) => OnTheWay(m)'
<1>1. CASE api = "current"
  <2>1. toPage' = Append(toPage, p) BY <1>1, AppendIsConcat DEF Send
  <2>2. /\ Append(toPage, p) \in Seq(Packet)
        /\ Len(Append(toPage, p)) = Len(toPage) + 1
        /\ \A i \in 1..Len(toPage) : Append(toPage, p)[i] = toPage[i]
        /\ Append(toPage, p)[Len(toPage) + 1] = p
    BY AppendProperties
  <2>3. /\ Len(toPage) \in Nat
        /\ DOMAIN toPage = 1..Len(toPage) /\ DOMAIN toPage' = 1..(Len(toPage) + 1)
    BY <2>1, <2>2, LenProperties
  <2>4. /\ \A i \in DOMAIN toPage : i \in DOMAIN toPage' /\ toPage'[i] = toPage[i]
        /\ Len(toPage) + 1 \in DOMAIN toPage' /\ toPage'[Len(toPage) + 1] = p
    BY <2>1, <2>2, <2>3
  <2> QED BY <2>1, <2>2, <2>4 DEF OnTheWay
<1>2. CASE api # "current"
  BY <1>2 DEF Send, OnTheWay
<1> QED BY <1>1, <1>2

\* What the page takes is no more on the way.
LEMMA TakenPacket ==
  ASSUME toPage \in Seq(Packet), toPage # <<>>, toPage' = Tail(toPage)
  PROVE  /\ Head(toPage) \in Packet /\ toPage' \in Seq(Packet)
         /\ \A m : OnTheWay(m) => OnTheWay(m)' \/ Carries(Head(toPage), m)
<1>1. /\ Head(toPage) \in Packet /\ Tail(toPage) \in Seq(Packet)
      /\ Len(Tail(toPage)) = Len(toPage) - 1
      /\ \A i \in 1..Len(Tail(toPage)) : Tail(toPage)[i] = toPage[i + 1]
  BY HeadTailProperties
<1>2. Len(toPage) \in Nat /\ DOMAIN toPage = 1..Len(toPage) BY LenProperties
<1>3. DOMAIN toPage' = 1..(Len(toPage) - 1) BY <1>1, LenProperties
<1>4. Head(toPage) = toPage[1] BY EmptySeq, LenProperties
<1>5. \A i \in DOMAIN toPage : i = 1 \/ (i - 1 \in DOMAIN toPage' /\ toPage'[i - 1] = toPage[i])
  BY <1>1, <1>2, <1>3
<1> QED BY <1>1, <1>4, <1>5 DEF OnTheWay

-----------------------------------------------------------------------------
(* Types. *)

\* What AppendMessages() makes of the lists of a page
LEMMA AppendedTypes ==
  ASSUME TypeOK, NEW new \in SUBSET Msg, AppendMessages(new)
  PROVE  /\ ref' \subseteq Msg /\ queued' \subseteq Msg /\ rendered' \subseteq Msg
         /\ effect' \in BOOLEAN /\ overwritten' \subseteq Msg
BY DEF TypeOK, AppendMessages, listVars

\* What a list of peers that is looked up adds
LEMMA LookUpTypes ==
  ASSUME TypeOK, NEW v \in Versions, LookUp(v)
  PROVE  lookups' \in [Versions -> Nat] /\ listed' \in Versions
BY DEF TypeOK, LookUp

LEMMA LookupTypes ==
  ASSUME TypeOK, NEW v \in Versions, LookupEnds(v) \/ LookupFails(v)
  PROVE  TypeOK'
<1>1. lookups[v] - 1 \in Nat BY DEF TypeOK, LookupEnds, LookupFails
<1>2. lookups' = [lookups EXCEPT ![v] = lookups[v] - 1] BY DEF LookupEnds, LookupFails
<1>3. lookups' \in [Versions -> Nat] BY <1>1, <1>2 DEF TypeOK
<1>4. listed' \in Versions BY DEF TypeOK, LookupEnds, LookupFails
<1> QED BY <1>3, <1>4 DEF TypeOK, LookupEnds, LookupFails, backendVars, linkVars, listVars

LEMMA TypesAreInductive ==
  ASSUME TypeOK, TimersInv', [Next]_vars
  PROVE  TypeOK'
<1>0. timers' \in Seq(Timer) BY DEF TimersInv, Few
<1> USE DEF TypeOK
<1>1. CASE ReportFires
  <2>1. [type |-> "stats", version |-> version] \in Packet BY DEF Packet
  <2>2. toPage' \in Seq(Packet) BY <1>1, <2>1, SendAppends DEF ReportFires, ReportPackets
  <2> QED BY <1>0, <1>1, <2>2 DEF ReportFires, pageVars, peerVars, listVars
<1>2. CASE DhtReportFires \/ Change
  <2>1. [type |-> "partial"] \in Packet BY DEF Packet
  <2>2. toPage' \in Seq(Packet) BY <1>2, <2>1, SendAppends DEF DhtReportFires, Change
  <2>3. version' \in 0..MaxChanges BY <1>2, FeedAssumption DEF DhtReportFires, Change
  <2> QED BY <1>0, <1>2, <2>2, <2>3 DEF DhtReportFires, Change, pageVars, peerVars, listVars
<1>3. ASSUME NEW m \in Msg, NewMessage(m) PROVE TypeOK'
  <2>1. [type |-> "message", message |-> m] \in Packet BY DEF Packet
  <2>2. toPage' \in Seq(Packet) BY <1>3, <2>1, SendAppends DEF NewMessage
  <2> QED BY <1>0, <1>3, <2>2 DEF NewMessage, pageVars, peerVars, listVars
<1>4. CASE AnswerHistory
  <2>1. [type |-> "message_history", messages |-> history] \in Packet BY DEF Packet
  <2>2. toPage' \in Seq(Packet) BY <1>4, <2>1, SendAppends DEF AnswerHistory
  <2> QED BY <1>0, <1>4, <2>2 DEF AnswerHistory, pageVars, peerVars, listVars
<1>5. CASE DhtNode \/ Traffic \/ Second \/ Open \/ CloseNoticed
  BY <1>0, <1>5 DEF DhtNode, Traffic, Second, Open, CloseNoticed, linkVars, pageVars, peerVars, listVars
<1>6. CASE Break
  <2>1. <<>> \in Seq(Packet) BY EmptySeq
  <2>2. breaks' \in 0..MaxBreaks BY <1>6, FeedAssumption DEF Break
  <2> QED BY <1>6, <2>1, <2>2 DEF Break, backendVars, pageVars, peerVars, listVars
<1>7. CASE PageReceives
  <2>1. Head(toPage) \in Packet /\ toPage' \in Seq(Packet)
    BY <1>7, TakenPacket DEF PageReceives
  <2>2. UNCHANGED <<backendVars, api, asked, breaks, page>> BY <1>7 DEF PageReceives
  <2> DEFINE p == Head(toPage)
  <2>3. CASE p.type = "message" /\ OnMessage(p.message)
    <3>1. {p.message} \subseteq Msg BY <2>1, <2>3, PacketFields
    <3> HIDE DEF p
    <3>2. /\ ref' \subseteq Msg /\ queued' \subseteq Msg /\ rendered' \subseteq Msg
          /\ effect' \in BOOLEAN /\ overwritten' \subseteq Msg
      BY <2>3, <3>1, AppendedTypes DEF OnMessage, listVars
    <3> QED BY <2>1, <2>2, <2>3, <3>1, <3>2 DEF OnMessage, peerVars, backendVars
  <2>4. CASE p.type = "message_history" /\ OnHistory(p.messages)
    <3>1. p.messages \subseteq Msg BY <2>1, <2>4, PacketFields
    <3> HIDE DEF p
    <3>2. /\ ref' \subseteq Msg /\ queued' \subseteq Msg /\ rendered' \subseteq Msg
          /\ effect' \in BOOLEAN /\ overwritten' \subseteq Msg
      BY <2>4, <3>1, AppendedTypes DEF OnHistory
    <3> QED BY <2>1, <2>2, <2>4, <3>2 DEF OnHistory, peerVars, backendVars
  <2>5. CASE OnPartial
    <3>1. lookups' \in [Versions -> Nat] /\ listed' \in Versions
      BY <2>5, LookUpTypes DEF OnPartial, Versions, peerVars
    <3> HIDE DEF p
    <3> QED BY <2>1, <2>2, <2>5, <3>1 DEF OnPartial, backendVars, listVars
  <2>6. CASE p.type = "stats" /\ OnStats(p.version)
    <3>1. p.version \in Versions BY <2>1, <2>6, PacketFields DEF Versions
    <3> HIDE DEF p
    <3>2. /\ ref' \subseteq Msg /\ queued' \subseteq Msg /\ rendered' \subseteq Msg
          /\ effect' \in BOOLEAN /\ overwritten' \subseteq Msg
      BY <2>6, AppendedTypes DEF OnStats, Flushed
    <3>3. view' = p.version /\ LookUp(view') BY <2>6 DEF OnStats, Merged
    <3>4. LookUp(p.version) BY <3>3
    <3>5. lookups' \in [Versions -> Nat] /\ listed' \in Versions
      BY <3>1, <3>4, LookUpTypes
    <3> QED BY <2>1, <2>2, <2>6, <3>1, <3>2, <3>3, <3>5 DEF OnStats, backendVars
  <2> QED BY <1>7, <2>3, <2>4, <2>5, <2>6 DEF PageReceives
<1>8. CASE RunEffect \/ Render
  BY <1>8 DEF RunEffect, Render, peerVars, backendVars, linkVars
<1>9. CASE UNCHANGED vars
  BY <1>9 DEF vars, backendVars, linkVars, pageVars, peerVars, listVars
<1>10. CASE \E v \in Versions : LookupEnds(v) \/ LookupFails(v)
  BY <1>10, LookupTypes
<1> QED BY <1>1, <1>2, <1>3, <1>4, <1>5, <1>6, <1>7, <1>8, <1>9, <1>10 DEF Next

\* The variables keep their types.
THEOREM FeedIsTyped == Spec => []TypeOK
<1>1. Init => TimersInv
  BY DEF Init, TimersInv, Few, Young, Timer
<1>2. Init => TypeOK
  <2>1. <<Young>> \in Seq(Timer) /\ <<>> \in Seq(Packet) BY EmptySeq DEF Young, Timer
  <2>2. /\ 0 \in 0..MaxChanges /\ 0 \in 0..MaxBreaks /\ NoVersion \in Versions
        /\ [v \in Versions |-> 0] \in [Versions -> Nat]
    BY FeedAssumption DEF Versions
  <2> QED BY <2>1, <2>2 DEF Init, TypeOK
<1>3. TimersInv /\ TypeOK /\ [Next]_vars => TimersInv' /\ TypeOK'
  BY TimersInvIsInductive, TypesAreInductive
<1> QED BY <1>1, <1>2, <1>3, PTL DEF Spec

-----------------------------------------------------------------------------
(* What a page misses. *)

\* The page shows a message, keeps it for later, is about to get it, or has lost it in
\* one of the two ways.
Accounted(m) ==
  \/ m \in queued
  \/ m \in pending /\ self # "own"
  \/ OnTheWay(m)
  \/ m \in dropped \cup overwritten

\* The lists that the page works on hold nothing that was not given to setMessages.
ListsInv ==
  /\ ref \subseteq queued \cup overwritten
  /\ rendered \subseteq queued \cup overwritten

FeedInv ==
  /\ TypeOK
  /\ ListsInv
  /\ self = "own" => pending = {}
  /\ page = "open" => api = "current"
  /\ page = "open" /\ ~asked => \A m \in history : Accounted(m)

\* A list that is appended to loses nothing unseen, and what is new is in it afterwards.
LEMMA AppendedLists ==
  ASSUME ListsInv, NEW new, AppendMessages(new)
  PROVE  /\ ListsInv'
         /\ queued \cup overwritten \cup new \subseteq queued' \cup overwritten'
<1>1. CASE new \subseteq ref
  BY <1>1 DEF AppendMessages, ListsInv, listVars
<1>2. CASE ~(new \subseteq ref)
  BY <1>2 DEF AppendMessages, ListsInv
<1> QED BY <1>1, <1>2

\* The steps that leave the page as it is
LEMMA BackendSteps ==
  ASSUME FeedInv, TypeOK', UNCHANGED <<pageVars, page, api>>,
         \A m : OnTheWay(m) => OnTheWay(m)',
         page = "open" /\ ~asked' => \A m \in history' : Accounted(m) \/ OnTheWay(m)'
  PROVE  FeedInv'
BY DEF FeedInv, ListsInv, Accounted, pageVars, listVars

LEMMA PageReceivesStep ==
  ASSUME FeedInv, TypeOK', PageReceives
  PROVE  FeedInv'
<1> DEFINE p == Head(toPage)
<1>1. \A m : OnTheWay(m) => OnTheWay(m)' \/ Carries(p, m)
  BY TakenPacket DEF FeedInv, TypeOK, PageReceives
<1>2. UNCHANGED <<backendVars, api, asked, breaks, page>> BY DEF PageReceives
<1>3. p \in Packet BY TakenPacket DEF FeedInv, TypeOK, PageReceives
<1> HIDE DEF p
<1>4. SUFFICES /\ ListsInv'
               /\ self' = "own" => pending' = {}
               /\ \A m : Accounted(m) => Accounted(m)'
  BY <1>2 DEF FeedInv, backendVars
<1>5. CASE p.type = "message" /\ OnMessage(p.message)
  <2>1. \A m : Carries(p, m) => m = p.message BY <1>5 DEF Carries
  <2>2. CASE p.message \in Global \/ self = "own"
    <3>1. AppendMessages({p.message}) /\ UNCHANGED <<pending, dropped, self>>
      BY <1>5, <2>2 DEF OnMessage
    <3>2. /\ ListsInv'
          /\ queued \cup overwritten \cup {p.message} \subseteq queued' \cup overwritten'
      BY <3>1, AppendedLists DEF FeedInv
    <3> QED BY <1>1, <2>1, <3>1, <3>2 DEF FeedInv, Accounted
  <2>3. CASE ~(p.message \in Global \/ self = "own")
    <3>1. /\ UNCHANGED <<ref, queued, rendered, overwritten, self>>
          /\ pending \subseteq pending' /\ dropped \subseteq dropped'
          /\ p.message \in pending' \cup dropped'
      BY <1>5, <2>3 DEF OnMessage, listVars
    <3> QED BY <1>1, <2>1, <2>3, <3>1 DEF FeedInv, ListsInv, Accounted
  <2> QED BY <2>2, <2>3
<1>6. CASE p.type = "message_history" /\ OnHistory(p.messages)
  <2>1. \A m : Carries(p, m) => m \in p.messages BY <1>6 DEF Carries
  <2>2. AppendMessages(p.messages) /\ UNCHANGED <<pending, dropped, self>> BY <1>6 DEF OnHistory
  <2>3. /\ ListsInv'
        /\ queued \cup overwritten \cup p.messages \subseteq queued' \cup overwritten'
    BY <2>2, AppendedLists DEF FeedInv
  <2> QED BY <1>1, <2>1, <2>2, <2>3 DEF FeedInv, Accounted
<1>7. CASE p.type = "partial" /\ OnPartial
  <2>1. \A m : ~Carries(p, m) BY <1>7 DEF Carries
  <2>2. /\ UNCHANGED <<pending, ref, queued, rendered, overwritten, dropped>>
        /\ self' = "own" <=> self = "own"
    BY <1>7 DEF OnPartial, listVars
  <2> QED BY <1>1, <2>1, <2>2 DEF FeedInv, ListsInv, Accounted
<1>8. CASE p.type = "stats" /\ OnStats(p.version)
  <2>1. \A m : ~Carries(p, m) BY <1>8 DEF Carries
  <2>2. AppendMessages(pending) /\ pending' = {} /\ UNCHANGED dropped
    BY <1>8 DEF OnStats, Flushed
  <2>3. /\ ListsInv'
        /\ queued \cup overwritten \cup pending \subseteq queued' \cup overwritten'
    BY <2>2, AppendedLists DEF FeedInv
  <2> QED BY <1>1, <2>1, <2>2, <2>3 DEF Accounted
<1> QED BY <1>5, <1>6, <1>7, <1>8 DEF PageReceives, p

LEMMA FeedInvIsInductive ==
  ASSUME FeedInv, TypeOK', [Next]_vars
  PROVE  FeedInv'
<1>0. toPage \in Seq(Packet) /\ history \subseteq Msg BY DEF FeedInv, TypeOK
<1>1. CASE ReportFires
  <2>1. [type |-> "stats", version |-> version] \in Packet BY DEF FeedInv, TypeOK, Packet
  <2>2. \A m : OnTheWay(m) => OnTheWay(m)'
    BY <1>0, <1>1, <2>1, SendAppends DEF ReportFires, ReportPackets
  <2> QED BY <1>1, <2>2, BackendSteps DEF ReportFires, FeedInv
<1>2. CASE DhtReportFires \/ Change
  <2>1. [type |-> "partial"] \in Packet BY DEF Packet
  <2>2. \A m : OnTheWay(m) => OnTheWay(m)'
    BY <1>0, <1>2, <2>1, SendAppends DEF DhtReportFires, Change, OnTheWay
  <2> QED BY <1>2, <2>2, BackendSteps DEF DhtReportFires, Change, FeedInv
<1>3. ASSUME NEW k \in Msg, NewMessage(k) PROVE FeedInv'
  <2> DEFINE p == [type |-> "message", message |-> k]
  <2>1. p \in Packet /\ Carries(p, k) BY DEF Packet, Carries
  <2> HIDE DEF p
  <2>2. Send(<<p>>) BY <1>3 DEF NewMessage, p
  <2>3. /\ \A m : OnTheWay(m) => OnTheWay(m)'
        /\ page = "open" => OnTheWay(k)'
    BY <1>0, <2>1, <2>2, SendAppends DEF FeedInv
  <2> QED BY <1>3, <2>3, BackendSteps DEF NewMessage, FeedInv
<1>4. CASE AnswerHistory
  <2> DEFINE p == [type |-> "message_history", messages |-> history]
  <2>1. p \in Packet /\ \A m \in history : Carries(p, m) BY <1>0 DEF Packet, Carries
  <2> HIDE DEF p
  <2>2. Send(<<p>>) BY <1>4 DEF AnswerHistory, p
  <2>3. /\ \A m : OnTheWay(m) => OnTheWay(m)'
        /\ page = "open" => \A m \in history : OnTheWay(m)'
    BY <1>0, <2>1, <2>2, SendAppends DEF FeedInv
  <2> QED BY <1>4, <2>3, BackendSteps DEF AnswerHistory
<1>5. CASE DhtNode \/ Traffic \/ Second \/ UNCHANGED vars
  <2>1. UNCHANGED <<history, linkVars, pageVars>>
    BY <1>5 DEF DhtNode, Traffic, Second, vars, backendVars
  <2> QED BY <2>1 DEF FeedInv, ListsInv, Accounted, OnTheWay, linkVars, pageVars, listVars
<1>6. CASE Open
  BY <1>6 DEF Open, FeedInv, ListsInv, pageVars, listVars
<1>7. CASE Break
  BY <1>7 DEF Break, FeedInv, ListsInv, pageVars, listVars
<1>8. CASE CloseNoticed
  BY <1>8 DEF CloseNoticed, FeedInv, ListsInv, pageVars, listVars
<1>9. CASE PageReceives
  BY <1>9, PageReceivesStep
<1>10. CASE RunEffect \/ Render
  <2>1. UNCHANGED <<history, toPage, page, api, asked, self, pending, queued, dropped, overwritten>>
    BY <1>10 DEF RunEffect, Render, backendVars, linkVars
  <2>2. ListsInv' BY <1>10 DEF RunEffect, Render, FeedInv, ListsInv
  <2> QED BY <2>1, <2>2 DEF FeedInv, Accounted, OnTheWay
<1>11. CASE \E v \in Versions : LookupEnds(v) \/ LookupFails(v)
  <2>1. UNCHANGED <<backendVars, linkVars, self, pending, listVars, dropped>>
    BY <1>11 DEF LookupEnds, LookupFails
  <2> QED BY <2>1 DEF FeedInv, ListsInv, Accounted, OnTheWay, backendVars, linkVars, listVars
<1> QED BY <1>1, <1>2, <1>3, <1>4, <1>5, <1>6, <1>7, <1>8, <1>9, <1>10, <1>11 DEF Next

\* Whatever breaks and however React renders, a connected page misses a message only in
\* the two ways.
THEOREM OnlyTwoWaysToMiss == Spec => []MissesOnlyInTwoWays
<1>1. Init => FeedInv \/ ~TypeOK
  BY DEF Init, FeedInv, ListsInv
<1>2. TypeOK /\ FeedInv /\ TypeOK' /\ [Next]_vars => FeedInv'
  BY FeedInvIsInductive
<1>3. FeedInv => MissesOnlyInTwoWays
  BY DEF FeedInv, Accounted, MissesOnlyInTwoWays
<1> QED BY <1>1, <1>2, <1>3, FeedIsTyped, PTL DEF Spec

=============================================================================
