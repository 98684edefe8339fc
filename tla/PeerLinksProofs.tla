--------------------------- MODULE PeerLinksProofs ---------------------------
(***************************************************************************)
(* Proofs about PeerLinks, for any nodes and any number of connections,    *)
(* and about what comes over one: the stream of UtpTransport, for any      *)
(* messages and any way to cut what is sent into chunks.                   *)
(***************************************************************************)
EXTENDS PeerLinks, UtpTransport, FiniteSetTheorems, SequenceTheorems, TLAPS

\* What the ends know agrees with the wire: an end that is done has closed it.
EndsMatchWire ==
  \A c \in Conn : links[c] # None =>
    /\ links[c].from # links[c].to
    /\ links[c].dialer \in {"closed", "failed"} => ~links[c].up
    /\ links[c].acceptor \in {"deaf", "ghost", "refused", "closed"} => ~links[c].up

IInv == TypeOK /\ EndsMatchWire /\ TableMatchesLinks /\ NoneIsHalfOpen

\* What EndsMatchWire and NoneIsHalfOpen say of one connection.
Sound(link) ==
  /\ link.from # link.to
  /\ link.dialer \in {"closed", "failed"} => ~link.up
  /\ link.acceptor \in {"deaf", "ghost", "refused", "closed"} => ~link.up
  /\ link.up => /\ link.dialer = "listed" => link.acceptor \in {"verifying", "listed"}
                /\ link.acceptor = "listed" => link.dialer \in {"opening", "listed"}

\* IInv, connection by connection.
LEMMA IInvByLink ==
  IInv <=> /\ TypeOK
           /\ \A c \in Conn : links[c] # None => Sound(links[c])
           /\ TableMatchesLinks
BY DEF IInv, EndsMatchWire, NoneIsHalfOpen, Sound

LEMMA IInvByLinkNext ==
  IInv' <=> /\ TypeOK'
            /\ \A c \in Conn : links'[c] # None => Sound(links'[c])
            /\ TableMatchesLinks'
BY DEF IInv, EndsMatchWire, NoneIsHalfOpen, Sound

\* A step that leaves the table alone and gives one connection another record that
\* is listed by nobody else than before keeps the invariant.
LEMMA KeepsTable ==
  ASSUME IInv, NEW c \in Conn, NEW link \in Link,
         links' = [links EXCEPT ![c] = link], UNCHANGED peers,
         Sound(link),
         \A n, m \in Node : ListedBy(link, n, m) <=> Lists(n, m, c)
  PROVE  IInv'
<1>1. TypeOK' BY DEF IInv, TypeOK
<1>2. \A d \in Conn : links'[d] # None => Sound(links'[d])
  BY IInvByLink DEF TypeOK
<1>3. TableMatchesLinks'
  <2> SUFFICES ASSUME NEW n \in Node, NEW m \in Node, NEW d \in Conn
               PROVE  Lists(n, m, d)' <=> peers[n][m] = d
    BY DEF TableMatchesLinks
  <2>1. Lists(n, m, d) <=> peers[n][m] = d BY DEF IInv, TableMatchesLinks
  <2>2. CASE d = c BY <2>1, <2>2, NoLinkAssumption DEF IInv, TypeOK, Lists, ListedBy
  <2>3. CASE d # c BY <2>1, <2>3 DEF IInv, TypeOK, Lists, ListedBy
  <2> QED BY <2>2, <2>3
<1> QED BY <1>1, <1>2, <1>3, IInvByLinkNext

\* A step that enters a connection under its peer in the table of one end, where no
\* other was, keeps the invariant.
LEMMA EntersPeer ==
  ASSUME IInv, NEW c \in Conn, NEW link \in Link, NEW n \in Node, NEW m \in Node,
         links' = [links EXCEPT ![c] = link], Enter(n, m, c), ~Has(n, m),
         Sound(link),
         \A k, l \in Node : ListedBy(link, k, l) <=> (Lists(k, l, c) \/ (k = n /\ l = m))
  PROVE  IInv'
<1>1. TypeOK' BY DEF IInv, TypeOK, Enter
<1>2. \A d \in Conn : links'[d] # None => Sound(links'[d])
  BY IInvByLink DEF TypeOK
<1>3. TableMatchesLinks'
  <2> SUFFICES ASSUME NEW k \in Node, NEW l \in Node, NEW d \in Conn
               PROVE  Lists(k, l, d)' <=> peers'[k][l] = d
    BY DEF TableMatchesLinks
  <2>1. Lists(k, l, d) <=> peers[k][l] = d BY DEF IInv, TableMatchesLinks
  <2>2. peers'[k][l] = IF k = n /\ l = m THEN c ELSE peers[k][l]
    BY DEF IInv, TypeOK, Enter
  <2>3. peers[n][m] # d BY NoneAssumption DEF Has
  <2>4. CASE d = c
    BY <2>1, <2>2, <2>4, NoLinkAssumption DEF IInv, TypeOK, Lists, ListedBy
  <2>5. CASE d # c
    BY <2>1, <2>2, <2>3, <2>5 DEF IInv, TypeOK, Lists, ListedBy
  <2> QED BY <2>4, <2>5
<1> QED BY <1>1, <1>2, <1>3, IInvByLinkNext

\* With the record link the connection c is listed as before, but no longer by n as its one to m.
ListedLess(link, c, n, m) ==
  \A k, l \in Node : ListedBy(link, k, l) <=> (Lists(k, l, c) /\ ~(k = n /\ l = m))

\* A step in which one end closes a registered connection and removes it from its
\* table keeps the invariant.
LEMMA RemovesPeer ==
  ASSUME IInv, NEW c \in Conn, NEW link \in Link, NEW n \in Node, NEW m \in Node,
         links' = [links EXCEPT ![c] = link], peers[n][m] = c, Enter(n, m, None),
         Sound(link), ListedLess(link, c, n, m)
  PROVE  IInv'
<1>1. TypeOK' BY DEF IInv, TypeOK, Enter
<1>2. \A d \in Conn : links'[d] # None => Sound(links'[d])
  BY IInvByLink DEF TypeOK
<1>3. TableMatchesLinks'
  <2> SUFFICES ASSUME NEW k \in Node, NEW l \in Node, NEW d \in Conn
               PROVE  Lists(k, l, d)' <=> peers'[k][l] = d
    BY DEF TableMatchesLinks
  <2>1. Lists(k, l, d) <=> peers[k][l] = d BY DEF IInv, TableMatchesLinks
  <2>2. peers'[k][l] = IF k = n /\ l = m THEN None ELSE peers[k][l]
    BY DEF IInv, TypeOK, Enter
  <2>4. CASE d = c
    BY <2>1, <2>2, <2>4, NoneAssumption, NoLinkAssumption DEF IInv, TypeOK, Lists, ListedBy, ListedLess
  <2>5. CASE d # c
    BY <2>1, <2>2, <2>5, NoneAssumption DEF IInv, TypeOK, Lists, ListedBy
  <2> QED BY <2>4, <2>5
<1> QED BY <1>1, <1>2, <1>3, IInvByLinkNext

\* A step that leaves the table alone and lists no connection anew keeps the invariant.
LEMMA ListsNothingNew ==
  ASSUME IInv, TypeOK', UNCHANGED peers,
         \A d \in Conn : links'[d] # None => Sound(links'[d]),
         \A d \in Conn, n, m \in Node : Lists(n, m, d)' <=> Lists(n, m, d)
  PROVE  IInv'
BY IInvByLinkNext DEF IInv, TableMatchesLinks

\* The handle of a new connection is listed nowhere before and after.
LEMMA NewLinkIsUnlisted ==
  ASSUME NEW n \in Node, NEW m \in Node, n # m, NEW via \in Transport, NEW fb \in BOOLEAN
  PROVE  /\ NewLink(n, m, via, fb) \in Link
         /\ NewLink(n, m, via, fb) # None
         /\ Sound(NewLink(n, m, via, fb))
         /\ \A k, l \in Node : ~ListedBy(NewLink(n, m, via, fb), k, l)
<1>1. NewLink(n, m, via, fb) \in Link
  BY DEF NewLink, Link, DialerState, AcceptorState
<1>2. Sound(NewLink(n, m, via, fb)) /\ \A k, l \in Node : ~ListedBy(NewLink(n, m, via, fb), k, l)
  BY DEF NewLink, Sound, ListedBy
<1> QED BY <1>1, <1>2, NoLinkAssumption

LEMMA DialStep ==
  ASSUME IInv, NEW n \in Node, NEW m \in Node, NEW c \in Conn, NEW via \in Transport,
         Dial(n, m, c, via)
  PROVE  IInv'
<1> DEFINE link == NewLink(n, m, via, FALSE)
<1>1. n # m /\ Free(links[c]) /\ UNCHANGED peers /\ links' = [links EXCEPT ![c] = link] BY DEF Dial
<1>2. link \in Link /\ link # None /\ Sound(link) /\ \A k, l \in Node : ~ListedBy(link, k, l)
  BY <1>1, NewLinkIsUnlisted
<1>3. ASSUME NEW d \in Conn
      PROVE  /\ links'[d] \in Link \cup {None}
             /\ links'[d] # None => Sound(links'[d])
             /\ \A k, l \in Node : Lists(k, l, d)' <=> Lists(k, l, d)
  <2> HIDE DEF link
  <2>1. links[d] \in Link \cup {None} /\ (links[d] # None => Sound(links[d]))
    BY IInvByLink DEF TypeOK
  <2>2. links'[d] = IF d = c THEN link ELSE links[d]
    BY <1>1 DEF IInv, TypeOK, link
  <2>3. CASE d = c
    BY <1>1, <1>2, <2>2, <2>3 DEF Lists, Free, Over, ListedBy
  <2>4. CASE d # c
    BY <2>1, <2>2, <2>4 DEF Lists
  <2> QED BY <2>3, <2>4
<1>4. TypeOK' BY <1>1, <1>3 DEF IInv, TypeOK
<1> QED BY <1>1, <1>3, <1>4, ListsNothingNew

LEMMA FallsBackStep ==
  ASSUME IInv, NEW c \in Conn, NEW d \in Conn, FallsBack(c, d)
  PROVE  IInv'
<1> DEFINE failed == [links EXCEPT ![c] = [@ EXCEPT !.dialer = "failed", !.up = FALSE]]
<1>1. links[c] \in Link /\ links[c] # None /\ links[c].dialer = "opening" /\ Free(failed[d]) /\ UNCHANGED peers
  BY DEF FallsBack, IInv, TypeOK
<1>2. PICK via \in Transport :
        links' = [failed EXCEPT ![d] = NewLink(links[c].from, links[c].to, via, TRUE)]
  BY DEF FallsBack
<1> DEFINE link == NewLink(links[c].from, links[c].to, via, TRUE)
<1>3. links[c].from # links[c].to /\ links[c].from \in Node /\ links[c].to \in Node
  BY <1>1 DEF IInv, EndsMatchWire, Link
<1>4. link \in Link /\ link # None /\ Sound(link) /\ \A k, l \in Node : ~ListedBy(link, k, l)
  BY <1>3, NewLinkIsUnlisted
<1>5. ASSUME NEW e \in Conn
      PROVE  /\ failed[e] \in Link \cup {None}
             /\ failed[e] # None => Sound(failed[e])
             /\ failed[e] # None <=> links[e] # None
             /\ \A k, l \in Node : failed[e] # None => (ListedBy(failed[e], k, l) <=> ListedBy(links[e], k, l))
  <2>1. links[e] \in Link \cup {None} /\ (links[e] # None => Sound(links[e]))
    BY IInvByLink DEF TypeOK
  <2>2. CASE e # c
    BY <2>1, <2>2 DEF IInv, TypeOK
  <2>3. CASE e = c
    <3>1. failed[e] = [links[c] EXCEPT !.dialer = "failed", !.up = FALSE]
      BY <2>3 DEF IInv, TypeOK
    <3> HIDE DEF failed
    <3>2. failed[e] \in Link BY <1>1, <3>1 DEF Link, DialerState
    <3>3. Sound(failed[e]) BY <1>1, <2>1, <2>3, <3>1, NoLinkAssumption DEF Link, Sound
    <3>4. \A k, l \in Node : ListedBy(failed[e], k, l) <=> ListedBy(links[e], k, l)
      BY <1>1, <2>3, <3>1 DEF Link, ListedBy
    <3> QED BY <1>1, <2>3, <3>2, <3>3, <3>4, NoLinkAssumption
  <2> QED BY <2>2, <2>3
<1>6. failed \in [Conn -> Link \cup {None}] BY <1>5 DEF IInv, TypeOK
<1>7. ASSUME NEW e \in Conn
      PROVE  /\ links'[e] \in Link \cup {None}
             /\ links'[e] # None => Sound(links'[e])
             /\ \A k, l \in Node : Lists(k, l, e)' <=> Lists(k, l, e)
  <2> HIDE DEF failed, link
  <2>1. links'[e] = IF e = d THEN link ELSE failed[e] BY <1>2, <1>6 DEF link
  <2>2. CASE e = d
    <3>1. \A k, l \in Node : failed[e] # None => ~ListedBy(failed[e], k, l)
      BY <1>1, <2>2 DEF Free, Over, ListedBy
    <3> QED BY <1>4, <1>5, <2>1, <2>2, <3>1 DEF Lists
  <2>3. CASE e # d
    BY <1>5, <2>1, <2>3 DEF Lists
  <2> QED BY <2>2, <2>3
<1>8. TypeOK' BY <1>1, <1>2, <1>7 DEF IInv, TypeOK
<1> QED BY <1>1, <1>7, <1>8, ListsNothingNew

LEMMA DialerOpensStep ==
  ASSUME IInv, NEW c \in Conn, DialerOpens(c)
  PROVE  IInv'
<1> DEFINE n == links[c].from
           m == links[c].to
<1>1. links[c] \in Link /\ links[c] # None /\ Sound(links[c])
  BY IInvByLink DEF TypeOK, DialerOpens
<1>2. n \in Node /\ m \in Node /\ n # m /\ links[c].dialer = "opening" /\ ~Unopened(links[c])
  BY <1>1 DEF Link, Sound, DialerOpens
<1>3. CASE Has(n, m)
  <2> DEFINE link == [links[c] EXCEPT !.dialer = "closed", !.up = FALSE]
  <2>1. links' = [links EXCEPT ![c] = link] /\ UNCHANGED peers
    BY <1>3 DEF DialerOpens
  <2>2. link \in Link BY <1>1 DEF Link, DialerState
  <2>3. Sound(link) BY <1>1 DEF Link, Sound
  <2>4. \A k, l \in Node : ListedBy(link, k, l) <=> Lists(k, l, c)
    BY <1>1, <1>2 DEF Link, ListedBy, Lists
  <2> QED BY <2>1, <2>2, <2>3, <2>4, KeepsTable
<1>4. CASE ~Has(n, m)
  <2> DEFINE link == [links[c] EXCEPT !.dialer = "listed"]
  <2>1. links' = [links EXCEPT ![c] = link] /\ Enter(n, m, c)
    BY <1>4 DEF DialerOpens
  <2>2. link \in Link BY <1>1 DEF Link, DialerState
  <2>3. Sound(link) BY <1>1, <1>2 DEF Link, AcceptorState, Transport, Sound, Unopened
  <2>4. \A k, l \in Node : ListedBy(link, k, l) <=> (Lists(k, l, c) \/ (k = n /\ l = m))
    BY <1>1, <1>2 DEF Link, ListedBy, Lists
  <2> HIDE DEF link
  <2> QED BY <1>2, <1>4, <2>1, <2>2, <2>3, <2>4, EntersPeer
<1> QED BY <1>3, <1>4

LEMMA AcceptorVerifiesStep ==
  ASSUME IInv, NEW c \in Conn, AcceptorVerifies(c)
  PROVE  IInv'
<1> DEFINE n == links[c].to
           m == links[c].from
<1>1. links[c] \in Link /\ links[c] # None /\ Sound(links[c])
  BY IInvByLink DEF TypeOK, AcceptorVerifies
<1>2. n \in Node /\ m \in Node /\ n # m /\ links[c].acceptor \in {"verifying", "deaf"}
  BY <1>1 DEF Link, Sound, AcceptorVerifies, Verifiable
<1>3. CASE Has(n, m)
  <2> DEFINE link == [links[c] EXCEPT !.acceptor = "closed", !.up = FALSE]
  <2>1. links' = [links EXCEPT ![c] = link] /\ UNCHANGED peers
    BY <1>3 DEF AcceptorVerifies
  <2>2. link \in Link BY <1>1 DEF Link, AcceptorState
  <2>3. Sound(link) BY <1>1 DEF Link, Sound
  <2>4. \A k, l \in Node : ListedBy(link, k, l) <=> Lists(k, l, c)
    BY <1>1, <1>2 DEF Link, ListedBy, Lists
  <2> QED BY <2>1, <2>2, <2>3, <2>4, KeepsTable
<1>4. CASE ~Has(n, m)
  <2> DEFINE end == IF links[c].acceptor = "deaf" THEN "ghost" ELSE "listed"
             link == [links[c] EXCEPT !.acceptor = end]
  <2>1. links' = [links EXCEPT ![c] = link] /\ Enter(n, m, c)
    BY <1>4 DEF AcceptorVerifies
  <2>2. link \in Link BY <1>1 DEF Link, AcceptorState
  <2>3. Sound(link) BY <1>1, <1>2 DEF Link, DialerState, Sound
  <2>4. \A k, l \in Node : ListedBy(link, k, l) <=> (Lists(k, l, c) \/ (k = n /\ l = m))
    BY <1>1, <1>2 DEF Link, ListedBy, Lists
  <2> HIDE DEF link, n, m
  <2> QED BY <1>2, <1>4, <2>1, <2>2, <2>3, <2>4, EntersPeer
<1> QED BY <1>3, <1>4

\* The steps that register and unregister nobody.
LEMMA UnlistedSteps ==
  ASSUME IInv, NEW c \in Conn,
         DialFails(c) \/ Arrives(c) \/ AcceptorRejects(c) \/ Breaks(c)
  PROVE  IInv'
<1>1. links[c] \in Link /\ links[c] # None /\ Sound(links[c])
  BY IInvByLink DEF TypeOK, DialFails, Arrives, AcceptorRejects, Breaks
<1>2. CASE DialFails(c)
  <2> DEFINE link == [links[c] EXCEPT !.dialer = "failed", !.up = FALSE]
  <2>1. links' = [links EXCEPT ![c] = link] /\ UNCHANGED peers BY <1>2 DEF DialFails
  <2>2. link \in Link /\ Sound(link) BY <1>1 DEF Link, DialerState, Sound
  <2>3. \A k, l \in Node : ListedBy(link, k, l) <=> Lists(k, l, c)
    BY <1>1, <1>2 DEF Link, ListedBy, Lists, DialFails
  <2> QED BY <2>1, <2>2, <2>3, KeepsTable
<1>3. CASE Arrives(c)
  <2>1. CASE links[c].via = "TCP" /\ Has(links[c].to, links[c].from)
    <3> DEFINE link == [links[c] EXCEPT !.acceptor = "refused", !.up = FALSE]
    <3>1. links' = [links EXCEPT ![c] = link] /\ UNCHANGED peers BY <1>3, <2>1 DEF Arrives
    <3>2. link \in Link /\ Sound(link) BY <1>1 DEF Link, AcceptorState, Sound
    <3>3. \A k, l \in Node : ListedBy(link, k, l) <=> Lists(k, l, c)
      BY <1>1, <1>3 DEF Link, ListedBy, Lists, Arrives
    <3> QED BY <3>1, <3>2, <3>3, KeepsTable
  <2>2. CASE ~(links[c].via = "TCP" /\ Has(links[c].to, links[c].from))
    <3> DEFINE link == [links[c] EXCEPT !.acceptor = "verifying"]
    <3>1. links' = [links EXCEPT ![c] = link] /\ UNCHANGED peers BY <1>3, <2>2 DEF Arrives
    <3>2. link \in Link /\ Sound(link) BY <1>1, <1>3 DEF Link, AcceptorState, Sound, Arrives
    <3>3. \A k, l \in Node : ListedBy(link, k, l) <=> Lists(k, l, c)
      BY <1>1, <1>3 DEF Link, ListedBy, Lists, Arrives
    <3> QED BY <3>1, <3>2, <3>3, KeepsTable
  <2> QED BY <2>1, <2>2
<1>4. CASE AcceptorRejects(c)
  <2> DEFINE end == IF Unopened(links[c]) THEN "refused" ELSE "closed"
             link == [links[c] EXCEPT !.acceptor = end, !.up = FALSE]
  <2>1. links' = [links EXCEPT ![c] = link] /\ UNCHANGED peers
    BY <1>1, <1>4 DEF AcceptorRejects, IInv, TypeOK
  <2>2. link \in Link /\ Sound(link) BY <1>1 DEF Link, AcceptorState, Sound
  <2>3. \A k, l \in Node : ListedBy(link, k, l) <=> Lists(k, l, c)
    BY <1>1, <1>4 DEF Link, ListedBy, Lists, AcceptorRejects
  <2> QED BY <2>1, <2>2, <2>3, KeepsTable
<1>5. CASE Breaks(c)
  <2> DEFINE link == [links[c] EXCEPT !.up = FALSE]
  <2>1. links' = [links EXCEPT ![c] = link] /\ UNCHANGED peers
    BY <1>5 DEF Breaks, IInv, TypeOK
  <2>2. link \in Link /\ Sound(link) BY <1>1 DEF Link, Sound
  <2>3. \A k, l \in Node : ListedBy(link, k, l) <=> Lists(k, l, c)
    BY <1>1 DEF Link, ListedBy, Lists
  <2> QED BY <2>1, <2>2, <2>3, KeepsTable
<1> QED BY <1>2, <1>3, <1>4, <1>5

LEMMA CloseEventSteps ==
  ASSUME IInv, NEW c \in Conn, DialerHears(c) \/ AcceptorHears(c)
  PROVE  IInv'
<1>1. links[c] \in Link /\ links[c] # None /\ Sound(links[c]) /\ ~links[c].up
  BY IInvByLink DEF TypeOK, DialerHears, AcceptorHears
<1>2. links[c].from \in Node /\ links[c].to \in Node /\ links[c].from # links[c].to
  BY <1>1 DEF Link, Sound
<1>3. CASE DialerHears(c)
  <2> DEFINE link == [links[c] EXCEPT !.dialer = "closed"]
             n == links[c].from
             m == links[c].to
  <2>1. links' = [links EXCEPT ![c] = link] /\ Unlist(n, m, c)
    BY <1>3 DEF DialerHears
  <2>2. link \in Link /\ Sound(link) BY <1>1 DEF Link, DialerState, Sound
  <2>3. Lists(n, m, c) BY <1>1, <1>3 DEF DialerHears, Lists, ListedBy
  <2>6. peers[n][m] = c BY <1>2, <2>3 DEF IInv, TableMatchesLinks
  <2>7. Enter(n, m, None) BY <2>1, <2>6 DEF Unlist
  <2>4. ListedLess(link, c, n, m)
    BY <1>1, <1>2, <1>3 DEF Link, ListedLess, ListedBy, Lists, DialerHears
  <2>5. n \in Node /\ m \in Node BY <1>2
  <2> HIDE DEF link, n, m
  <2> QED BY <2>1, <2>2, <2>4, <2>5, <2>6, <2>7, RemovesPeer
<1>4. CASE AcceptorHears(c) /\ links[c].acceptor = "listed"
  <2> DEFINE link == [links[c] EXCEPT !.acceptor = "closed"]
             n == links[c].to
             m == links[c].from
  <2>1. links' = [links EXCEPT ![c] = link] /\ Unlist(n, m, c)
    BY <1>4 DEF AcceptorHears
  <2>2. link \in Link /\ Sound(link) BY <1>1 DEF Link, AcceptorState, Sound
  <2>3. Lists(n, m, c) BY <1>1, <1>4 DEF Lists, ListedBy
  <2>6. peers[n][m] = c BY <1>2, <2>3 DEF IInv, TableMatchesLinks
  <2>7. Enter(n, m, None) BY <2>1, <2>6 DEF Unlist
  <2>4. ListedLess(link, c, n, m)
    BY <1>1, <1>2, <1>4 DEF Link, ListedLess, ListedBy, Lists
  <2>5. n \in Node /\ m \in Node BY <1>2
  <2> HIDE DEF link, n, m
  <2> QED BY <2>1, <2>2, <2>4, <2>5, <2>6, <2>7, RemovesPeer
<1>5. CASE AcceptorHears(c) /\ links[c].acceptor # "listed"
  <2> DEFINE link == [links[c] EXCEPT !.acceptor = "deaf"]
  <2>1. links' = [links EXCEPT ![c] = link] /\ UNCHANGED peers /\ links[c].acceptor = "verifying"
    BY <1>5 DEF AcceptorHears
  <2>2. link \in Link /\ Sound(link) BY <1>1 DEF Link, AcceptorState, Sound
  <2>3. \A k, l \in Node : ListedBy(link, k, l) <=> Lists(k, l, c)
    BY <1>1, <2>1 DEF Link, ListedBy, Lists
  <2> QED BY <2>1, <2>2, <2>3, KeepsTable
<1> QED BY <1>3, <1>4, <1>5

LEMMA RestartStep ==
  ASSUME IInv, NEW n \in Node, Restart(n)
  PROVE  IInv'
<1>1. ASSUME NEW c \in Conn
      PROVE  /\ links'[c] \in Link \cup {None}
             /\ links'[c] # None => Sound(links'[c])
             /\ \A k, l \in Node : Lists(k, l, c)' <=> (Lists(k, l, c) /\ k # n)
  <2>1. links[c] \in Link \cup {None} /\ (links[c] # None => Sound(links[c]))
    BY IInvByLink DEF TypeOK
  <2>2. CASE links[c] # None /\ n \in {links[c].from, links[c].to}
    <3> DEFINE old == links[c]
               d == IF old.from # n THEN old.dialer ELSE IF old.dialer = "opening" THEN "failed" ELSE "closed"
               a == IF old.to # n THEN old.acceptor ELSE IF Unopened(old) THEN "refused" ELSE "closed"
               link == [old EXCEPT !.dialer = d, !.acceptor = a, !.up = FALSE]
    <3>0. old \in Link /\ Sound(old) BY <2>1, <2>2
    <3>1. links'[c] = link
      <4>1. links'[c] = Crashed(old, n) BY <2>2 DEF Restart
      <4> QED BY <3>0, <4>1 DEF Crashed, Link
    <3>2. link \in Link BY <3>0 DEF Link, DialerState, AcceptorState
    <3>3. Sound(link) BY <3>0 DEF Link, Sound
    <3>4. \A k, l \in Node : ListedBy(link, k, l) <=> (ListedBy(old, k, l) /\ k # n)
      BY <2>2, <3>0 DEF Link, Sound, ListedBy
    <3> HIDE DEF link
    <3> QED BY <2>2, <3>1, <3>2, <3>3, <3>4, NoLinkAssumption DEF Lists
  <2>3. CASE ~(links[c] # None /\ n \in {links[c].from, links[c].to})
    <3>1. links'[c] = links[c] BY <2>3 DEF Restart
    <3> QED BY <2>1, <2>3, <3>1 DEF Lists, ListedBy
  <2> QED BY <2>2, <2>3
<1>2. TypeOK' BY <1>1 DEF IInv, TypeOK, Restart
<1>3. TableMatchesLinks'
  <2> SUFFICES ASSUME NEW k \in Node, NEW l \in Node, NEW c \in Conn
               PROVE  Lists(k, l, c)' <=> peers'[k][l] = c
    BY DEF TableMatchesLinks
  <2>1. Lists(k, l, c) <=> peers[k][l] = c BY DEF IInv, TableMatchesLinks
  <2>2. peers'[k][l] = IF k = n THEN None ELSE peers[k][l] BY DEF IInv, TypeOK, Restart
  <2> QED BY <1>1, <2>1, <2>2, NoneAssumption
<1> QED BY <1>1, <1>2, <1>3, IInvByLinkNext

-----------------------------------------------------------------------------
\* The invariant holds for any number of nodes and connections: in particular the duplicate
\* checks at both ends keep each table in step with the connections its node has registered.
THEOREM LinkInvariant == Spec => []IInv
<1>1. Init => IInv
  BY NoneAssumption DEF Init, IInv, TypeOK, EndsMatchWire, TableMatchesLinks, NoneIsHalfOpen, Lists
<1>2. IInv /\ [Next]_vars => IInv'
  <2> SUFFICES ASSUME IInv, [Next]_vars PROVE IInv' OBVIOUS
  <2>1. ASSUME NEW n \in Node, NEW m \in Node, NEW c \in Conn, NEW via \in Transport, Dial(n, m, c, via)
        PROVE  IInv'
    BY <2>1, DialStep
  <2>2. ASSUME NEW c \in Conn,
               DialerStep(c) \/ Arrives(c) \/ AcceptorStep(c) \/ Breaks(c) \/ DialerHears(c)
                 \/ AcceptorHears(c)
        PROVE  IInv'
    BY <2>2, DialerOpensStep, FallsBackStep, AcceptorVerifiesStep, UnlistedSteps, CloseEventSteps
    DEF DialerStep, AcceptorStep
  <2>3. ASSUME NEW n \in Node, Restart(n) PROVE IInv' BY <2>3, RestartStep
  <2>4. CASE UNCHANGED vars
    BY <2>4, IInvByLink, IInvByLinkNext DEF TypeOK, TableMatchesLinks, Lists, vars
  <2> QED BY <2>1, <2>2, <2>3, <2>4 DEF Next
<1> QED BY <1>1, <1>2, PTL DEF Spec

\* The variables keep their types.
THEOREM LinksAreTyped == Spec => []TypeOK
<1>1. IInv => TypeOK BY DEF IInv
<1> QED BY <1>1, LinkInvariant, PTL

\* A connection that add() has registered at a node is the one its table names, and the
\* table names no other, whichever handshakes, refusals, breaks and restarts race.
THEOREM TablesMatchLinks == Spec => []TableMatchesLinks
<1>1. IInv => TableMatchesLinks BY DEF IInv
<1> QED BY <1>1, LinkInvariant, PTL

\* No connection that is up stays registered at one end only.
THEOREM NoLinkIsHalfOpen == Spec => []NoneIsHalfOpen
<1>1. IInv => NoneIsHalfOpen BY DEF IInv
<1> QED BY <1>1, LinkInvariant, PTL

\* Two nodes between which nothing is on its way agree on their connection, except for
\* a uTP acceptor whose connection closed while it authenticated the dialer.
THEOREM QuietNodesAgree == Spec => []QuietTablesAgree
<1>1. IInv => QuietTablesAgree
  <2> SUFFICES ASSUME IInv, NEW n \in Node, NEW m \in Node,
                      Quiet(n, m), ~ListsGhost(n, m), ~ListsGhost(m, n)
               PROVE  peers[n][m] = peers[m][n]
    BY DEF QuietTablesAgree
  <2>1. ASSUME NEW k \in Node, NEW l \in Node, {k, l} = {n, m}, peers[k][l] # None
        PROVE  peers[l][k] = peers[k][l]
    <3> DEFINE c == peers[k][l]
    <3>1. c \in Conn /\ Lists(k, l, c) BY <2>1 DEF IInv, TypeOK, TableMatchesLinks
    <3>2. links[c] # None /\ {links[c].from, links[c].to} = {n, m}
      BY <2>1, <3>1 DEF Lists, ListedBy
    <3>3. links[c].acceptor # "ghost" BY <2>1, <3>1, <3>2 DEF ListsGhost, Lists, ListedBy
    <3>4. ~Over(links[c]) BY <3>1, <3>2 DEF Over, Lists, ListedBy
    <3>5. links[c].dialer = "listed" /\ links[c].acceptor = "listed"
      BY <3>1, <3>2, <3>3, <3>4 DEF Quiet
    <3>6. Lists(l, k, c) BY <3>1, <3>5 DEF Lists, ListedBy
    <3> QED BY <3>1, <3>6 DEF IInv, TableMatchesLinks
  <2>2. CASE peers[n][m] # None BY <2>1, <2>2
  <2>3. CASE peers[m][n] # None BY <2>1, <2>3
  <2> QED BY <2>2, <2>3
<1> QED BY <1>1, LinkInvariant, PTL
-----------------------------------------------------------------------------
-----------------------------------------------------------------------------
(* Induction and recursion over an interval. *)

\* A set that holds 0 and with each number the next one, up to n, holds them all: of the
\* intervals that end in a number it misses, there would be a smallest.
LEMMA UpTo ==
  ASSUME NEW n \in Nat, NEW S, 0 \in S, \A k \in 0..(n - 1) : k \in S => k + 1 \in S
  PROVE  \A k \in 0..n : k \in S
<1> DEFINE missing == {0..k : k \in (0..n) \ S}
<1> SUFFICES ASSUME missing # {} PROVE FALSE
  OBVIOUS
<1>1. missing \subseteq FiniteSubsetsOf(Nat)
  <2>1. \A k \in Nat : 0..k \in SUBSET Nat /\ IsFiniteSet(0..k) BY FS_Interval
  <2> QED BY <2>1 DEF FiniteSubsetsOf
<1>2. PICK x \in missing : \A y \in missing : <<y, x>> \notin StrictSubsetOrdering(Nat)
  <2>1. IsWellFoundedOn(StrictSubsetOrdering(Nat), FiniteSubsetsOf(Nat))
    BY FS_StrictSubsetOrderingWellFounded
  <2> QED BY <1>1, <2>1, WFMin
<1>3. PICK m \in (0..n) \ S : x = 0..m BY <1>2
<1>4. m # 0 /\ m - 1 \in 0..(n - 1) /\ (m - 1) + 1 = m BY <1>3
<1>5. m - 1 \in (0..n) \ S BY <1>3, <1>4
<1>6. 0..(m - 1) \in missing /\ <<0..(m - 1), x>> \notin StrictSubsetOrdering(Nat)
  BY <1>2, <1>5
<1>7. 0..(m - 1) \in SUBSET Nat /\ 0..m \in SUBSET Nat /\ 0..(m - 1) \subseteq 0..m
  BY <1>3, <1>4
<1>8. m \in 0..m /\ m \notin 0..(m - 1) BY <1>3
<1> QED BY <1>3, <1>6, <1>7, <1>8 DEF StrictSubsetOrdering

\* f begins with first, and each of its values is a step from the one before.
IsIterate(f, n, V, first, step) ==
  /\ f \in [0..n -> V] /\ f[0] = first
  /\ \A k \in 1..n : f[k] = step[<<f[k - 1], k>>]

\* Every step has its iterates.
LEMMA Iterates ==
  ASSUME NEW n \in Nat, NEW V, NEW first \in V, NEW step \in [V \X (1..n) -> V]
  PROVE  \E f : IsIterate(f, n, V, first, step)
<1> DEFINE Begins(f, m) == f[0] = first /\ \A k \in 1..m : f[k] = step[<<f[k - 1], k>>]
           S == {m \in 0..n : \E f \in [0..n -> V] : Begins(f, m)}
<1>1. 0 \in S
  <2> DEFINE f == [k \in 0..n |-> first]
  <2>1. f \in [0..n -> V] /\ Begins(f, 0) OBVIOUS
  <2> HIDE DEF f
  <2>2. 0 \in 0..n OBVIOUS
  <2> QED BY <2>1, <2>2
<1>2. ASSUME NEW m \in 0..(n - 1), m \in S PROVE m + 1 \in S
  <2>1. PICK f \in [0..n -> V] : Begins(f, m) BY <1>2
  <2> DEFINE g == [k \in 0..n |-> IF k = m + 1 THEN step[<<f[m], m + 1>>] ELSE f[k]]
  <2>2. m \in 0..n /\ m + 1 \in 1..n BY <1>2
  <2>3. f[m] \in V /\ <<f[m], m + 1>> \in V \X (1..n) BY <2>2
  <2>4. step[<<f[m], m + 1>>] \in V BY <2>3
  <2>5. g \in [0..n -> V] BY <2>4
  <2>6. g[0] = first /\ g[m + 1] = step[<<f[m], m + 1>>] /\ g[m] = f[m] BY <2>1, <2>2
  <2>7. \A k \in 1..m : g[k] = f[k] /\ g[k - 1] = f[k - 1] BY <2>2
  <2> HIDE DEF g
  <2>8. \A k \in 1..(m + 1) : g[k] = step[<<g[k - 1], k>>]
    <3> SUFFICES ASSUME NEW k \in 1..(m + 1) PROVE g[k] = step[<<g[k - 1], k>>] OBVIOUS
    <3>1. CASE k = m + 1
      <4>1. k - 1 = m BY <2>2, <3>1
      <4>2. g[k] = step[<<f[m], m + 1>>] BY <2>6, <3>1
      <4> QED BY <2>6, <3>1, <4>1, <4>2
    <3>2. CASE k # m + 1
      <4>1. k \in 1..m BY <2>2, <3>2
      <4> QED BY <2>1, <2>7, <4>1
    <3> QED BY <3>1, <3>2
  <2> QED BY <2>2, <2>5, <2>6, <2>8
<1>3. n \in S
  <2> HIDE DEF S
  <2>1. n \in 0..n OBVIOUS
  <2> QED BY <1>1, <1>2, <2>1, UpTo
<1> QED BY <1>3 DEF IsIterate
-----------------------------------------------------------------------------
(* The stream of a uTP connection: its layout and the invariant. *)

Char == Byte \cup {Broken}
Messages == Len(Text)

\* Where the messages end in a stream in which the first one begins after the byte
\* first and each is followed by gap more bytes
EndsFrom(first, gap) ==
  LET ends[i \in 0..Messages] ==
        IF i = 0 THEN first ELSE ends[i - 1] + Len(Text[i]) + gap
  IN  ends

\* The last byte of each message with its delimiter, and of the greeting
Gap == IF peer.frames THEN 1 ELSE 0
Ends == EndsFrom(IF peer.greets THEN Len(Hello) + 1 ELSE 0, Gap)

\* A byte as it was sent, or what is left of half a character
Same(c, d) == c = d \/ (c = Broken /\ d \in {"lead", "trail"})

\* b is what was sent after the byte base.
Received(b, base) ==
  /\ base \in Nat /\ base + Len(b) <= Len(Sent)
  /\ \A k \in 1..Len(b) : Same(b[k], Sent[base + k].byte)

\* The first n messages end at base, but for the delimiter of the last one.
IsBoundary(base, n) ==
  base = Ends[n] \/ (peer.frames /\ n > 0 /\ base = Ends[n] - 1)

\* The message after the first n has not arrived in full.
Incomplete(n, upTo) == n = Messages \/ upTo < Ends[n] + Len(Text[n + 1])

GreetingInv ==
  /\ phase # "handling" => delivered = <<>>
  /\ phase = "greeting" =>
       Received(buffer, 0) /\ Len(buffer) = arrived

HandlingInv ==
  LET n == Len(delivered)
      base == arrived - Len(buffer)
  IN  lost = {} /\ phase \in {"authenticating", "client", "handling"} =>
        /\ n <= Messages /\ \A k \in 1..n : IsMessage(delivered[k], k)
        /\ Received(buffer, base)
        /\ IsBoundary(base, n)
        /\ phase = "handling" => Incomplete(n, arrived)

StreamInv == StreamTypeOK /\ arrived <= Len(Sent) /\ GreetingInv /\ HandlingInv

-----------------------------------------------------------------------------
(* The recursive definitions of the model have values. *)

CutState == [frames : Seq(Seq(Char)), rest : Seq(Char)]

ScanState == [frames : Seq(Seq(Char)), start : Nat \ {0}, depth : Nat,
              mode : {"plain", "string", "escaped", "stuck"}]

ScanStart == [frames |-> <<>>, start |-> 1, depth |-> 0, mode |-> "plain"]

\* Cut reads byte after byte.
LEMMA CutIterates ==
  ASSUME NEW b \in Seq(Char)
  PROVE  \E c \in [0..Len(b) -> CutState] :
           /\ c[0] = [frames |-> <<>>, rest |-> <<>>]
           /\ \A k \in 1..Len(b) : c[k] = CutAt(c[k - 1], b[k])
           /\ Cut(b) = c[Len(b)]
<1> DEFINE first == [frames |-> <<>>, rest |-> <<>>]
           Step(c, k) == IF k = 0 THEN first ELSE CutAt(c[k - 1], b[k])
           cut == CHOOSE c : c = [k \in 0..Len(b) |-> Step(c, k)]
           step == [p \in CutState \X (1..Len(b)) |-> CutAt(p[1], b[p[2]])]
<1>1. Cut(b) = cut[Len(b)] BY DEF Cut
<1>2. Len(b) \in Nat /\ \A k \in 1..Len(b) : b[k] \in Char OBVIOUS
<1>3. first \in CutState BY EmptySeq DEF CutState
<1>4. ASSUME NEW s \in CutState, NEW d \in Char PROVE CutAt(s, d) \in CutState
  BY AppendProperties, EmptySeq DEF CutAt, CutState
<1>5. step \in [CutState \X (1..Len(b)) -> CutState]
  BY <1>2, <1>4
<1>6. PICK f : IsIterate(f, Len(b), CutState, first, step)
  <2> HIDE DEF step, first
  <2> QED BY <1>2, <1>3, <1>5, Iterates, Zenon
<1>7. \A k \in 1..Len(b) : f[k] = CutAt(f[k - 1], b[k])
  <2> SUFFICES ASSUME NEW k \in 1..Len(b) PROVE f[k] = CutAt(f[k - 1], b[k]) OBVIOUS
  <2>1. k - 1 \in 0..Len(b) /\ f[k - 1] \in CutState BY <1>2, <1>6 DEF IsIterate
  <2>2. <<f[k - 1], k>> \in CutState \X (1..Len(b)) BY <2>1
  <2> QED BY <1>6, <2>2 DEF IsIterate
<1> HIDE DEF step, first
<1>8. f = [k \in 0..Len(b) |-> Step(f, k)]
  <2>1. \A k \in 0..Len(b) : f[k] = Step(f, k) BY <1>2, <1>6, <1>7 DEF IsIterate
  <2>2. f \in [0..Len(b) -> CutState] BY <1>6 DEF IsIterate
  <2> HIDE DEF Step
  <2> QED BY <2>1, <2>2
<1>9. cut = [k \in 0..Len(b) |-> Step(cut, k)]
  BY <1>8
<1> HIDE DEF cut
<1>10. \A k \in 0..Len(b) : cut[k] = f[k]
  <2> DEFINE S == {k \in 0..Len(b) : cut[k] = f[k]}
  <2>1. 0 \in S BY <1>2, <1>6, <1>9 DEF IsIterate
  <2>2. ASSUME NEW k \in 0..(Len(b) - 1), k \in S PROVE k + 1 \in S
    <3>1. k + 1 \in 1..Len(b) /\ k + 1 \in 0..Len(b) /\ (k + 1) - 1 = k BY <1>2
    <3>2. cut[k + 1] = CutAt(cut[k], b[k + 1]) BY <1>9, <3>1
    <3>3. f[k + 1] = CutAt(f[k], b[k + 1]) BY <1>7, <3>1
    <3>4. cut[k] = f[k] BY <2>2
    <3> QED BY <3>1, <3>2, <3>3, <3>4
  <2> HIDE DEF S
  <2>3. \A k \in 0..Len(b) : k \in S BY <1>2, <2>1, <2>2, UpTo
  <2> QED BY <2>3 DEF S
<1>11. Cut(b) = f[Len(b)] BY <1>1, <1>2, <1>10
<1> QED BY <1>6, <1>7, <1>11 DEF first, IsIterate

\* The parser's state s becomes r when it reads byte i of b in the midst of a message.
Moves(r, s, b, i) ==
  /\ r = [frames |-> r.frames, start |-> s.start, depth |-> r.depth, mode |-> r.mode]
  /\ r.mode = IF s.mode = "escaped" THEN "string"
              ELSE IF s.mode = "string"
                   THEN IF b[i] = "backslash" THEN "escaped"
                        ELSE IF b[i] = "quote" THEN "plain" ELSE "string"
              ELSE IF b[i] = "quote" THEN "string" ELSE "plain"
  /\ r.depth = IF s.mode # "plain" THEN s.depth ELSE IF b[i] = "open" THEN s.depth + 1
               ELSE IF b[i] = "close" THEN s.depth - 1 ELSE s.depth
  /\ r.frames = IF s.mode = "plain" /\ b[i] = "close" /\ s.depth = 1
                THEN Append(s.frames, SubSeq(b, s.start, i)) ELSE s.frames

\* A byte in the midst of a message moves the parser.
LEMMA InFrameMoves ==
  ASSUME NEW b, NEW s \in ScanState, NEW i, s.depth # 0, s.mode # "stuck"
  PROVE  Moves(InFrame(s, b, i), s, b, i)
<1> DEFINE r == InFrame(s, b, i)
           State(frames, depth, mode) ==
             [frames |-> frames, start |-> s.start, depth |-> depth, mode |-> mode]
<1>1. s = State(s.frames, s.depth, s.mode) /\ s.depth \in Nat \ {0}
  BY DEF ScanState
<1>2. s.mode \in {"plain", "string", "escaped"}
  BY DEF ScanState
<1>3. CASE s.mode = "escaped"
  <2>1. r = State(s.frames, s.depth, "string")
    BY <1>1, <1>3 DEF InFrame
  <2> HIDE DEF r
  <2>2. Moves(r, s, b, i) BY <1>1, <1>3, <2>1 DEF Moves
  <2> QED BY <2>2 DEF r
<1>4. CASE s.mode = "string" /\ b[i] = "backslash"
  <2>1. r = State(s.frames, s.depth, "escaped")
    BY <1>1, <1>4 DEF InFrame
  <2> HIDE DEF r
  <2>2. Moves(r, s, b, i) BY <1>1, <1>4, <2>1 DEF Moves
  <2> QED BY <2>2 DEF r
<1>5. CASE s.mode = "string" /\ b[i] = "quote"
  <2>1. r = State(s.frames, s.depth, "plain")
    BY <1>1, <1>5 DEF InFrame
  <2> HIDE DEF r
  <2>2. Moves(r, s, b, i) BY <1>1, <1>5, <2>1 DEF Moves
  <2> QED BY <2>2 DEF r
<1>6. CASE s.mode = "string" /\ b[i] \notin {"backslash", "quote"}
  <2>1. r = State(s.frames, s.depth, "string")
    BY <1>1, <1>6 DEF InFrame
  <2> HIDE DEF r
  <2>2. Moves(r, s, b, i) BY <1>1, <1>6, <2>1 DEF Moves
  <2> QED BY <2>2 DEF r
<1>7. CASE s.mode = "plain" /\ b[i] = "quote"
  <2>1. r = State(s.frames, s.depth, "string")
    BY <1>1, <1>7 DEF InFrame
  <2> HIDE DEF r
  <2>2. Moves(r, s, b, i) BY <1>1, <1>7, <2>1 DEF Moves
  <2> QED BY <2>2 DEF r
<1>8. CASE s.mode = "plain" /\ b[i] = "open"
  <2>1. r = State(s.frames, s.depth + 1, "plain")
    BY <1>1, <1>8 DEF InFrame
  <2> HIDE DEF r
  <2>2. Moves(r, s, b, i) BY <1>1, <1>8, <2>1 DEF Moves
  <2> QED BY <2>2 DEF r
<1>9. CASE s.mode = "plain" /\ b[i] = "close" /\ s.depth > 1
  <2>1. r = State(s.frames, s.depth - 1, "plain")
    BY <1>1, <1>9 DEF InFrame
  <2> HIDE DEF r
  <2>2. Moves(r, s, b, i) BY <1>1, <1>9, <2>1 DEF Moves
  <2> QED BY <2>2 DEF r
<1>10. CASE s.mode = "plain" /\ b[i] = "close" /\ s.depth = 1
  <2> DEFINE f == Append(s.frames, SubSeq(b, s.start, i))
  <2>1. /\ s.mode # "escaped" /\ s.mode # "string" /\ ~ (s.depth > 1)
        /\ b[i] # "quote" /\ b[i] # "open"
    BY <1>10
  <2>2. r = [s EXCEPT !.depth = 0, !.frames = f] BY <1>10, <2>1, Zenon DEF InFrame
  <2> HIDE DEF r, f
  <2>3. r = State(f, 0, "plain") BY <1>1, <1>10, <2>2
  <2>4. r.frames = f /\ r.depth = 0 /\ r.mode = "plain" BY <2>3
  <2>5. r.frames = Append(s.frames, SubSeq(b, s.start, i)) BY <2>4 DEF f
  <2>6. r = [frames |-> r.frames, start |-> s.start, depth |-> r.depth, mode |-> r.mode]
    BY <2>3, <2>4
  <2>7. s.depth - 1 = 0 BY <1>10
  <2>8. Moves(r, s, b, i) BY <1>10, <2>1, <2>4, <2>5, <2>6, <2>7, Zenon DEF Moves
  <2> QED BY <2>8 DEF r
<1>11. CASE s.mode = "plain" /\ b[i] \notin {"quote", "open", "close"}
  <2>1. r = State(s.frames, s.depth, "plain")
    BY <1>1, <1>11 DEF InFrame
  <2> HIDE DEF r
  <2>2. Moves(r, s, b, i) BY <1>1, <1>11, <2>1 DEF Moves
  <2> QED BY <2>2 DEF r
<1> QED BY <1>1, <1>2, <1>3, <1>4, <1>5, <1>6, <1>7, <1>8, <1>9, <1>10, <1>11

\* Reading one byte takes the parser from one of its states to another.
LEMMA ParseAtTyped ==
  ASSUME NEW b \in Seq(Char), NEW s \in ScanState, NEW i \in 1..Len(b)
  PROVE  ParseAt(s, b, i) \in ScanState
<1>1. /\ s.frames \in Seq(Seq(Char)) /\ s.start \in Nat \ {0} /\ s.depth \in Nat
      /\ s.mode \in {"plain", "string", "escaped", "stuck"}
  BY DEF ScanState
<1>2. Append(s.frames, SubSeq(b, s.start, i)) \in Seq(Seq(Char))
  <2>1. \A j \in s.start..i : j \in 1..Len(b) /\ b[j] \in Char BY <1>1
  <2>2. SubSeq(b, s.start, i) \in Seq(Char) BY <1>1, <2>1, SubSeqProperties
  <2> QED BY <1>1, <2>2, AppendProperties
<1>3. CASE s.mode = "stuck" BY <1>3 DEF ParseAt
<1>4. CASE s.mode # "stuck" /\ s.depth = 0
  <2>1. ParseAt(s, b, i) = BetweenFrames(s, b, i) BY <1>4 DEF ParseAt
  <2>2. i \in Nat \ {0} OBVIOUS
  <2>3. CASE b[i] = "open"
    <3>1. BetweenFrames(s, b, i) = [s EXCEPT !.start = i, !.depth = 1]
      BY <2>3 DEF BetweenFrames
    <3>2. [s EXCEPT !.start = i, !.depth = 1] \in ScanState BY <1>1, <2>2 DEF ScanState
    <3> QED BY <2>1, <3>1, <3>2
  <2>4. CASE b[i] = "delimiter" BY <2>1, <2>4 DEF BetweenFrames
  <2>5. CASE b[i] \notin {"open", "delimiter"}
    <3>1. BetweenFrames(s, b, i) = [s EXCEPT !.start = i, !.mode = "stuck"]
      BY <2>5 DEF BetweenFrames
    <3>2. [s EXCEPT !.start = i, !.mode = "stuck"] \in ScanState BY <1>1, <2>2 DEF ScanState
    <3> QED BY <2>1, <3>1, <3>2
  <2> QED BY <2>3, <2>4, <2>5
<1>5. CASE s.mode # "stuck" /\ s.depth # 0
  <2> DEFINE r == InFrame(s, b, i)
  <2>1. ParseAt(s, b, i) = r BY <1>5 DEF ParseAt
  <2>2. Moves(r, s, b, i) BY <1>5, InFrameMoves
  <2> HIDE DEF r
  <2>3. r.frames \in Seq(Seq(Char)) BY <1>1, <1>2, <2>2 DEF Moves
  <2>4. r.mode \in {"plain", "string", "escaped"} BY <2>2 DEF Moves
  <2>5. r.depth \in Nat BY <1>1, <1>5, <2>2 DEF Moves
  <2>6. r = [frames |-> r.frames, start |-> s.start, depth |-> r.depth, mode |-> r.mode]
    BY <2>2 DEF Moves
  <2> QED BY <1>1, <2>1, <2>3, <2>4, <2>5, <2>6 DEF ScanState
<1> QED BY <1>3, <1>4, <1>5

\* The parser reads byte after byte.
LEMMA ScanIterates ==
  ASSUME NEW b \in Seq(Char)
  PROVE  /\ Scan(b) \in [0..Len(b) -> ScanState]
         /\ Scan(b)[0] = ScanStart
         /\ \A k \in 1..Len(b) : Scan(b)[k] = ParseAt(Scan(b)[k - 1], b, k)
<1> DEFINE Step(c, k) == IF k = 0 THEN ScanStart ELSE ParseAt(c[k - 1], b, k)
           scan == CHOOSE c : c = [k \in 0..Len(b) |-> Step(c, k)]
           step == [p \in ScanState \X (1..Len(b)) |-> ParseAt(p[1], b, p[2])]
<1>1. Scan(b) = scan BY DEF Scan, ScanStart
<1>2. Len(b) \in Nat OBVIOUS
<1>3. ScanStart \in ScanState BY EmptySeq DEF ScanState, ScanStart
<1>4. step \in [ScanState \X (1..Len(b)) -> ScanState]
  BY ParseAtTyped
<1>5. PICK f : IsIterate(f, Len(b), ScanState, ScanStart, step)
  <2> HIDE DEF step
  <2> QED BY <1>2, <1>3, <1>4, Iterates, Zenon
<1>6. \A k \in 1..Len(b) : f[k] = ParseAt(f[k - 1], b, k)
  <2> SUFFICES ASSUME NEW k \in 1..Len(b) PROVE f[k] = ParseAt(f[k - 1], b, k) OBVIOUS
  <2>1. k - 1 \in 0..Len(b) /\ f[k - 1] \in ScanState BY <1>2, <1>5 DEF IsIterate
  <2>2. <<f[k - 1], k>> \in ScanState \X (1..Len(b)) BY <2>1
  <2> QED BY <1>5, <2>2 DEF IsIterate
<1> HIDE DEF step
<1>7. f = [k \in 0..Len(b) |-> Step(f, k)]
  <2>1. \A k \in 0..Len(b) : f[k] = Step(f, k) BY <1>2, <1>5, <1>6 DEF IsIterate
  <2>2. f \in [0..Len(b) -> ScanState] BY <1>5 DEF IsIterate
  <2> HIDE DEF Step
  <2> QED BY <2>1, <2>2
<1>8. scan = [k \in 0..Len(b) |-> Step(scan, k)]
  BY <1>7
<1> HIDE DEF scan
<1>9. \A k \in 0..Len(b) : scan[k] = f[k]
  <2> DEFINE S == {k \in 0..Len(b) : scan[k] = f[k]}
  <2>1. 0 \in S BY <1>2, <1>5, <1>8 DEF IsIterate
  <2>2. ASSUME NEW k \in 0..(Len(b) - 1), k \in S PROVE k + 1 \in S
    <3>1. k + 1 \in 1..Len(b) /\ k + 1 \in 0..Len(b) /\ (k + 1) - 1 = k BY <1>2
    <3>2. scan[k + 1] = ParseAt(scan[k], b, k + 1) BY <1>8, <3>1
    <3>3. f[k + 1] = ParseAt(f[k], b, k + 1) BY <1>6, <3>1
    <3>4. scan[k] = f[k] BY <2>2
    <3> QED BY <3>1, <3>2, <3>3, <3>4
  <2> HIDE DEF S
  <2>3. \A k \in 0..Len(b) : k \in S BY <1>2, <2>1, <2>2, UpTo
  <2> QED BY <2>3 DEF S
<1>10. scan = f
  <2>1. DOMAIN scan = 0..Len(b) BY <1>8
  <2>2. f \in [0..Len(b) -> ScanState] BY <1>5 DEF IsIterate
  <2> QED BY <1>8, <1>9, <2>2
<1> QED BY <1>1, <1>5, <1>6, <1>10 DEF IsIterate

\* The ends of the messages, one after the other
LEMMA EndsIterates ==
  ASSUME NEW first \in Nat, NEW gap \in Nat
  PROVE  /\ EndsFrom(first, gap) \in [0..Messages -> Nat]
         /\ EndsFrom(first, gap)[0] = first
         /\ \A i \in 1..Messages :
              EndsFrom(first, gap)[i] = EndsFrom(first, gap)[i - 1] + Len(Text[i]) + gap
<1> DEFINE Step(c, i) == IF i = 0 THEN first ELSE c[i - 1] + Len(Text[i]) + gap
           ends == CHOOSE c : c = [i \in 0..Messages |-> Step(c, i)]
           step == [p \in Nat \X (1..Messages) |-> p[1] + Len(Text[p[2]]) + gap]
<1>1. EndsFrom(first, gap) = ends BY DEF EndsFrom
<1>2. Messages \in Nat /\ \A i \in 1..Messages : Len(Text[i]) \in Nat
  BY TransportAssumption DEF Messages
<1>3. step \in [Nat \X (1..Messages) -> Nat] BY <1>2
<1>4. PICK f : IsIterate(f, Messages, Nat, first, step)
  <2> HIDE DEF step
  <2> QED BY <1>2, <1>3, Iterates, Zenon
<1>5. \A i \in 1..Messages : f[i] = f[i - 1] + Len(Text[i]) + gap
  <2> SUFFICES ASSUME NEW i \in 1..Messages PROVE f[i] = f[i - 1] + Len(Text[i]) + gap OBVIOUS
  <2>1. i - 1 \in 0..Messages /\ f[i - 1] \in Nat BY <1>2, <1>4 DEF IsIterate
  <2>2. <<f[i - 1], i>> \in Nat \X (1..Messages) BY <2>1
  <2> QED BY <1>4, <2>2 DEF IsIterate
<1> HIDE DEF step
<1>6. f = [i \in 0..Messages |-> Step(f, i)]
  <2>1. \A i \in 0..Messages : f[i] = Step(f, i) BY <1>2, <1>4, <1>5 DEF IsIterate
  <2>2. f \in [0..Messages -> Nat] BY <1>4 DEF IsIterate
  <2> HIDE DEF Step
  <2> QED BY <2>1, <2>2
<1>7. ends = [i \in 0..Messages |-> Step(ends, i)] BY <1>6
<1> HIDE DEF ends
<1>8. \A i \in 0..Messages : ends[i] = f[i]
  <2> DEFINE S == {i \in 0..Messages : ends[i] = f[i]}
  <2>1. 0 \in S BY <1>2, <1>4, <1>7 DEF IsIterate
  <2>2. ASSUME NEW i \in 0..(Messages - 1), i \in S PROVE i + 1 \in S
    <3>1. i + 1 \in 1..Messages /\ i + 1 \in 0..Messages /\ (i + 1) - 1 = i BY <1>2
    <3>2. ends[i + 1] = Step(ends, i + 1)
      <4> HIDE DEF Step
      <4> QED BY <1>7, <3>1
    <3>3. ends[i + 1] = ends[i] + Len(Text[i + 1]) + gap BY <3>1, <3>2
    <3>4. f[i + 1] = f[i] + Len(Text[i + 1]) + gap BY <1>5, <3>1
    <3>5. ends[i] = f[i] BY <2>2
    <3> QED BY <3>1, <3>3, <3>4, <3>5
  <2> HIDE DEF S
  <2>3. \A i \in 0..Messages : i \in S BY <1>2, <2>1, <2>2, UpTo
  <2> QED BY <2>3 DEF S
<1>9. ends = f
  <2>1. f \in [0..Messages -> Nat] BY <1>4 DEF IsIterate
  <2> QED BY <1>7, <1>8, <2>1
<1> QED BY <1>1, <1>4, <1>5, <1>9 DEF IsIterate

\* A sequence of numbers in which none is less than the one before ascends.
LEMMA Ascends ==
  ASSUME NEW n \in Nat, NEW e \in [0..n -> Nat], \A i \in 1..n : e[i - 1] <= e[i],
         NEW i \in 0..n, NEW j \in i..n
  PROVE  e[i] <= e[j]
<1> DEFINE S == {k \in 0..n : k >= i => e[i] <= e[k]}
<1>1. 0 \in S OBVIOUS
<1>2. ASSUME NEW k \in 0..(n - 1), k \in S PROVE k + 1 \in S
  <2>1. k + 1 \in 1..n /\ (k + 1) - 1 = k /\ k \in 0..n OBVIOUS
  <2>2. e[k] <= e[k + 1] /\ e[k] \in Nat /\ e[k + 1] \in Nat /\ e[i] \in Nat BY <2>1
  <2> QED BY <1>2, <2>1, <2>2
<1> HIDE DEF S
<1>3. \A k \in 0..n : k \in S BY <1>1, <1>2, UpTo
<1> QED BY <1>3 DEF S

\* A position lies between two of the numbers.
LEMMA Locates ==
  ASSUME NEW n \in Nat, NEW e \in [0..n -> Nat], NEW p \in Nat, e[0] < p, p <= e[n]
  PROVE  \E i \in 1..n : e[i - 1] < p /\ p <= e[i]
<1> SUFFICES ASSUME \A i \in 1..n : ~ (e[i - 1] < p /\ p <= e[i]) PROVE FALSE
  OBVIOUS
<1> DEFINE S == {k \in 0..n : e[k] < p}
<1>1. 0 \in S OBVIOUS
<1>2. ASSUME NEW k \in 0..(n - 1), k \in S PROVE k + 1 \in S
  <2>1. k + 1 \in 1..n /\ (k + 1) - 1 = k /\ k + 1 \in 0..n OBVIOUS
  <2>2. e[k] < p /\ e[k + 1] \in Nat BY <1>2, <2>1
  <2> QED BY <2>1, <2>2
<1> HIDE DEF S
<1>3. \A k \in 0..n : k \in S BY <1>1, <1>2, UpTo
<1>4. n \in S BY <1>3
<1> QED BY <1>4 DEF S

\* Sequences are put together one after the other.
LEMMA Flattens ==
  ASSUME NEW T, NEW seqs \in Seq(Seq(T))
  PROVE  \E f \in [0..Len(seqs) -> Seq(T)] :
           /\ f[0] = <<>> /\ FlattenSeq(seqs) = f[Len(seqs)]
           /\ \A i \in 1..Len(seqs) : f[i] = f[i - 1] \o seqs[i]
<1> DEFINE n == Len(seqs)
           Step(c, i) == IF i = 1 THEN seqs[i] ELSE c[i - 1] \o seqs[i]
           flat == CHOOSE c : c = [i \in 1..n |-> Step(c, i)]
           step == [p \in Seq(T) \X (1..n) |-> p[1] \o seqs[p[2]]]
<1>1. n \in Nat /\ \A i \in 1..n : seqs[i] \in Seq(T) OBVIOUS
<1> HIDE DEF n
<1>2. step \in [Seq(T) \X (1..n) -> Seq(T)] BY <1>1, ConcatProperties
<1>3. PICK f : IsIterate(f, n, Seq(T), <<>>, step)
  <2>1. <<>> \in Seq(T) BY EmptySeq
  <2> HIDE DEF step
  <2> QED BY <1>1, <1>2, <2>1, Iterates, Zenon
<1>4. \A i \in 1..n : f[i] = f[i - 1] \o seqs[i]
  <2> SUFFICES ASSUME NEW i \in 1..n PROVE f[i] = f[i - 1] \o seqs[i] OBVIOUS
  <2>1. i - 1 \in 0..n /\ f[i - 1] \in Seq(T) BY <1>1, <1>3 DEF IsIterate
  <2>2. <<f[i - 1], i>> \in Seq(T) \X (1..n) BY <2>1
  <2> QED BY <1>3, <2>2 DEF IsIterate
<1> HIDE DEF step
<1>5. f \in [0..n -> Seq(T)] /\ f[0] = <<>> BY <1>3 DEF IsIterate
<1>6. ASSUME NEW i \in 1..n, i = 1 PROVE f[i] = seqs[i]
  <2>1. f[i] = f[i - 1] \o seqs[i] BY <1>4
  <2>2. i - 1 = 0 BY <1>6
  <2>3. f[i] = <<>> \o seqs[i] BY <1>5, <2>1, <2>2
  <2> QED BY <1>1, <2>3, ConcatEmptySeq
<1>7. FlattenSeq(seqs) = f[n]
  <2>1. CASE n = 0
    <3>1. FlattenSeq(seqs) = seqs BY <2>1 DEF FlattenSeq, n
    <3>2. seqs = <<>> BY <2>1, EmptySeq DEF n
    <3> QED BY <1>5, <2>1, <3>1, <3>2
  <2>2. CASE n # 0
    <3> DEFINE g == [i \in 1..n |-> f[i]]
    <3>1. \A i \in 1..n : g[i] = Step(g, i)
      <4> SUFFICES ASSUME NEW i \in 1..n PROVE g[i] = Step(g, i) OBVIOUS
      <4>1. CASE i = 1
        <5>1. g[i] = f[i] /\ f[i] = seqs[i] BY <1>6, <4>1
        <5> QED BY <4>1, <5>1
      <4>2. CASE i # 1
        <5>1. i - 1 \in 1..n BY <1>1, <4>2
        <5> QED BY <1>4, <4>2, <5>1
      <4> QED BY <4>1, <4>2
    <3>2. g = [i \in 1..n |-> g[i]] OBVIOUS
    <3> HIDE DEF g
    <3>3. g = [i \in 1..n |-> Step(g, i)]
      <4> HIDE DEF Step
      <4> QED BY <3>1, <3>2
    <3>4. flat = [i \in 1..n |-> Step(flat, i)] BY <3>3
    <3>5. FlattenSeq(seqs) = flat[n] BY <2>2 DEF FlattenSeq, n
    <3> HIDE DEF flat
    <3> DEFINE S == {i \in 0..n : i = 0 \/ flat[i] = f[i]}
    <3>6. 0 \in S BY <1>1
    <3>7. ASSUME NEW i \in 0..(n - 1), i \in S PROVE i + 1 \in S
      <4>1. i + 1 \in 1..n /\ i + 1 \in 0..n /\ (i + 1) - 1 = i BY <1>1
      <4>2. f[i + 1] = f[i] \o seqs[i + 1] BY <1>4, <4>1
      <4>3. CASE i = 0
        <5>1. i + 1 = 1 BY <4>3
        <5>2. f[i + 1] = seqs[i + 1] BY <1>6, <4>1, <5>1
        <5>3. flat[i + 1] = seqs[i + 1] BY <3>4, <4>1, <5>1
        <5> QED BY <4>1, <5>2, <5>3
      <4>4. CASE i # 0
        <5>1. flat[i + 1] = Step(flat, i + 1)
          <6> HIDE DEF Step
          <6> QED BY <3>4, <4>1
        <5>2. i + 1 # 1 BY <4>4
        <5>3. flat[i + 1] = flat[i] \o seqs[i + 1] BY <4>1, <5>1, <5>2
        <5>4. flat[i] = f[i] BY <3>7, <4>4
        <5> QED BY <4>1, <4>2, <5>3, <5>4
      <4> QED BY <4>3, <4>4
    <3> HIDE DEF S
    <3>8. \A i \in 0..n : i \in S BY <1>1, <3>6, <3>7, UpTo
    <3>9. n \in S BY <1>1, <3>8
    <3> QED BY <2>2, <3>5, <3>9 DEF S
  <2> QED BY <2>1, <2>2
<1> QED BY <1>4, <1>5, <1>7 DEF n
-----------------------------------------------------------------------------
(* The layout of the stream *)

Sendable == [byte : Byte, of : 0..Messages]

\* Owned marks the bytes of a text with the message that they are of.
LEMMA OwnedShape ==
  ASSUME NEW t \in Seq(Byte), NEW i \in 0..Messages
  PROVE  /\ Owned(t, i) \in Seq(Sendable) /\ Len(Owned(t, i)) = Len(t)
         /\ \A j \in 1..Len(t) : Owned(t, i)[j].byte = t[j]
<1> DEFINE e(j) == [byte |-> t[j], of |-> i]
<1>1. Len(t) \in Nat /\ DOMAIN t = 1..Len(t) /\ \A j \in 1..Len(t) : t[j] \in Byte OBVIOUS
<1>2. \A j \in 1..Len(t) : e(j) \in Sendable BY <1>1 DEF Sendable
<1>3. Owned(t, i) = [j \in 1..Len(t) |-> e(j)] BY <1>1 DEF Owned
<1>4. \A j \in 1..Len(t) : e(j).byte = t[j] OBVIOUS
<1> HIDE DEF e
<1>5. [j \in 1..Len(t) |-> e(j)] \in Seq(Sendable) BY <1>1, <1>2
<1>6. Len([j \in 1..Len(t) |-> e(j)]) = Len(t) BY <1>1
<1>7. \A j \in 1..Len(t) : Owned(t, i)[j] = e(j) BY <1>3
<1> QED BY <1>3, <1>5, <1>6, <1>7, <1>4

\* The texts are not empty, and there is no delimiter in them.
LEMMA TextTyped ==
  /\ Messages \in Nat /\ Text \in Seq(Seq(Byte \ {"delimiter"}))
  /\ \A i \in 1..Messages :
       /\ Text[i] \in Seq(Byte) /\ Text[i] \in Seq(Char) /\ Len(Text[i]) \in Nat \ {0}
       /\ \A j \in 1..Len(Text[i]) : Text[i][j] \in Byte \ {"delimiter"}
<1>1. Messages \in Nat /\ Text \in Seq(Seq(Byte \ {"delimiter"}))
  BY TransportAssumption DEF Messages
<1>2. ASSUME NEW i \in 1..Messages
      PROVE  /\ Text[i] \in Seq(Byte) /\ Text[i] \in Seq(Char) /\ Len(Text[i]) \in Nat \ {0}
             /\ \A j \in 1..Len(Text[i]) : Text[i][j] \in Byte \ {"delimiter"}
  <2>1. Text[i] \in Seq(Byte \ {"delimiter"}) BY <1>1 DEF Messages
  <2>2. Byte \ {"delimiter"} \subseteq Byte /\ Byte \ {"delimiter"} \subseteq Char BY DEF Char
  <2>3. Text[i] \in Seq(Byte) /\ Text[i] \in Seq(Char) BY <2>1, <2>2, SeqMonotonic, Zenon
  <2>4. i \in DOMAIN Text BY <1>1 DEF Messages
  <2>5. Text[i] # <<>> BY <2>4, TextAssumption DEF IsObject
  <2>6. Len(Text[i]) \in Nat \ {0} BY <2>1, <2>5, EmptySeq
  <2>7. \A j \in 1..Len(Text[i]) : Text[i][j] \in Byte \ {"delimiter"} BY <2>1
  <2> QED BY <2>3, <2>6, <2>7
<1> QED BY <1>1, <1>2

\* A text with its delimiter
LEMMA FramedShape ==
  ASSUME NEW t \in Seq(Byte), NEW i \in 0..Messages
  PROVE  /\ Framed(t, i) \in Seq(Sendable) /\ Len(Framed(t, i)) = Len(t) + 1
         /\ \A j \in 1..Len(t) : Framed(t, i)[j].byte = t[j]
         /\ Framed(t, i)[Len(t) + 1].byte = "delimiter"
<1> DEFINE u == Append(t, "delimiter")
<1>1. "delimiter" \in Byte /\ Len(t) \in Nat BY DEF Byte
<1>2. /\ u \in Seq(Byte) /\ Len(u) = Len(t) + 1 /\ \A j \in 1..Len(t) : u[j] = t[j]
      /\ u[Len(t) + 1] = "delimiter"
  BY <1>1, AppendProperties
<1>3. Framed(t, i) = Owned(u, i) BY DEF Framed
<1> HIDE DEF u
<1>4. /\ Owned(u, i) \in Seq(Sendable) /\ Len(Owned(u, i)) = Len(u)
      /\ \A j \in 1..Len(u) : Owned(u, i)[j].byte = u[j]
  BY <1>2, OwnedShape
<1> QED BY <1>1, <1>2, <1>3, <1>4

Piece(i) == IF peer.frames THEN Framed(Text[i], i) ELSE Owned(Text[i], i)

\* The bytes of a message as they are sent
LEMMA PieceShape ==
  ASSUME StreamTypeOK, NEW i \in 1..Messages
  PROVE  /\ Piece(i) \in Seq(Sendable) /\ Len(Piece(i)) = Len(Text[i]) + Gap
         /\ \A j \in 1..Len(Text[i]) : Piece(i)[j].byte = Text[i][j]
         /\ peer.frames => Piece(i)[Len(Text[i]) + 1].byte = "delimiter"
<1>1. Text[i] \in Seq(Byte) /\ i \in 0..Messages /\ Len(Text[i]) \in Nat BY TextTyped
<1>2. CASE peer.frames
  BY <1>1, <1>2, FramedShape DEF Piece, Gap
<1>3. CASE ~ peer.frames
  <2>1. Piece(i) = Owned(Text[i], i) /\ Gap = 0 BY <1>3 DEF Piece, Gap
  <2>2. /\ Owned(Text[i], i) \in Seq(Sendable) /\ Len(Owned(Text[i], i)) = Len(Text[i])
        /\ \A j \in 1..Len(Text[i]) : Owned(Text[i], i)[j].byte = Text[i][j]
    BY <1>1, OwnedShape
  <2> QED BY <1>1, <1>3, <2>1, <2>2
<1> QED BY <1>2, <1>3

\* Ends steps from message to message.
LEMMA EndsStep ==
  ASSUME StreamTypeOK
  PROVE  /\ Gap \in {0, 1} /\ Ends \in [0..Messages -> Nat]
         /\ Ends[0] = IF peer.greets THEN Len(Hello) + 1 ELSE 0
         /\ \A i \in 1..Messages : Ends[i] = Ends[i - 1] + Len(Text[i]) + Gap
<1> DEFINE first == IF peer.greets THEN Len(Hello) + 1 ELSE 0
<1>1. Gap \in {0, 1} BY DEF Gap
<1>2. first \in Nat BY TransportAssumption
<1>3. Ends = EndsFrom(first, Gap) BY DEF Ends
<1>4. ASSUME NEW n \in Nat
      PROVE  /\ EndsFrom(n, Gap) \in [0..Messages -> Nat] /\ EndsFrom(n, Gap)[0] = n
             /\ \A i \in 1..Messages :
                  EndsFrom(n, Gap)[i] = EndsFrom(n, Gap)[i - 1] + Len(Text[i]) + Gap
  BY <1>1, EndsIterates
<1> HIDE DEF first
<1>5. Ends[0] = first BY <1>2, <1>3, <1>4
<1>6. Ends \in [0..Messages -> Nat] BY <1>2, <1>3, <1>4
<1>7. \A i \in 1..Messages : Ends[i] = Ends[i - 1] + Len(Text[i]) + Gap BY <1>2, <1>3, <1>4
<1> QED BY <1>1, <1>5, <1>6, <1>7 DEF first

\* A later message ends later.
LEMMA EndsAscend ==
  ASSUME StreamTypeOK, NEW i \in 0..Messages, NEW j \in i..Messages
  PROVE  Ends[i] <= Ends[j]
<1>1. Messages \in Nat /\ \A k \in 1..Messages : Len(Text[k]) \in Nat BY TextTyped
<1>2. \A k \in 1..Messages : Ends[k - 1] <= Ends[k]
  <2> SUFFICES ASSUME NEW k \in 1..Messages PROVE Ends[k - 1] <= Ends[k] OBVIOUS
  <2>1. Ends[k] = Ends[k - 1] + Len(Text[k]) + Gap /\ Gap \in {0, 1} BY EndsStep
  <2>2. k - 1 \in 0..Messages BY <1>1
  <2>3. Ends[k - 1] \in Nat BY <2>2, EndsStep
  <2> QED BY <1>1, <2>1, <2>3
<1> QED BY <1>1, <1>2, EndsStep, Ascends

\* Where the bytes of the messages are in what is sent
LEMMA SentLayout ==
  ASSUME StreamTypeOK
  PROVE  /\ Sent \in Seq(Sendable) /\ Len(Sent) = Ends[Messages]
         /\ \A i \in 1..Messages : \A j \in 1..Len(Text[i]) :
              Sent[Ends[i - 1] + j].byte = Text[i][j]
         /\ peer.frames => \A i \in 1..Messages : Sent[Ends[i]].byte = "delimiter"
<1> DEFINE prefix == IF peer.greets THEN Framed(Hello, 0) ELSE <<>>
           seqs == [i \in DOMAIN Text |->
                      IF peer.frames THEN Framed(Text[i], i) ELSE Owned(Text[i], i)]
<1>1. Messages \in Nat /\ DOMAIN Text = 1..Messages BY TextTyped DEF Messages
<1>2. \A i \in 1..Messages : Len(Text[i]) \in Nat \ {0} BY TextTyped
<1>3. /\ Gap \in {0, 1} /\ Ends \in [0..Messages -> Nat]
      /\ Ends[0] = IF peer.greets THEN Len(Hello) + 1 ELSE 0
      /\ \A i \in 1..Messages : Ends[i] = Ends[i - 1] + Len(Text[i]) + Gap
  BY EndsStep
<1>4. prefix \in Seq(Sendable) /\ Len(prefix) = Ends[0]
  <2>1. Hello \in Seq(Byte) /\ 0 \in 0..Messages
    BY <1>1, TransportAssumption, SeqMonotonic
  <2>2. CASE peer.greets BY <1>3, <2>1, <2>2, FramedShape
  <2>3. CASE ~ peer.greets BY <1>3, <2>3, EmptySeq
  <2> QED BY <2>2, <2>3
<1>5. \A i \in 1..Messages : Piece(i) \in Seq(Sendable) BY PieceShape
<1>6. seqs = [i \in 1..Messages |-> Piece(i)] BY <1>1 DEF Piece
<1>7. seqs \in Seq(Seq(Sendable)) /\ Len(seqs) = Messages
  <2> HIDE DEF seqs
  <2>1. [i \in 1..Messages |-> Piece(i)] \in Seq(Seq(Sendable)) BY <1>1, <1>5
  <2>2. Len([i \in 1..Messages |-> Piece(i)]) = Messages BY <1>1
  <2> QED BY <1>6, <2>1, <2>2
<1>8. Sent = prefix \o FlattenSeq(seqs) BY DEF Sent
<1>9. \A i \in 1..Messages : seqs[i] = Piece(i) BY <1>6
<1> HIDE DEF seqs, prefix
<1>10. PICK f \in [0..Messages -> Seq(Sendable)] :
         /\ f[0] = <<>> /\ FlattenSeq(seqs) = f[Messages]
         /\ \A i \in 1..Messages : f[i] = f[i - 1] \o Piece(i)
  <2>1. \E f \in [0..Len(seqs) -> Seq(Sendable)] :
          /\ f[0] = <<>> /\ FlattenSeq(seqs) = f[Len(seqs)]
          /\ \A i \in 1..Len(seqs) : f[i] = f[i - 1] \o seqs[i]
    BY <1>7, Flattens, Zenon
  <2>2. \E f \in [0..Messages -> Seq(Sendable)] :
          /\ f[0] = <<>> /\ FlattenSeq(seqs) = f[Messages]
          /\ \A i \in 1..Messages : f[i] = f[i - 1] \o seqs[i]
    BY <1>7, <2>1, Zenon
  <2> QED BY <1>9, <2>2, Zenon
<1> DEFINE Holds(g, l) == /\ Ends[l] - Ends[0] <= Len(g)
                          /\ \A j \in 1..Len(Piece(l)) :
                               g[Ends[l - 1] - Ends[0] + j] = Piece(l)[j]
           S == {i \in 0..Messages : /\ Len(f[i]) = Ends[i] - Ends[0]
                                     /\ \A l \in 1..i : Holds(f[i], l)}
<1>11. \A i \in 0..Messages : Ends[i] \in Nat /\ Ends[0] <= Ends[i]
  BY <1>1, <1>3, EndsAscend
<1>12. 0 \in S
  BY <1>1, <1>3, <1>10, EmptySeq
<1>13. ASSUME NEW i \in 0..(Messages - 1), i \in S PROVE i + 1 \in S
  <2> DEFINE g == f[i] p == Piece(i + 1)
  <2>1. i + 1 \in 1..Messages /\ i + 1 \in 0..Messages /\ i \in 0..Messages /\ (i + 1) - 1 = i
    BY <1>1
  <2>2. f[i + 1] = g \o p BY <1>10, <2>1
  <2>3. g \in Seq(Sendable) /\ p \in Seq(Sendable) BY <1>5, <1>10, <2>1
  <2>4. Len(p) = Len(Text[i + 1]) + Gap /\ Ends[i + 1] = Ends[i] + Len(p)
    <3>1. Len(p) = Len(Text[i + 1]) + Gap BY <2>1, PieceShape
    <3>2. Ends[i + 1] = Ends[(i + 1) - 1] + Len(Text[i + 1]) + Gap BY <1>3, <2>1
    <3>3. Ends[i] \in Nat /\ Len(Text[i + 1]) \in Nat BY <1>2, <1>11, <2>1
    <3>4. Ends[(i + 1) - 1] = Ends[i] BY <2>1, Zenon
    <3> HIDE DEF p
    <3> QED BY <1>3, <3>1, <3>2, <3>3, <3>4
  <2>5. Len(g) = Ends[i] - Ends[0] /\ \A l \in 1..i : Holds(g, l) BY <1>13
  <2> HIDE DEF g, p
  <2>6. /\ Len(g \o p) = Len(g) + Len(p) /\ Len(g) \in Nat /\ Len(p) \in Nat
        /\ \A k \in 1..Len(g) : (g \o p)[k] = g[k]
        /\ \A k \in 1..Len(p) : (g \o p)[Len(g) + k] = p[k]
    BY <2>3, ConcatProperties
  <2>7. Len(f[i + 1]) = Ends[i + 1] - Ends[0]
    <3>1. Ends[0] \in Nat /\ Ends[i] \in Nat BY <1>1, <1>11, <2>1
    <3>2. Len(f[i + 1]) = Len(g) + Len(p) BY <2>2, <2>6
    <3> QED BY <2>4, <2>5, <2>6, <3>1, <3>2
  <2>8. ASSUME NEW l \in 1..(i + 1) PROVE Holds(f[i + 1], l)
    <3>1. CASE l = i + 1
      <4>1. Ends[l - 1] - Ends[0] = Len(g) BY <2>1, <2>5, <3>1
      <4>2. Piece(l) = p BY <3>1 DEF p
      <4>3. \A j \in 1..Len(p) : f[i + 1][Len(g) + j] = p[j] BY <2>2, <2>6
      <4>4. Ends[l] - Ends[0] <= Len(f[i + 1]) BY <1>11, <2>1, <2>7, <3>1
      <4> QED BY <4>1, <4>2, <4>3, <4>4
    <3>2. CASE l # i + 1
      <4>1. l \in 1..i /\ l \in 1..Messages /\ l - 1 \in 0..Messages /\ l \in 0..Messages
        BY <1>1, <2>1, <3>2
      <4>2. Holds(g, l) BY <2>5, <4>1
      <4>3. Ends[l] = Ends[l - 1] + Len(Piece(l))
        <5>1. Ends[l] = Ends[l - 1] + Len(Text[l]) + Gap BY <1>3, <4>1
        <5>2. Len(Piece(l)) = Len(Text[l]) + Gap BY <4>1, PieceShape
        <5>3. Len(Text[l]) \in Nat /\ Ends[l - 1] \in Nat BY <1>2, <1>11, <4>1
        <5> QED BY <1>3, <5>1, <5>2, <5>3
      <4>4. /\ Ends[l - 1] \in Nat /\ Ends[0] \in Nat /\ Ends[0] <= Ends[l - 1]
            /\ Ends[l] \in Nat /\ Len(Piece(l)) \in Nat
        BY <1>1, <1>5, <1>11, <4>1
      <4>5. ASSUME NEW j \in 1..Len(Piece(l))
            PROVE  f[i + 1][Ends[l - 1] - Ends[0] + j] = Piece(l)[j]
        <5>1. Ends[l - 1] - Ends[0] + j \in 1..Len(g) BY <2>6, <4>2, <4>3, <4>4
        <5>2. f[i + 1][Ends[l - 1] - Ends[0] + j] = g[Ends[l - 1] - Ends[0] + j]
          BY <2>2, <2>6, <5>1
        <5> QED BY <4>2, <5>2
      <4>6. Ends[l] - Ends[0] <= Len(f[i + 1])
        <5>1. Ends[l] - Ends[0] <= Len(g) BY <4>2
        <5>2. Len(f[i + 1]) = Len(g) + Len(p) BY <2>2, <2>6
        <5> QED BY <2>6, <4>4, <5>1, <5>2
      <4> QED BY <4>5, <4>6
    <3> QED BY <3>1, <3>2
  <2> HIDE DEF Holds
  <2> QED BY <2>1, <2>7, <2>8
<1> HIDE DEF S
<1>14. Messages \in S
  <2>1. \A i \in 0..Messages : i \in S BY <1>1, <1>12, <1>13, UpTo
  <2> QED BY <1>1, <2>1
<1> DEFINE all == f[Messages]
<1>15. all \in Seq(Sendable) /\ Len(all) = Ends[Messages] - Ends[0]
  BY <1>1, <1>10, <1>14 DEF S
<1>16. ASSUME NEW l \in 1..Messages, NEW j \in 1..Len(Piece(l))
       PROVE  all[Ends[l - 1] - Ends[0] + j] = Piece(l)[j]
  BY <1>14 DEF S
<1>17. Sent = prefix \o all BY <1>8, <1>10
<1> HIDE DEF all
<1>18. /\ Sent \in Seq(Sendable) /\ Len(Sent) = Ends[0] + Len(all)
       /\ \A k \in 1..Len(all) : Sent[Ends[0] + k] = all[k]
  BY <1>4, <1>15, <1>17, ConcatProperties
<1>19. Len(Sent) = Ends[Messages] BY <1>1, <1>11, <1>15, <1>18
<1>20. ASSUME NEW l \in 1..Messages, NEW j \in 1..Len(Piece(l))
       PROVE  Sent[Ends[l - 1] + j] = Piece(l)[j]
  <2>1. l \in 0..Messages /\ l - 1 \in 0..Messages /\ l \in l..Messages BY <1>1
  <2>2. Ends[l - 1] \in Nat /\ Ends[0] \in Nat /\ Ends[0] <= Ends[l - 1] BY <1>1, <1>11, <2>1
  <2>3. Ends[l] <= Ends[Messages] BY <1>1, <2>1, EndsAscend
  <2>4. Ends[l] = Ends[l - 1] + Len(Piece(l)) /\ Len(Piece(l)) \in Nat
    <3>1. Ends[l] = Ends[l - 1] + Len(Text[l]) + Gap BY <1>3
    <3>2. Len(Piece(l)) = Len(Text[l]) + Gap BY PieceShape
    <3>3. Len(Text[l]) \in Nat BY <1>2
    <3> QED BY <1>3, <2>2, <3>1, <3>2, <3>3
  <2>5. Ends[Messages] \in Nat BY <1>1, <1>11
  <2>6. Ends[l - 1] - Ends[0] + j \in 1..Len(all) BY <1>15, <2>2, <2>3, <2>4, <2>5
  <2>7. Ends[0] + (Ends[l - 1] - Ends[0] + j) = Ends[l - 1] + j BY <2>2, <2>4
  <2>8. Sent[Ends[0] + (Ends[l - 1] - Ends[0] + j)] = all[Ends[l - 1] - Ends[0] + j]
    BY <1>18, <2>6
  <2> QED BY <1>16, <2>7, <2>8
<1>21. ASSUME NEW i \in 1..Messages, NEW j \in 1..Len(Text[i])
       PROVE  Sent[Ends[i - 1] + j].byte = Text[i][j]
  <2>1. Len(Piece(i)) = Len(Text[i]) + Gap /\ Piece(i)[j].byte = Text[i][j] BY PieceShape
  <2>2. j \in 1..Len(Piece(i)) BY <1>2, <1>3, <2>1
  <2> QED BY <1>20, <2>1, <2>2
<1>22. ASSUME peer.frames, NEW i \in 1..Messages PROVE Sent[Ends[i]].byte = "delimiter"
  <2>1. /\ Len(Piece(i)) = Len(Text[i]) + Gap /\ Gap = 1
        /\ Piece(i)[Len(Text[i]) + 1].byte = "delimiter"
    BY <1>22, PieceShape DEF Gap
  <2>2. Len(Text[i]) \in Nat /\ Len(Text[i]) + 1 \in 1..Len(Piece(i)) BY <1>2, <2>1
  <2>3. Sent[Ends[i - 1] + (Len(Text[i]) + 1)] = Piece(i)[Len(Text[i]) + 1] BY <1>20, <2>2
  <2>4. i - 1 \in 0..Messages BY <1>1
  <2>5. Ends[i] = Ends[i - 1] + Len(Text[i]) + Gap /\ Ends[i - 1] \in Nat BY <1>3, <1>11, <2>4
  <2>6. Ends[i] = Ends[i - 1] + (Len(Text[i]) + 1) BY <2>1, <2>2, <2>5
  <2> QED BY <2>1, <2>3, <2>6
<1> QED BY <1>18, <1>19, <1>21, <1>22
-----------------------------------------------------------------------------
(* The parser reads a sequence of messages as it reads each one on its own. *)

\* The parser reads what a chunk has left of a byte as it reads the byte.
LEMMA SameIsRead ==
  ASSUME NEW c, NEW d \in Byte, Same(c, d),
         NEW e \in {"open", "close", "quote", "backslash", "delimiter"}
  PROVE  c = e <=> d = e
BY DEF Same, Byte, Broken

\* A message begins with a brace.
LEMMA ObjectBegins ==
  ASSUME NEW i \in 1..Messages
  PROVE  /\ Text[i][1] = "open"
         /\ Scan(Text[i])[1].mode = "plain" /\ Scan(Text[i])[1].depth = 1
<1> DEFINE t == Text[i]
<1>1. t \in Seq(Char) /\ Len(t) \in Nat \ {0} /\ t[1] \in Byte \ {"delimiter"} BY TextTyped
<1>2. i \in DOMAIN Text /\ DOMAIN t = 1..Len(t) BY <1>1, TextTyped DEF Messages
<1>3. IsObject(t) BY <1>2, TextAssumption
<1> HIDE DEF t
<1>4. 1 \in DOMAIN t BY <1>1, <1>2
<1>5. Scan(t)[1].mode # "stuck" BY <1>3, <1>4 DEF IsObject
<1>6. Scan(t)[1] = ParseAt(Scan(t)[1 - 1], t, 1) /\ Scan(t)[0] = ScanStart
  BY <1>1, <1>2, <1>4, ScanIterates
<1>7. Scan(t)[1] = ParseAt(ScanStart, t, 1)
  <2>1. 1 - 1 = 0 OBVIOUS
  <2> QED BY <1>6, <2>1
<1>8. Scan(t)[1] = BetweenFrames(ScanStart, t, 1)
  BY <1>7 DEF ParseAt, ScanStart
<1>9. t[1] = "open"
  <2> SUFFICES ASSUME t[1] # "open" PROVE FALSE OBVIOUS
  <2>1. BetweenFrames(ScanStart, t, 1) = [ScanStart EXCEPT !.start = 1, !.mode = "stuck"]
    BY <1>1 DEF BetweenFrames
  <2> QED BY <1>5, <1>8, <2>1 DEF ScanStart
<1>10. Scan(t)[1] = [ScanStart EXCEPT !.start = 1, !.depth = 1]
  BY <1>8, <1>9 DEF BetweenFrames
<1>11. Scan(t)[1].mode = "plain" /\ Scan(t)[1].depth = 1 BY <1>10 DEF ScanStart
<1> QED BY <1>9, <1>11 DEF t

\* Up to its last byte, the parser is in the midst of it.
LEMMA ObjectGoesOn ==
  ASSUME NEW i \in 1..Messages, NEW q \in 1..(Len(Text[i]) - 1)
  PROVE  LET s == Scan(Text[i])[q]
             r == Scan(Text[i])[q + 1]
         IN  /\ s \in ScanState /\ s.depth # 0 /\ s.mode # "stuck"
             /\ Moves(r, s, Text[i], q + 1)
             /\ r.depth = 0 <=> q + 1 = Len(Text[i])
<1> DEFINE t == Text[i]
           s == Scan(t)[q]
           r == Scan(t)[q + 1]
<1>1. t \in Seq(Char) /\ Len(t) \in Nat \ {0} BY TextTyped
<1>2. i \in DOMAIN Text /\ DOMAIN t = 1..Len(t) BY <1>1, TextTyped DEF Messages
<1>3. IsObject(t) BY <1>2, TextAssumption
<1>4. q \in 1..(Len(t) - 1) OBVIOUS
<1> HIDE DEF t
<1>5. q \in DOMAIN t /\ q + 1 \in DOMAIN t /\ q # Len(t) /\ q \in 0..Len(t)
  <2>1. q \in 1..Len(t) /\ q + 1 \in 1..Len(t) /\ q # Len(t) /\ q \in 0..Len(t)
    BY <1>1, <1>4
  <2> QED BY <1>2, <2>1
<1>6. s.mode # "stuck" /\ s.depth # 0 BY <1>3, <1>5 DEF IsObject
<1>7. r.depth = 0 <=> q + 1 = Len(t) BY <1>3, <1>5 DEF IsObject
<1>8. s \in ScanState BY <1>1, <1>5, ScanIterates
<1>9. r = ParseAt(s, t, q + 1)
  <2>1. r = ParseAt(Scan(t)[(q + 1) - 1], t, q + 1) BY <1>1, <1>2, <1>5, ScanIterates
  <2>2. (q + 1) - 1 = q BY <1>1, <1>4
  <2> QED BY <2>1, <2>2
<1>10. r = InFrame(s, t, q + 1) BY <1>6, <1>9 DEF ParseAt
<1>11. Moves(InFrame(s, t, q + 1), s, t, q + 1) BY <1>6, <1>8, InFrameMoves
<1>12. Moves(r, s, t, q + 1) BY <1>10, <1>11
<1> QED BY <1>6, <1>7, <1>8, <1>12 DEF t

\* Two parsers in the same mode and depth that read the same byte
LEMMA MovesAgree ==
  ASSUME NEW s \in ScanState, NEW s2 \in ScanState, NEW r, NEW r2,
         NEW b, NEW i, NEW t, NEW q,
         s.mode = s2.mode, s.depth = s2.depth, s.depth # 0, s.mode # "stuck",
         Moves(r, s, b, i), Moves(r2, s2, t, q), t[q] \in Byte, Same(b[i], t[q])
  PROVE  /\ r.mode = r2.mode /\ r.depth = r2.depth /\ r.start = s.start
         /\ r.depth # 0 => r.frames = s.frames
         /\ r.depth = 0 => /\ r.mode = "plain"
                           /\ r.frames = Append(s.frames, SubSeq(b, s.start, i))
<1>1. /\ s.mode \in {"plain", "string", "escaped"} /\ s.depth \in Nat \ {0}
  BY DEF ScanState
<1>2. /\ b[i] = "open" <=> t[q] = "open"
      /\ b[i] = "close" <=> t[q] = "close"
      /\ b[i] = "quote" <=> t[q] = "quote"
      /\ b[i] = "backslash" <=> t[q] = "backslash"
  BY SameIsRead
<1>3. r.mode = r2.mode BY <1>2 DEF Moves
<1>4. r.depth = r2.depth BY <1>2 DEF Moves
<1>5. r.start = s.start BY DEF Moves
<1>6. r.depth = IF s.mode # "plain" THEN s.depth ELSE IF b[i] = "open" THEN s.depth + 1
                ELSE IF b[i] = "close" THEN s.depth - 1 ELSE s.depth
  BY Zenon DEF Moves
<1>7. r.depth = 0 <=> s.mode = "plain" /\ b[i] = "close" /\ s.depth = 1
  <2>1. CASE s.mode # "plain" BY <1>1, <1>6, <2>1
  <2>2. CASE s.mode = "plain" /\ b[i] = "open" BY <1>1, <1>6, <2>2
  <2>3. CASE s.mode = "plain" /\ b[i] = "close" BY <1>1, <1>6, <2>3
  <2>4. CASE s.mode = "plain" /\ b[i] \notin {"open", "close"} BY <1>1, <1>6, <2>4
  <2> QED BY <2>1, <2>2, <2>3, <2>4
<1>8. r.frames = IF s.mode = "plain" /\ b[i] = "close" /\ s.depth = 1
                 THEN Append(s.frames, SubSeq(b, s.start, i)) ELSE s.frames
  BY Zenon DEF Moves
<1>9. r.depth = 0 => r.mode = "plain"
  <2> SUFFICES ASSUME r.depth = 0 PROVE r.mode = "plain" OBVIOUS
  <2>1. s.mode = "plain" /\ b[i] = "close" BY <1>7
  <2>2. s.mode # "escaped" /\ s.mode # "string" /\ b[i] # "quote" BY <2>1
  <2> QED BY <2>2, Zenon DEF Moves
<1> QED BY <1>3, <1>4, <1>5, <1>7, <1>8, <1>9

\* Where the messages after the first n would end in b, if each began right after the
\* one before
Adjacent(U) ==
  /\ U \in [0..Messages -> Nat]
  /\ \A i \in 1..Messages : U[i] = U[i - 1] + Len(Text[i])

\* b begins with the messages after the first n and ends with some part of one.
Shows(b, U, n) ==
  /\ Len(b) <= U[Messages] - U[n]
  /\ \A i \in (n + 1)..Messages : \A j \in 1..Len(Text[i]) :
       U[i - 1] - U[n] + j <= Len(b) => Same(b[U[i - 1] - U[n] + j], Text[i][j])

\* fs are the messages after the first n.
AreMessages(fs, n) == \A j \in 1..Len(fs) : IsMessage(fs[j], n + j)

\* After k bytes the parser has cut m messages, and read q bytes of the one after them.
HasRead(b, U, n, k, m, q) ==
  LET s == Scan(b)[k] IN
  /\ U[m] - U[n] + q = k
  /\ m = Messages => q = 0
  /\ m # Messages => q < Len(Text[m + 1])
  /\ Len(s.frames) = m - n /\ AreMessages(s.frames, n)
  /\ q = 0 => s.mode = "plain" /\ s.depth = 0
  /\ q # 0 => /\ s.start = k - q + 1
              /\ s.mode = Scan(Text[m + 1])[q].mode
              /\ s.depth = Scan(Text[m + 1])[q].depth

\* One byte more: the parser moves as it does in the message that the byte is of.
LEMMA ReadsOn ==
  ASSUME NEW b \in Seq(Char), NEW U, Adjacent(U), NEW n \in 0..Messages, Shows(b, U, n),
         NEW k \in 0..(Len(b) - 1), NEW m \in n..(Messages - 1), NEW q \in Nat,
         HasRead(b, U, n, k, m, q)
  PROVE  LET s == Scan(b)[k]
             r == Scan(b)[k + 1]
             r2 == Scan(Text[m + 1])[q + 1]
         IN  /\ r.mode = r2.mode /\ r.depth = r2.depth /\ r.start = k - q + 1
             /\ r.depth = 0 <=> q + 1 = Len(Text[m + 1])
             /\ r.depth # 0 => r.frames = s.frames
             /\ r.depth = 0 => /\ r.mode = "plain"
                               /\ r.frames = Append(s.frames, SubSeq(b, k - q + 1, k + 1))
<1> DEFINE t == Text[m + 1]
           s == Scan(b)[k]
           r == Scan(b)[k + 1]
           s2 == Scan(t)[q]
           r2 == Scan(t)[q + 1]
           Goal == /\ r.mode = r2.mode /\ r.depth = r2.depth /\ r.start = k - q + 1
                   /\ r.depth = 0 <=> q + 1 = Len(t)
                   /\ r.depth # 0 => r.frames = s.frames
                   /\ r.depth = 0 => /\ r.mode = "plain"
                                     /\ r.frames = Append(s.frames, SubSeq(b, k - q + 1, k + 1))
<1>1. /\ Messages \in Nat /\ Len(b) \in Nat /\ n \in Nat /\ m \in 0..Messages
      /\ m + 1 \in (n + 1)..Messages /\ m + 1 \in 1..Messages /\ (m + 1) - 1 = m
      /\ m # Messages
  BY TextTyped
<1>2. t \in Seq(Char) /\ Len(t) \in Nat \ {0} /\ \A j \in 1..Len(t) : t[j] \in Byte
  BY <1>1, TextTyped
<1>3. U[m] \in Nat /\ U[n] \in Nat BY <1>1 DEF Adjacent
<1>4. U[m] - U[n] + q = k /\ q < Len(t) BY <1>1 DEF HasRead
<1>5. Same(b[k + 1], t[q + 1])
  <2>1. q + 1 \in 1..Len(t) BY <1>2, <1>4
  <2>2. U[m] - U[n] + (q + 1) = k + 1 /\ k + 1 <= Len(b) BY <1>1, <1>3, <1>4
  <2>3. U[(m + 1) - 1] - U[n] + (q + 1) <= Len(b)
             => Same(b[U[(m + 1) - 1] - U[n] + (q + 1)], Text[m + 1][q + 1])
    BY <1>1, <2>1 DEF Shows
  <2>4. U[(m + 1) - 1] = U[m] BY <1>1
  <2> QED BY <2>2, <2>3, <2>4
<1>6. k + 1 \in 1..Len(b) /\ k \in 0..Len(b) /\ (k + 1) - 1 = k BY <1>1
<1>7. s \in ScanState /\ r = ParseAt(s, b, k + 1)
  <2>1. r = ParseAt(Scan(b)[(k + 1) - 1], b, k + 1) BY <1>6, ScanIterates
  <2> QED BY <1>6, <2>1, ScanIterates
<1>8. t[q + 1] \in Byte BY <1>2, <1>4
<1>9. CASE q = 0
  <2>1. s.mode = "plain" /\ s.depth = 0 BY <1>9 DEF HasRead
  <2>2. /\ t[1] = "open" /\ Scan(t)[1].mode = "plain" /\ Scan(t)[1].depth = 1
    BY <1>1, ObjectBegins
  <2>3. q + 1 = 1 BY <1>9
  <2>4. b[k + 1] = "open" BY <1>5, <1>8, <2>2, <2>3, SameIsRead
  <2>5. r = [s EXCEPT !.start = k + 1, !.depth = 1]
    <3>1. r = BetweenFrames(s, b, k + 1) BY <1>7, <2>1 DEF ParseAt
    <3> HIDE DEF r, s
    <3> QED BY <2>4, <3>1 DEF BetweenFrames
  <2> HIDE DEF s, r, t
  <2>6. r.mode = "plain" /\ r.depth = 1 /\ r.start = k + 1 /\ r.frames = s.frames
    BY <1>7, <2>1, <2>5 DEF ScanState
  <2>7. r2.mode = "plain" /\ r2.depth = 1 BY <2>2, <2>3
  <2>8. Len(t) # 1
    <3>1. t # <<>> /\ IsObject(t)
      BY <1>1, TextAssumption, TextTyped DEF t, Messages, IsObject
    <3>2. SUFFICES ASSUME Len(t) = 1 PROVE FALSE OBVIOUS
    <3>3. 1 \in DOMAIN t BY <1>2, <3>2
    <3>4. Scan(t)[1].depth = 0 BY <3>1, <3>2, <3>3 DEF IsObject
    <3> QED BY <2>2, <3>4
  <2>9. k - q + 1 = k + 1 BY <1>1, <1>9
  <2> HIDE DEF r2
  <2>10. r.depth # 0 BY <2>6
  <2>11. q + 1 # Len(t) BY <2>3, <2>8
  <2>12. r.mode = r2.mode /\ r.depth = r2.depth /\ r.start = k - q + 1 BY <2>6, <2>7, <2>9
  <2>13. Goal BY <2>6, <2>10, <2>11, <2>12, Zenon
  <2> QED BY <2>13 DEF s, r, r2, t
<1>10. CASE q # 0
  <2>1. q \in 1..(Len(t) - 1) BY <1>2, <1>4, <1>10
  <2>2. /\ s2 \in ScanState /\ s2.depth # 0 /\ s2.mode # "stuck"
        /\ Moves(r2, s2, t, q + 1) /\ (r2.depth = 0 <=> q + 1 = Len(t))
    BY <1>1, <2>1, ObjectGoesOn
  <2>3. s.start = k - q + 1 /\ s.mode = s2.mode /\ s.depth = s2.depth
    BY <1>10 DEF HasRead
  <2>4. r = InFrame(s, b, k + 1) BY <1>7, <2>2, <2>3 DEF ParseAt
  <2> HIDE DEF s, r, s2, r2, t
  <2>5. Moves(InFrame(s, b, k + 1), s, b, k + 1) BY <1>7, <2>2, <2>3, InFrameMoves
  <2>6. Moves(r, s, b, k + 1) BY <2>4, <2>5
  <2>7. /\ r.mode = r2.mode /\ r.depth = r2.depth /\ r.start = s.start
        /\ r.depth # 0 => r.frames = s.frames
        /\ r.depth = 0 => /\ r.mode = "plain"
                          /\ r.frames = Append(s.frames, SubSeq(b, s.start, k + 1))
    <3>1. s \in ScanState /\ s.depth # 0 /\ s.mode # "stuck" BY <1>7, <2>2, <2>3
    <3>2. s2 \in ScanState /\ Moves(r2, s2, t, q + 1) BY <2>2
    <3>3. s.mode = s2.mode /\ s.depth = s2.depth BY <2>3
    <3> QED BY <1>5, <1>8, <2>6, <3>1, <3>2, <3>3, MovesAgree, SMTT(60)
  <2>8. Goal BY <2>2, <2>3, <2>7, Zenon
  <2> QED BY <2>8 DEF s, r, r2, t
<1> QED BY <1>9, <1>10

\* A sequence of the bytes of a message, or of what is left of them, is that message.
LEMMA MessageIsSame ==
  ASSUME NEW f \in Seq(Char), NEW i \in 1..Messages, Len(f) = Len(Text[i]),
         \A j \in 1..Len(f) : Same(f[j], Text[i][j])
  PROVE  IsMessage(f, i)
<1>1. DOMAIN f = 1..Len(f) OBVIOUS
<1> QED BY <1>1 DEF IsMessage, Same

\* A part of b that begins with a message
LEMMA ShownPart ==
  ASSUME NEW b \in Seq(Char), NEW U, Adjacent(U), NEW n \in 0..Messages, Shows(b, U, n),
         NEW m \in n..(Messages - 1), NEW q \in 0..Len(Text[m + 1]), NEW p \in Nat,
         p = U[m] - U[n], p + q <= Len(b)
  PROVE  LET f == SubSeq(b, p + 1, p + q)
         IN  /\ f \in Seq(Char) /\ Len(f) = q
             /\ \A j \in 1..q : Same(f[j], Text[m + 1][j])
<1> DEFINE f == SubSeq(b, p + 1, p + q)
<1>1. /\ Messages \in Nat /\ m + 1 \in (n + 1)..Messages /\ m + 1 \in 1..Messages
      /\ (m + 1) - 1 = m
  BY TextTyped
<1>2. Len(b) \in Nat /\ q \in Nat /\ Len(Text[m + 1]) \in Nat BY <1>1, TextTyped
<1>3. \A i \in (p + 1)..(p + q) : b[i] \in Char BY <1>2
<1>4. /\ f \in Seq(Char)
      /\ Len(f) = IF p + 1 <= p + q THEN (p + q) - (p + 1) + 1 ELSE 0
      /\ \A i \in 1..((p + q) - (p + 1) + 1) : f[i] = b[(p + 1) + i - 1]
  BY <1>2, <1>3, SubSeqProperties
<1> HIDE DEF f
<1>5. Len(f) = q BY <1>2, <1>4
<1>6. ASSUME NEW j \in 1..q PROVE Same(f[j], Text[m + 1][j])
  <2>1. j \in 1..((p + q) - (p + 1) + 1) /\ (p + 1) + j - 1 = p + j /\ p + j <= Len(b)
    BY <1>2
  <2>2. f[j] = b[p + j] BY <1>4, <2>1
  <2>3. j \in 1..Len(Text[m + 1]) BY <1>2
  <2>4. U[(m + 1) - 1] - U[n] + j <= Len(b)
             => Same(b[U[(m + 1) - 1] - U[n] + j], Text[m + 1][j])
    BY <1>1, <2>3 DEF Shows
  <2>5. U[(m + 1) - 1] - U[n] = p BY <1>1
  <2> QED BY <2>1, <2>2, <2>4, <2>5
<1> QED BY <1>4, <1>5, <1>6 DEF f

\* One byte more, whatever the parser is at: it stays in the message that it reads,
\* ends it, or begins the next one.
LEMMA ReadsByte ==
  ASSUME NEW b \in Seq(Char), NEW U, Adjacent(U), NEW n \in 0..Messages, Shows(b, U, n),
         NEW k \in 0..(Len(b) - 1), NEW m \in n..Messages, NEW q \in Nat,
         HasRead(b, U, n, k, m, q)
  PROVE  \E m2 \in n..Messages, q2 \in Nat : HasRead(b, U, n, k + 1, m2, q2)
<1> DEFINE s == Scan(b)[k]
           r == Scan(b)[k + 1]
           p == U[m] - U[n]
<1>1. Messages \in Nat /\ Len(b) \in Nat /\ n \in Nat /\ m \in 0..Messages BY TextTyped
<1>2. U[m] \in Nat /\ U[n] \in Nat /\ U[Messages] \in Nat /\ p + q = k
  BY <1>1 DEF Adjacent, HasRead
<1>3. m # Messages
  BY <1>1, <1>2 DEF HasRead, Shows
<1>4. m \in n..(Messages - 1) /\ m + 1 \in 1..Messages /\ m + 1 \in n..Messages BY <1>1, <1>3
<1>5. Len(Text[m + 1]) \in Nat \ {0} /\ q < Len(Text[m + 1]) BY <1>3, <1>4, TextTyped DEF HasRead
<1>6. /\ r.mode = Scan(Text[m + 1])[q + 1].mode /\ r.depth = Scan(Text[m + 1])[q + 1].depth
      /\ r.start = k - q + 1
      /\ r.depth = 0 <=> q + 1 = Len(Text[m + 1])
      /\ r.depth # 0 => r.frames = s.frames
      /\ r.depth = 0 => /\ r.mode = "plain"
                        /\ r.frames = Append(s.frames, SubSeq(b, k - q + 1, k + 1))
  BY <1>4, ReadsOn
<1>7. s \in ScanState BY <1>1, ScanIterates
<1>8. s.frames \in Seq(Seq(Char)) BY <1>7 DEF ScanState
<1>9. Len(s.frames) = m - n /\ AreMessages(s.frames, n) BY DEF HasRead
<1>10. CASE q + 1 # Len(Text[m + 1])
  <2>1. r.depth # 0 /\ r.frames = s.frames BY <1>6, <1>10
  <2>2. p + (q + 1) = k + 1 /\ (k + 1) - (q + 1) + 1 = k - q + 1 BY <1>2
  <2>3. q + 1 # 0 /\ q + 1 \in Nat /\ q + 1 < Len(Text[m + 1]) BY <1>5, <1>10
  <2>4. r.start = (k + 1) - (q + 1) + 1 BY <1>6, <2>2
  <2>5. Len(r.frames) = m - n /\ AreMessages(r.frames, n) BY <1>9, <2>1
  <2>6. HasRead(b, U, n, k + 1, m, q + 1)
    BY <1>3, <1>6, <2>2, <2>3, <2>4, <2>5, Zenon DEF HasRead
  <2> QED BY <2>3, <2>6
<1>11. CASE q + 1 = Len(Text[m + 1])
  <2> DEFINE f == SubSeq(b, k - q + 1, k + 1)
  <2>1. r.depth = 0 /\ r.mode = "plain" /\ r.frames = Append(s.frames, f) BY <1>6, <1>11
  <2>2. /\ f \in Seq(Char) /\ Len(f) = q + 1
        /\ \A j \in 1..(q + 1) : Same(f[j], Text[m + 1][j])
    <3>1. p \in Nat /\ k - q + 1 = p + 1 /\ k + 1 = p + (q + 1) /\ p + (q + 1) <= Len(b)
      <4>1. U[n] <= U[m]
        <5>1. \A i \in 1..Messages : U[i - 1] <= U[i]
          <6> SUFFICES ASSUME NEW i \in 1..Messages PROVE U[i - 1] <= U[i] OBVIOUS
          <6>1. U[i] = U[i - 1] + Len(Text[i]) /\ Len(Text[i]) \in Nat BY TextTyped DEF Adjacent
          <6>2. i - 1 \in 0..Messages BY <1>1
          <6>3. U[i - 1] \in Nat BY <6>2 DEF Adjacent
          <6> QED BY <6>1, <6>3
        <5> QED BY <1>1, <5>1, Ascends DEF Adjacent
      <4>2. k + 1 <= Len(b) BY <1>1
      <4> QED BY <1>2, <4>1, <4>2
    <3>2. q + 1 \in 0..Len(Text[m + 1]) BY <1>5, <1>11
    <3> HIDE DEF p
    <3>3. /\ SubSeq(b, p + 1, p + (q + 1)) \in Seq(Char)
          /\ Len(SubSeq(b, p + 1, p + (q + 1))) = q + 1
          /\ \A j \in 1..(q + 1) : Same(SubSeq(b, p + 1, p + (q + 1))[j], Text[m + 1][j])
      <4>1. p = U[m] - U[n] BY DEF p
      <4> QED BY <1>4, <3>1, <3>2, <4>1, ShownPart, SMTT(60)
    <3> QED BY <3>1, <3>3
  <2> HIDE DEF f, p
  <2>3. IsMessage(f, m + 1) BY <1>4, <1>11, <2>2, MessageIsSame
  <2>4. Len(r.frames) = (m + 1) - n /\ AreMessages(r.frames, n)
    <3>1. /\ Len(Append(s.frames, f)) = Len(s.frames) + 1
          /\ \A j \in 1..Len(s.frames) : Append(s.frames, f)[j] = s.frames[j]
          /\ Append(s.frames, f)[Len(s.frames) + 1] = f
      BY <1>8, <2>2, AppendProperties
    <3>2. n + (Len(s.frames) + 1) = m + 1 /\ Len(s.frames) \in Nat BY <1>1, <1>9
    <3>3. ASSUME NEW j \in 1..(Len(s.frames) + 1) PROVE IsMessage(r.frames[j], n + j)
      <4>1. CASE j = Len(s.frames) + 1 BY <2>1, <2>3, <3>1, <3>2, <4>1
      <4>2. CASE j # Len(s.frames) + 1
        <5>1. j \in 1..Len(s.frames) BY <3>2, <4>2
        <5> QED BY <1>9, <2>1, <3>1, <5>1 DEF AreMessages
      <4> QED BY <4>1, <4>2
    <3>4. Len(r.frames) = Len(s.frames) + 1 BY <2>1, <3>1
    <3>5. AreMessages(r.frames, n) BY <3>3, <3>4 DEF AreMessages
    <3>6. Len(r.frames) = (m + 1) - n BY <1>1, <1>9, <3>4
    <3> QED BY <3>5, <3>6
  <2>5. U[m + 1] - U[n] + 0 = k + 1
    <3>1. U[m + 1] = U[(m + 1) - 1] + Len(Text[m + 1]) BY <1>4 DEF Adjacent
    <3>2. (m + 1) - 1 = m BY <1>1
    <3>3. U[m + 1] = U[m] + (q + 1) BY <1>11, <3>1, <3>2
    <3> QED BY <1>2, <3>3 DEF p
  <2>6. m + 1 # Messages => 0 < Len(Text[(m + 1) + 1])
    <3> SUFFICES ASSUME m + 1 # Messages PROVE 0 < Len(Text[(m + 1) + 1]) OBVIOUS
    <3>1. (m + 1) + 1 \in 1..Messages BY <1>1, <1>4
    <3>2. Len(Text[(m + 1) + 1]) \in Nat \ {0} BY <3>1, TextTyped
    <3> QED BY <3>2
  <2>7. HasRead(b, U, n, k + 1, m + 1, 0)
    BY <2>1, <2>4, <2>5, <2>6, Zenon DEF HasRead
  <2> QED BY <1>4, <2>7
<1> QED BY <1>10, <1>11

\* The parser cuts the messages off b, and what it leaves is a part of the next one.
LEMMA ParsesMessages ==
  ASSUME NEW b \in Seq(Char), NEW U, Adjacent(U), NEW n \in 0..Messages, Shows(b, U, n)
  PROVE  \E m \in n..Messages :
           LET fs == Parsed(b).frames
               rest == LegacyRest(b)
           IN  /\ fs \in Seq(Seq(Char)) /\ Len(fs) = m - n /\ AreMessages(fs, n)
               /\ rest \in Seq(Char) /\ U[m] - U[n] + Len(rest) = Len(b)
               /\ m = Messages => rest = <<>>
               /\ m # Messages => /\ Len(rest) < Len(Text[m + 1])
                                  /\ \A j \in 1..Len(rest) : Same(rest[j], Text[m + 1][j])
<1> DEFINE S == {k \in 0..Len(b) : \E m \in n..Messages, q \in Nat : HasRead(b, U, n, k, m, q)}
           s == Scan(b)[Len(b)]
<1>1. Messages \in Nat /\ Len(b) \in Nat /\ n \in Nat BY TextTyped
<1>2. 0 \in S
  <2>1. Scan(b)[0] = ScanStart BY ScanIterates
  <2>2. /\ Scan(b)[0].mode = "plain" /\ Scan(b)[0].depth = 0 /\ Scan(b)[0].frames = <<>>
    BY <2>1 DEF ScanStart
  <2>3. Len(Scan(b)[0].frames) = n - n /\ AreMessages(Scan(b)[0].frames, n)
    <3>1. Len(Scan(b)[0].frames) = 0 /\ n - n = 0 BY <1>1, <2>2, EmptySeq
    <3> QED BY <3>1 DEF AreMessages
  <2>4. U[n] - U[n] + 0 = 0 BY DEF Adjacent
  <2>5. n # Messages => 0 < Len(Text[n + 1])
    <3> SUFFICES ASSUME n # Messages PROVE 0 < Len(Text[n + 1]) OBVIOUS
    <3>1. n + 1 \in 1..Messages BY <1>1
    <3>2. Len(Text[n + 1]) \in Nat \ {0} BY <3>1, TextTyped
    <3> QED BY <3>2
  <2>6. HasRead(b, U, n, 0, n, 0) BY <2>2, <2>3, <2>4, <2>5, Zenon DEF HasRead
  <2> QED BY <1>1, <2>6
<1>3. ASSUME NEW k \in 0..(Len(b) - 1), k \in S PROVE k + 1 \in S
  <2>1. PICK m \in n..Messages, q \in Nat : HasRead(b, U, n, k, m, q) BY <1>3
  <2>2. \E m2 \in n..Messages, q2 \in Nat : HasRead(b, U, n, k + 1, m2, q2)
    BY <2>1, ReadsByte
  <2>3. k + 1 \in 0..Len(b) BY <1>1
  <2> QED BY <2>2, <2>3
<1>4. PICK m \in n..Messages, q \in Nat : HasRead(b, U, n, Len(b), m, q)
  <2> HIDE DEF S
  <2>1. \A k \in 0..Len(b) : k \in S BY <1>1, <1>2, <1>3, UpTo
  <2>2. Len(b) \in S BY <1>1, <2>1
  <2> QED BY <2>2 DEF S
<1>5. s \in ScanState /\ Parsed(b) = s BY <1>1, ScanIterates DEF Parsed
<1>6. s.frames \in Seq(Seq(Char)) BY <1>5 DEF ScanState
<1>7. /\ U[m] - U[n] + q = Len(b) /\ Len(s.frames) = m - n /\ AreMessages(s.frames, n)
      /\ m = Messages => q = 0
      /\ m # Messages => q < Len(Text[m + 1])
      /\ q = 0 => s.mode = "plain" /\ s.depth = 0
      /\ q # 0 => s.start = Len(b) - q + 1
  BY <1>4 DEF HasRead
<1> DEFINE rest == LegacyRest(b)
<1>8. CASE q = 0
  <2>1. rest = <<>>
    <3>1. CASE s.frames = <<>>
      <4>1. rest = b BY <1>5, <3>1 DEF LegacyRest
      <4>2. m = n
        <5>1. Len(s.frames) = 0 BY <3>1
        <5> QED BY <1>1, <1>7, <5>1
      <4>3. Len(b) = 0 BY <1>1, <1>7, <1>8, <4>2 DEF Adjacent
      <4> QED BY <4>1, <4>3, EmptySeq
    <3>2. CASE s.frames # <<>>
      <4>1. s.mode # "stuck" /\ s.depth = 0 /\ ~ (s.depth > 0) BY <1>7, <1>8
      <4> HIDE DEF s
      <4> QED BY <1>5, <3>2, <4>1, Zenon DEF LegacyRest
    <3> QED BY <3>1, <3>2
  <2> HIDE DEF rest, s
  <2>2. rest \in Seq(Char) /\ Len(rest) = q BY <1>8, <2>1, EmptySeq
  <2>3. m # Messages => /\ Len(rest) < Len(Text[m + 1])
                        /\ \A j \in 1..Len(rest) : Same(rest[j], Text[m + 1][j])
    BY <1>7, <1>8, <2>2
  <2> QED BY <1>5, <1>6, <1>7, <2>1, <2>2, <2>3 DEF rest
<1>9. CASE q # 0
  <2>1. m # Messages /\ m \in n..(Messages - 1) BY <1>1, <1>7, <1>9
  <2>2. m + 1 \in 1..Messages /\ m \in 0..Messages BY <1>1, <2>1
  <2>3. Len(Text[m + 1]) \in Nat /\ q \in 0..Len(Text[m + 1]) BY <1>7, <2>1, <2>2, TextTyped
  <2>4. s.depth > 0
    <3>1. q \in 1..(Len(Text[m + 1]) - 1) BY <1>7, <1>9, <2>1, <2>3
    <3>2. Scan(Text[m + 1])[q].depth # 0 BY <2>2, <3>1, ObjectGoesOn
    <3>3. s.depth # 0 BY <1>4, <1>9, <3>2 DEF HasRead
    <3>4. s.depth \in Nat BY <1>5 DEF ScanState
    <3> QED BY <3>3, <3>4
  <2> DEFINE p == U[m] - U[n]
  <2>5. p \in Nat /\ p + q = Len(b)
    <3>1. U[n] <= U[m] /\ U[n] \in Nat /\ U[m] \in Nat
      <4>1. \A i \in 1..Messages : U[i - 1] <= U[i]
        <5> SUFFICES ASSUME NEW i \in 1..Messages PROVE U[i - 1] <= U[i] OBVIOUS
        <5>1. U[i] = U[i - 1] + Len(Text[i]) /\ Len(Text[i]) \in Nat BY TextTyped DEF Adjacent
        <5>2. i - 1 \in 0..Messages BY <1>1
        <5>3. U[i - 1] \in Nat BY <5>2 DEF Adjacent
        <5> QED BY <5>1, <5>3
      <4> QED BY <1>1, <2>2, <4>1, Ascends DEF Adjacent
    <3> QED BY <1>7, <3>1
  <2>6. rest = SubSeq(b, p + 1, p + q)
    <3>1. Len(b) - q + 1 = p + 1 /\ Len(b) = p + q BY <1>1, <2>5
    <3>2. SubSeq(b, s.start, Len(b)) = SubSeq(b, p + 1, p + q) BY <1>7, <1>9, <3>1
    <3>3. CASE s.frames # <<>>
      <4>1. rest = SubSeq(b, s.start, Len(b))
        <5>1. s.depth # 0 BY <2>4
        <5> HIDE DEF s
        <5> QED BY <1>5, <2>4, <3>3, <5>1, Zenon DEF LegacyRest
      <4> QED BY <3>2, <4>1
    <3>4. CASE s.frames = <<>>
      <4>1. rest = b BY <1>5, <3>4 DEF LegacyRest
      <4>2. Len(s.frames) = 0 BY <3>4
      <4>3. m = n BY <1>1, <1>7, <4>2
      <4>4. p = 0 BY <4>3 DEF Adjacent
      <4>5. p + 1 = 1 /\ p + q = Len(b) BY <2>5, <4>4
      <4>6. SubSeq(b, 1, Len(b)) = b BY SubSeqFull
      <4> QED BY <4>1, <4>5, <4>6
    <3> QED BY <3>3, <3>4
  <2>7. p = U[m] - U[n] OBVIOUS
  <2> HIDE DEF p, rest, s
  <2>8. p + q <= Len(b) BY <1>1, <2>5
  <2>9. /\ SubSeq(b, p + 1, p + q) \in Seq(Char) /\ Len(SubSeq(b, p + 1, p + q)) = q
        /\ \A j \in 1..q : Same(SubSeq(b, p + 1, p + q)[j], Text[m + 1][j])
    <3>1. m \in n..(Messages - 1) BY <2>1
    <3>2. q \in 0..Len(Text[m + 1]) BY <2>3
    <3>3. p \in Nat BY <2>5
    <3> QED BY <2>7, <2>8, <3>1, <3>2, <3>3, ShownPart, SMTT(60)
  <2>10. /\ rest \in Seq(Char) /\ Len(rest) = q /\ m # Messages
         /\ \A j \in 1..Len(rest) : Same(rest[j], Text[m + 1][j])
    BY <2>1, <2>6, <2>9
  <2> QED BY <1>5, <1>6, <1>7, <2>10 DEF rest
<1> QED BY <1>8, <1>9
-----------------------------------------------------------------------------
(* The stream is cut at its delimiters. *)

\* What a flush computes has its type.
LEMMA FlushTyped ==
  ASSUME NEW b \in Seq(Char)
  PROVE  /\ Cut(b) \in CutState /\ Parsed(b) \in ScanState /\ LegacyRest(b) \in Seq(Char)
<1>1. Cut(b) \in CutState
  <2>1. PICK c \in [0..Len(b) -> CutState] : Cut(b) = c[Len(b)] BY CutIterates
  <2> QED BY <2>1
<1>2. Parsed(b) \in ScanState BY ScanIterates DEF Parsed
<1>3. LegacyRest(b) \in Seq(Char)
  <2> DEFINE s == Parsed(b)
  <2>1. s.start \in Nat \ {0} /\ s.depth \in Nat BY <1>2 DEF ScanState
  <2>2. SubSeq(b, s.start, Len(b)) \in Seq(Char)
    <3>1. \A i \in s.start..Len(b) : b[i] \in Char BY <2>1
    <3> QED BY <2>1, <3>1, SubSeqProperties
  <2>3. CASE s.frames = <<>> BY <2>3 DEF LegacyRest
  <2>4. CASE s.frames # <<>> /\ (s.mode = "stuck" \/ s.depth > 0)
    <3>1. LegacyRest(b) = SubSeq(b, s.start, Len(b))
      <4>1. ~ (s.mode # "stuck" /\ s.depth = 0) BY <2>1, <2>4
      <4> HIDE DEF s
      <4> QED BY <2>4, <4>1, Zenon DEF LegacyRest, s
    <3> QED BY <2>2, <3>1
  <2>5. CASE s.frames # <<>> /\ ~ (s.mode = "stuck" \/ s.depth > 0)
    <3>1. s.mode # "stuck" /\ s.depth = 0 /\ ~ (s.depth > 0) BY <2>1, <2>5
    <3>2. LegacyRest(b) = <<>> BY <2>5, <3>1, Zenon DEF LegacyRest
    <3> QED BY <3>2, EmptySeq
  <2> QED BY <2>3, <2>4, <2>5
<1> QED BY <1>1, <1>2, <1>3

\* Where there are no delimiters there are no frames.
LEMMA CutUnframed ==
  ASSUME NEW b \in Seq(Char), \A k \in 1..Len(b) : b[k] # "delimiter"
  PROVE  Cut(b).frames = <<>> /\ Cut(b).rest = b
<1>1. PICK c \in [0..Len(b) -> CutState] :
        /\ c[0] = [frames |-> <<>>, rest |-> <<>>]
        /\ \A k \in 1..Len(b) : c[k] = CutAt(c[k - 1], b[k])
        /\ Cut(b) = c[Len(b)]
  BY CutIterates
<1> DEFINE S == {k \in 0..Len(b) : /\ c[k].frames = <<>> /\ Len(c[k].rest) = k
                                   /\ \A j \in 1..k : c[k].rest[j] = b[j]}
<1>2. Len(b) \in Nat /\ \A k \in 1..Len(b) : b[k] \in Char OBVIOUS
<1>3. 0 \in S BY <1>1, <1>2, EmptySeq
<1>4. ASSUME NEW k \in 0..(Len(b) - 1), k \in S PROVE k + 1 \in S
  <2> DEFINE s == c[k]
  <2>1. k + 1 \in 1..Len(b) /\ k + 1 \in 0..Len(b) /\ (k + 1) - 1 = k /\ k \in 0..Len(b)
    BY <1>2
  <2>2. c[k + 1] = CutAt(c[(k + 1) - 1], b[k + 1]) BY <1>1, <2>1
  <2>3. c[k + 1] = CutAt(s, b[k + 1]) BY <2>1, <2>2
  <2>4. b[k + 1] # "delimiter" /\ b[k + 1] \in Char BY <1>2, <2>1
  <2>5. s \in CutState BY <2>1
  <2>6. s.frames = <<>> /\ Len(s.rest) = k /\ \A j \in 1..k : s.rest[j] = b[j] BY <1>4
  <2> HIDE DEF s
  <2>7. c[k + 1] = [s EXCEPT !.rest = Append(s.rest, b[k + 1])] BY <2>3, <2>4 DEF CutAt
  <2>8. c[k + 1].frames = <<>> /\ c[k + 1].rest = Append(s.rest, b[k + 1])
    BY <2>5, <2>6, <2>7 DEF CutState
  <2>9. s.rest \in Seq(Char) BY <2>5 DEF CutState
  <2>10. /\ Len(c[k + 1].rest) = k + 1
         /\ \A j \in 1..k : c[k + 1].rest[j] = s.rest[j]
         /\ c[k + 1].rest[k + 1] = b[k + 1]
    BY <2>4, <2>6, <2>8, <2>9, AppendProperties
  <2>11. ASSUME NEW j \in 1..(k + 1) PROVE c[k + 1].rest[j] = b[j]
    <3>1. CASE j = k + 1 BY <2>10, <3>1
    <3>2. CASE j # k + 1
      <4>1. j \in 1..k BY <2>1, <3>2
      <4> QED BY <2>6, <2>10, <4>1
    <3> QED BY <3>1, <3>2
  <2> QED BY <2>1, <2>8, <2>10, <2>11
<1> HIDE DEF S
<1>5. \A k \in 0..Len(b) : k \in S BY <1>2, <1>3, <1>4, UpTo
<1>6. Len(b) \in S BY <1>2, <1>5
<1>7. /\ Cut(b).frames = <<>> /\ Len(Cut(b).rest) = Len(b)
      /\ \A j \in 1..Len(b) : Cut(b).rest[j] = b[j]
  BY <1>1, <1>6 DEF S
<1>8. Cut(b).rest \in Seq(Char) BY FlushTyped DEF CutState
<1>9. Cut(b).rest = b BY <1>7, <1>8, SeqEqual
<1> QED BY <1>7, <1>9

\* A peer that sends no delimiters sends none after its greeting.
LEMMA NoDelimiters ==
  ASSUME StreamTypeOK, ~ peer.frames, NEW p \in Nat, Ends[0] < p, p <= Len(Sent)
  PROVE  Sent[p].byte # "delimiter"
<1>1. Messages \in Nat /\ Ends \in [0..Messages -> Nat] /\ Gap = 0
      /\ \A i \in 1..Messages : Ends[i] = Ends[i - 1] + Len(Text[i]) + Gap
  BY EndsStep, TextTyped DEF Gap
<1>2. p <= Ends[Messages] BY SentLayout
<1>3. PICK i \in 1..Messages : Ends[i - 1] < p /\ p <= Ends[i] BY <1>1, <1>2, Locates
<1>4. i - 1 \in 0..Messages BY <1>1
<1>5. Ends[i - 1] \in Nat /\ Len(Text[i]) \in Nat BY <1>1, <1>4, TextTyped
<1>6. Ends[i] = Ends[i - 1] + Len(Text[i]) BY <1>1, <1>5
<1>7. p - Ends[i - 1] \in 1..Len(Text[i]) /\ Ends[i - 1] + (p - Ends[i - 1]) = p
  BY <1>3, <1>5, <1>6
<1>8. Sent[Ends[i - 1] + (p - Ends[i - 1])].byte = Text[i][p - Ends[i - 1]]
  BY <1>7, SentLayout
<1>9. Text[i][p - Ends[i - 1]] # "delimiter" BY <1>7, TextTyped
<1> QED BY <1>7, <1>8, <1>9

\* What has been cut from the stream up to p, after the first n messages
HasCut(c, n, m, p) ==
  /\ Len(c.frames) = m - n /\ AreMessages(c.frames, n)
  /\ m = Messages => c.rest = <<>>
  /\ m # Messages => /\ Len(c.rest) <= Len(Text[m + 1])
                     /\ \A j \in 1..Len(c.rest) : Same(c.rest[j], Text[m + 1][j])
  /\ p = Ends[m] + Len(c.rest) \/ (c.rest = <<>> /\ m > 0 /\ p = Ends[m] - 1)

\* The next message is put behind the messages.
LEMMA MessageAppended ==
  ASSUME NEW fs \in Seq(Seq(Char)), NEW f \in Seq(Char), NEW n \in Nat, NEW m \in Nat,
         Len(fs) = m - n, AreMessages(fs, n), IsMessage(f, m + 1)
  PROVE  /\ Append(fs, f) \in Seq(Seq(Char))
         /\ Len(Append(fs, f)) = (m + 1) - n /\ AreMessages(Append(fs, f), n)
<1> DEFINE gs == Append(fs, f)
<1>1. /\ gs \in Seq(Seq(Char)) /\ Len(gs) = Len(fs) + 1
      /\ \A j \in 1..Len(fs) : gs[j] = fs[j]
      /\ gs[Len(fs) + 1] = f
  BY AppendProperties
<1> HIDE DEF gs
<1>2. n + (Len(fs) + 1) = m + 1 /\ Len(fs) \in Nat OBVIOUS
<1>3. ASSUME NEW j \in 1..Len(gs) PROVE IsMessage(gs[j], n + j)
  <2>1. CASE j = Len(fs) + 1 BY <1>1, <1>2, <2>1
  <2>2. CASE j # Len(fs) + 1
    <3>1. j \in 1..Len(fs) BY <1>1, <1>2, <2>2
    <3> QED BY <1>1, <3>1 DEF AreMessages
  <2> QED BY <2>1, <2>2
<1>4. AreMessages(gs, n) BY <1>3 DEF AreMessages
<1>5. Len(gs) = (m + 1) - n BY <1>1, <1>2
<1> QED BY <1>1, <1>4, <1>5 DEF gs

\* One byte more of a stream with delimiters, cut
LEMMA CutsByte ==
  ASSUME StreamTypeOK, peer.frames, NEW c \in CutState, NEW n \in 0..Messages,
         NEW m \in n..Messages, NEW p \in Nat, HasCut(c, n, m, p),
         p + 1 <= Len(Sent), NEW x \in Char, Same(x, Sent[p + 1].byte)
  PROVE  \E m2 \in n..Messages : HasCut(CutAt(c, x), n, m2, p + 1)
<1>1. /\ Messages \in Nat /\ Gap = 1 /\ n \in Nat /\ m \in 0..Messages /\ m \in Nat
      /\ Ends \in [0..Messages -> Nat] /\ Len(Sent) = Ends[Messages]
  BY EndsStep, SentLayout, TextTyped DEF Gap
<1>2. c.frames \in Seq(Seq(Char)) /\ c.rest \in Seq(Char) /\ Len(c.rest) \in Nat
  BY DEF CutState
<1>3. Ends[m] \in Nat /\ Ends[Messages] \in Nat BY <1>1
<1>4. CASE c.rest = <<>> /\ m > 0 /\ p = Ends[m] - 1
  <2>1. p + 1 = Ends[m] /\ m \in 1..Messages BY <1>1, <1>3, <1>4
  <2>2. Sent[p + 1].byte = "delimiter" BY <2>1, SentLayout
  <2>3. x = "delimiter" BY <2>2 DEF Same
  <2>4. CutAt(c, x) = c BY <1>4, <2>3 DEF CutAt
  <2>5. p + 1 = Ends[m] + Len(c.rest) BY <1>3, <1>4, <2>1, EmptySeq
  <2>6. HasCut(c, n, m, p + 1) BY <2>5 DEF HasCut
  <2> QED BY <2>4, <2>6
<1>5. CASE p = Ends[m] + Len(c.rest)
  <2>1. m # Messages
    <3> SUFFICES ASSUME m = Messages PROVE FALSE OBVIOUS
    <3>1. c.rest = <<>> BY DEF HasCut
    <3> QED BY <1>1, <1>3, <1>5, <3>1, EmptySeq
  <2>2. /\ m + 1 \in 1..Messages /\ m + 1 \in n..Messages /\ (m + 1) - 1 = m
        /\ m + 1 \in 0..Messages
    BY <1>1, <2>1
  <2>3. /\ Len(Text[m + 1]) \in Nat \ {0} /\ Len(c.rest) <= Len(Text[m + 1])
        /\ \A j \in 1..Len(c.rest) : Same(c.rest[j], Text[m + 1][j])
    BY <2>1, <2>2, TextTyped DEF HasCut
  <2>4. CASE Len(c.rest) # Len(Text[m + 1])
    <3>1. Len(c.rest) + 1 \in 1..Len(Text[m + 1]) BY <1>2, <2>3, <2>4
    <3>2. Sent[Ends[(m + 1) - 1] + (Len(c.rest) + 1)].byte = Text[m + 1][Len(c.rest) + 1]
      BY <2>2, <3>1, SentLayout
    <3>3. Ends[(m + 1) - 1] = Ends[m] BY <2>2
    <3>4. Ends[m] + (Len(c.rest) + 1) = p + 1 BY <1>2, <1>3, <1>5
    <3>5. Same(x, Text[m + 1][Len(c.rest) + 1]) BY <3>2, <3>3, <3>4
    <3>6. Text[m + 1][Len(c.rest) + 1] \in Byte \ {"delimiter"} BY <2>2, <3>1, TextTyped
    <3>7. x # "delimiter" BY <3>5, <3>6, SameIsRead
    <3> DEFINE d == CutAt(c, x)
    <3>8. d = [c EXCEPT !.rest = Append(c.rest, x)] BY <3>7 DEF CutAt
    <3> HIDE DEF d
    <3>9. d.frames = c.frames /\ d.rest = Append(c.rest, x) BY <3>8 DEF CutState
    <3>10. /\ Len(d.rest) = Len(c.rest) + 1
           /\ \A j \in 1..Len(c.rest) : d.rest[j] = c.rest[j]
           /\ d.rest[Len(c.rest) + 1] = x
      BY <1>2, <3>9, AppendProperties
    <3>11. Len(d.rest) <= Len(Text[m + 1]) BY <3>1, <3>10
    <3>12. ASSUME NEW j \in 1..Len(d.rest) PROVE Same(d.rest[j], Text[m + 1][j])
      <4>1. CASE j = Len(c.rest) + 1 BY <3>5, <3>10, <4>1
      <4>2. CASE j # Len(c.rest) + 1
        <5>1. j \in 1..Len(c.rest) BY <1>2, <3>10, <4>2
        <5>2. d.rest[j] = c.rest[j] BY <3>10, <5>1
        <5> QED BY <2>3, <5>1, <5>2
      <4> QED BY <4>1, <4>2
    <3>13. p + 1 = Ends[m] + Len(d.rest) BY <3>4, <3>10
    <3>14. Len(d.frames) = m - n /\ AreMessages(d.frames, n) BY <3>9 DEF HasCut
    <3>15. HasCut(d, n, m, p + 1) BY <2>1, <3>11, <3>12, <3>13, <3>14, Zenon DEF HasCut
    <3> QED BY <3>15 DEF d
  <2>5. CASE Len(c.rest) = Len(Text[m + 1])
    <3>1. Ends[m + 1] = p + 1
      <4>1. Ends[m + 1] = Ends[(m + 1) - 1] + Len(Text[m + 1]) + Gap BY <2>2, EndsStep
      <4>2. Ends[(m + 1) - 1] = Ends[m] BY <2>2
      <4> QED BY <1>1, <1>2, <1>3, <1>5, <2>5, <4>1, <4>2
    <3>2. Sent[p + 1].byte = "delimiter" BY <2>2, <3>1, SentLayout
    <3>3. x = "delimiter" BY <3>2 DEF Same
    <3>4. c.rest # <<>> BY <2>3, <2>5
    <3> DEFINE d == CutAt(c, x)
    <3>5. d = [frames |-> Append(c.frames, c.rest), rest |-> <<>>]
      BY <3>3, <3>4 DEF CutAt
    <3> HIDE DEF d
    <3>6. d.frames = Append(c.frames, c.rest) /\ d.rest = <<>> BY <3>5
    <3>7. IsMessage(c.rest, m + 1) BY <1>2, <2>2, <2>3, <2>5, MessageIsSame
    <3>8. Len(c.frames) = m - n /\ AreMessages(c.frames, n) BY DEF HasCut
    <3>9. Len(d.frames) = (m + 1) - n /\ AreMessages(d.frames, n)
      <4>1. n \in Nat /\ m \in Nat BY <1>1
      <4>2. /\ Len(Append(c.frames, c.rest)) = (m + 1) - n
            /\ AreMessages(Append(c.frames, c.rest), n)
        BY <1>2, <3>7, <3>8, <4>1, MessageAppended
      <4> QED BY <3>6, <4>2, Zenon
    <3>10. Len(d.rest) = 0 BY <3>6
    <3>11. p + 1 = Ends[m + 1] + Len(d.rest) BY <3>1, <3>10
    <3>12. m + 1 # Messages => /\ Len(d.rest) <= Len(Text[(m + 1) + 1])
                               /\ \A j \in 1..Len(d.rest) : Same(d.rest[j], Text[(m + 1) + 1][j])
      <4> SUFFICES ASSUME m + 1 # Messages PROVE 0 <= Len(Text[(m + 1) + 1]) BY <3>10
      <4>1. (m + 1) + 1 \in 1..Messages BY <1>1, <2>2
      <4>2. Len(Text[(m + 1) + 1]) \in Nat BY <4>1, TextTyped
      <4> QED BY <4>2
    <3>13. HasCut(d, n, m + 1, p + 1) BY <3>6, <3>9, <3>11, <3>12, Zenon DEF HasCut
    <3> QED BY <2>2, <3>13 DEF d
  <2> QED BY <2>4, <2>5
<1> QED BY <1>4, <1>5 DEF HasCut

\* From a peer that sends delimiters, they cut its messages.
LEMMA CutsMessages ==
  ASSUME StreamTypeOK, peer.frames, NEW b \in Seq(Char), NEW n \in 0..Messages,
         NEW base \in Nat, Received(b, base), IsBoundary(base, n)
  PROVE  \E m \in n..Messages : HasCut(Cut(b), n, m, base + Len(b))
<1>1. PICK c \in [0..Len(b) -> CutState] :
        /\ c[0] = [frames |-> <<>>, rest |-> <<>>]
        /\ \A k \in 1..Len(b) : c[k] = CutAt(c[k - 1], b[k])
        /\ Cut(b) = c[Len(b)]
  BY CutIterates
<1> DEFINE S == {k \in 0..Len(b) : \E m \in n..Messages : HasCut(c[k], n, m, base + k)}
<1>2. Len(b) \in Nat /\ (\A k \in 1..Len(b) : b[k] \in Char) /\ Messages \in Nat /\ n \in Nat
  BY TextTyped
<1>3. 0 \in S
  <2>1. c[0].frames = <<>> /\ c[0].rest = <<>> BY <1>1
  <2>2. Len(c[0].frames) = n - n /\ AreMessages(c[0].frames, n)
    <3>1. Len(c[0].frames) = 0 /\ n - n = 0 BY <1>2, <2>1, EmptySeq
    <3> QED BY <3>1 DEF AreMessages
  <2>3. Len(c[0].rest) = 0 BY <2>1
  <2>4. n # Messages => /\ Len(c[0].rest) <= Len(Text[n + 1])
                        /\ \A j \in 1..Len(c[0].rest) : Same(c[0].rest[j], Text[n + 1][j])
    <3> SUFFICES ASSUME n # Messages PROVE 0 <= Len(Text[n + 1]) BY <2>3
    <3>1. n + 1 \in 1..Messages BY <1>2
    <3>2. Len(Text[n + 1]) \in Nat BY <3>1, TextTyped
    <3> QED BY <3>2
  <2>5. base + 0 = Ends[n] + Len(c[0].rest) \/ (c[0].rest = <<>> /\ n > 0 /\ base + 0 = Ends[n] - 1)
    <3>1. Ends[n] \in Nat BY EndsStep
    <3> QED BY <2>1, <2>3, <3>1 DEF IsBoundary
  <2>6. HasCut(c[0], n, n, base + 0) BY <2>1, <2>2, <2>4, <2>5, Zenon DEF HasCut
  <2> QED BY <1>2, <2>6
<1>4. ASSUME NEW k \in 0..(Len(b) - 1), k \in S PROVE k + 1 \in S
  <2>1. PICK m \in n..Messages : HasCut(c[k], n, m, base + k) BY <1>4
  <2>2. k + 1 \in 1..Len(b) /\ k + 1 \in 0..Len(b) /\ (k + 1) - 1 = k /\ k \in 0..Len(b)
    BY <1>2
  <2>3. c[k + 1] = CutAt(c[(k + 1) - 1], b[k + 1]) BY <1>1, <2>2
  <2>4. c[k + 1] = CutAt(c[k], b[k + 1]) BY <2>2, <2>3
  <2>5. base + (k + 1) = (base + k) + 1 /\ base + k \in Nat BY <2>2
  <2>6. Same(b[k + 1], Sent[base + (k + 1)].byte) /\ base + Len(b) <= Len(Sent)
    BY <2>2 DEF Received
  <2>7. (base + k) + 1 <= Len(Sent)
    <3>1. Len(Sent) \in Nat BY SentLayout
    <3> QED BY <1>2, <2>2, <2>6, <3>1
  <2>8. Same(b[k + 1], Sent[(base + k) + 1].byte) BY <2>5, <2>6
  <2>9. c[k] \in CutState /\ b[k + 1] \in Char BY <1>2, <2>2
  <2>10. \E m2 \in n..Messages : HasCut(CutAt(c[k], b[k + 1]), n, m2, (base + k) + 1)
    BY <2>1, <2>5, <2>7, <2>8, <2>9, CutsByte
  <2> QED BY <2>2, <2>4, <2>5, <2>10
<1> HIDE DEF S
<1>5. \A k \in 0..Len(b) : k \in S BY <1>2, <1>3, <1>4, UpTo
<1>6. Len(b) \in S BY <1>2, <1>5
<1> QED BY <1>1, <1>6 DEF S
-----------------------------------------------------------------------------
(* Flushing the buffer *)

\* What is left after the first m messages, the beginning of the next one, is in the
\* stream after them.
LEMMA RestIsReceived ==
  ASSUME StreamTypeOK, NEW m \in 0..Messages, NEW rest \in Seq(Char),
         m = Messages => rest = <<>>,
         m # Messages => /\ Len(rest) <= Len(Text[m + 1])
                         /\ \A j \in 1..Len(rest) : Same(rest[j], Text[m + 1][j])
  PROVE  Received(rest, Ends[m])
<1>1. /\ Messages \in Nat /\ Ends \in [0..Messages -> Nat] /\ Gap \in {0, 1}
      /\ Len(Sent) = Ends[Messages] /\ Len(rest) \in Nat
  BY EndsStep, SentLayout, TextTyped
<1>2. Ends[m] \in Nat BY <1>1
<1>3. CASE m = Messages
  <2>1. Len(rest) = 0 BY <1>3, EmptySeq
  <2> QED BY <1>1, <1>2, <1>3, <2>1 DEF Received
<1>4. CASE m # Messages
  <2>1. m + 1 \in 1..Messages /\ m + 1 \in 0..Messages /\ (m + 1) - 1 = m BY <1>1, <1>4
  <2>2. Ends[m + 1] = Ends[(m + 1) - 1] + Len(Text[m + 1]) + Gap BY <2>1, EndsStep
  <2>3. Ends[(m + 1) - 1] = Ends[m] /\ Len(Text[m + 1]) \in Nat BY <2>1, TextTyped
  <2>4. Ends[m + 1] <= Ends[Messages] BY <1>1, <2>1, EndsAscend
  <2>5. Ends[m] + Len(rest) <= Len(Sent) BY <1>1, <1>2, <1>4, <2>2, <2>3, <2>4
  <2>6. ASSUME NEW j \in 1..Len(rest) PROVE Same(rest[j], Sent[Ends[m] + j].byte)
    <3>1. j \in 1..Len(Text[m + 1]) BY <1>1, <1>4, <2>3
    <3>2. Sent[Ends[(m + 1) - 1] + j].byte = Text[m + 1][j] BY <2>1, <3>1, SentLayout
    <3> QED BY <1>4, <2>3, <3>2
  <2> QED BY <1>2, <2>5, <2>6 DEF Received
<1> QED BY <1>3, <1>4

\* The messages up to the l-th and those from there up to the m-th are the messages up
\* to the m-th.
LEMMA MessagesConcat ==
  ASSUME NEW fs \in Seq(Seq(Char)), NEW gs \in Seq(Seq(Char)), NEW n \in Nat, NEW l \in Nat,
         NEW m \in Nat, Len(fs) = l - n, AreMessages(fs, n), Len(gs) = m - l, AreMessages(gs, l)
  PROVE  /\ fs \o gs \in Seq(Seq(Char)) /\ Len(fs \o gs) = m - n
         /\ AreMessages(fs \o gs, n)
<1>1. /\ fs \o gs \in Seq(Seq(Char)) /\ Len(fs \o gs) = Len(fs) + Len(gs)
      /\ \A i \in 1..(Len(fs) + Len(gs)) :
           (fs \o gs)[i] = IF i <= Len(fs) THEN fs[i] ELSE gs[i - Len(fs)]
  BY ConcatProperties
<1> DEFINE hs == fs \o gs
<1> HIDE DEF hs
<1>2. Len(fs) \in Nat /\ Len(gs) \in Nat OBVIOUS
<1>3. ASSUME NEW j \in 1..Len(hs) PROVE IsMessage(hs[j], n + j)
  <2>1. j \in 1..(Len(fs) + Len(gs)) BY <1>1 DEF hs
  <2>2. hs[j] = IF j <= Len(fs) THEN fs[j] ELSE gs[j - Len(fs)] BY <1>1, <2>1 DEF hs
  <2>3. CASE j <= Len(fs)
    <3>1. j \in 1..Len(fs) BY <1>2, <2>1, <2>3
    <3> QED BY <2>2, <2>3, <3>1 DEF AreMessages
  <2>4. CASE ~ (j <= Len(fs))
    <3>1. j - Len(fs) \in 1..Len(gs) /\ l + (j - Len(fs)) = n + j BY <1>2, <2>1, <2>4
    <3>2. IsMessage(gs[j - Len(fs)], l + (j - Len(fs))) BY <3>1 DEF AreMessages
    <3> QED BY <2>2, <2>4, <3>1, <3>2
  <2> QED BY <2>3, <2>4
<1>4. AreMessages(hs, n) BY <1>3 DEF AreMessages
<1>5. Len(fs \o gs) = m - n BY <1>1, <1>2
<1> QED BY <1>1, <1>4, <1>5 DEF hs

\* After a flush: the messages up to the m-th have been cut, and what is left begins the
\* next one and has not got all of it.
Flushed(fs, rest, n, m, upTo) ==
  /\ fs \in Seq(Seq(Char)) /\ Len(fs) = m - n /\ AreMessages(fs, n)
  /\ rest \in Seq(Char) /\ Received(rest, upTo - Len(rest))
  /\ IsBoundary(upTo - Len(rest), m) /\ Incomplete(m, upTo)

\* Without delimiters, the parser cuts the messages.
LEMMA FlushUnframed ==
  ASSUME StreamTypeOK, ~ peer.frames, NEW b \in Seq(Char), NEW n \in 0..Messages,
         NEW base \in Nat, Received(b, base), IsBoundary(base, n)
  PROVE  \E m \in n..Messages :
           Flushed(Cut(b).frames \o Parsed(Cut(b).rest).frames, LegacyRest(Cut(b).rest),
                   n, m, base + Len(b))
<1>1. /\ Messages \in Nat /\ Ends \in [0..Messages -> Nat] /\ Gap = 0
      /\ Len(Sent) = Ends[Messages] /\ Len(b) \in Nat
      /\ \A i \in 1..Messages : Ends[i] = Ends[i - 1] + Len(Text[i]) + Gap
  BY EndsStep, SentLayout, TextTyped DEF Gap
<1>2. base = Ends[n] /\ base + Len(b) <= Len(Sent) BY DEF IsBoundary, Received
<1>3. Adjacent(Ends)
  <2> SUFFICES ASSUME NEW i \in 1..Messages PROVE Ends[i] = Ends[i - 1] + Len(Text[i])
    BY <1>1 DEF Adjacent
  <2>1. i - 1 \in 0..Messages /\ Len(Text[i]) \in Nat BY <1>1, TextTyped
  <2>2. Ends[i - 1] \in Nat BY <1>1, <2>1
  <2> QED BY <1>1, <2>1, <2>2
<1>4. Shows(b, Ends, n)
  <2>1. Len(b) <= Ends[Messages] - Ends[n]
    <3>1. Ends[Messages] \in Nat BY <1>1
    <3> QED BY <1>1, <1>2, <3>1
  <2>2. ASSUME NEW i \in (n + 1)..Messages, NEW j \in 1..Len(Text[i]),
               Ends[i - 1] - Ends[n] + j <= Len(b)
        PROVE  Same(b[Ends[i - 1] - Ends[n] + j], Text[i][j])
    <3>1. i \in 1..Messages /\ i - 1 \in n..Messages /\ i - 1 \in 0..Messages BY <1>1
    <3>2. Ends[n] <= Ends[i - 1] /\ Ends[i - 1] \in Nat BY <1>1, <3>1, EndsAscend
    <3>3. Len(Text[i]) \in Nat BY <3>1, TextTyped
    <3> DEFINE k == Ends[i - 1] - Ends[n] + j
    <3>4. k \in 1..Len(b) /\ base + k = Ends[i - 1] + j
      <4>1. Ends[n] = base /\ Len(b) \in Nat BY <1>1, <1>2
      <4> QED BY <2>2, <3>2, <3>3, <4>1
    <3>5. Sent[Ends[i - 1] + j].byte = Text[i][j] BY <3>1, SentLayout
    <3> HIDE DEF k
    <3>6. Same(b[k], Sent[base + k].byte) BY <3>4 DEF Received
    <3>7. Same(b[k], Text[i][j]) BY <3>4, <3>5, <3>6
    <3> QED BY <3>7 DEF k
  <2> QED BY <2>1, <2>2 DEF Shows
<1>5. \A k \in 1..Len(b) : b[k] # "delimiter"
  <2> SUFFICES ASSUME NEW k \in 1..Len(b) PROVE b[k] # "delimiter" OBVIOUS
  <2>1. Ends[0] <= Ends[n] /\ Ends[0] \in Nat /\ Ends[n] \in Nat BY <1>1, EndsAscend
  <2>2. base + k \in Nat /\ Ends[0] < base + k /\ base + k <= Len(Sent)
    <3>1. Len(Sent) \in Nat BY <1>1
    <3> QED BY <1>1, <1>2, <2>1, <3>1
  <2>3. Sent[base + k].byte # "delimiter" BY <2>2, NoDelimiters
  <2>4. Same(b[k], Sent[base + k].byte) BY DEF Received
  <2>5. Sent[base + k].byte \in Byte
    <3>1. base + k \in 1..Len(Sent) BY <1>1, <2>2
    <3>2. Sent[base + k] \in Sendable BY <3>1, SentLayout
    <3> QED BY <3>2 DEF Sendable
  <2> QED BY <2>3, <2>4, <2>5, SameIsRead
<1>6. Cut(b).frames = <<>> /\ Cut(b).rest = b BY <1>5, CutUnframed
<1> DEFINE fs == Parsed(b).frames
           rest == LegacyRest(b)
<1>7. PICK m \in n..Messages :
        /\ fs \in Seq(Seq(Char)) /\ Len(fs) = m - n /\ AreMessages(fs, n)
        /\ rest \in Seq(Char) /\ Ends[m] - Ends[n] + Len(rest) = Len(b)
        /\ m = Messages => rest = <<>>
        /\ m # Messages => /\ Len(rest) < Len(Text[m + 1])
                           /\ \A j \in 1..Len(rest) : Same(rest[j], Text[m + 1][j])
  BY <1>3, <1>4, ParsesMessages
<1>8. Cut(b).frames \o Parsed(Cut(b).rest).frames = fs /\ LegacyRest(Cut(b).rest) = rest
  <2>1. <<>> \o fs = fs BY <1>7, ConcatEmptySeq
  <2> QED BY <1>6, <2>1
<1> HIDE DEF fs, rest
<1>9. m \in 0..Messages /\ Ends[m] \in Nat /\ Ends[n] \in Nat /\ Len(rest) \in Nat
  BY <1>1, <1>7
<1>10. base + Len(b) - Len(rest) = Ends[m]
  <2>1. Ends[m] - Ends[n] + Len(rest) = Len(b) BY <1>7
  <2>2. base = Ends[n] /\ Len(b) \in Nat BY <1>1, <1>2
  <2> QED BY <1>9, <2>1, <2>2
<1>11. m # Messages => Len(rest) <= Len(Text[m + 1])
  <2> SUFFICES ASSUME m # Messages PROVE Len(rest) <= Len(Text[m + 1]) OBVIOUS
  <2>1. m + 1 \in 1..Messages BY <1>1, <1>9
  <2>2. Len(Text[m + 1]) \in Nat BY <2>1, TextTyped
  <2> QED BY <1>7, <1>9, <2>2
<1>12. Received(rest, Ends[m]) BY <1>7, <1>9, <1>11, RestIsReceived
<1>13. Incomplete(m, base + Len(b))
  <2> SUFFICES ASSUME m # Messages PROVE base + Len(b) < Ends[m] + Len(Text[m + 1])
    BY DEF Incomplete
  <2>1. m + 1 \in 1..Messages BY <1>1, <1>9
  <2>2. Len(Text[m + 1]) \in Nat BY <2>1, TextTyped
  <2>3. Len(rest) < Len(Text[m + 1]) BY <1>7
  <2>4. Len(b) \in Nat BY <1>1
  <2> QED BY <1>9, <1>10, <2>2, <2>3, <2>4
<1>14. IsBoundary(base + Len(b) - Len(rest), m) BY <1>10 DEF IsBoundary
<1>15. Flushed(fs, rest, n, m, base + Len(b))
  BY <1>7, <1>10, <1>12, <1>13, <1>14 DEF Flushed
<1> QED BY <1>8, <1>15

\* With delimiters, they cut the messages, and the parser cuts one more whose delimiter
\* has not arrived.
LEMMA FlushFramed ==
  ASSUME StreamTypeOK, peer.frames, NEW b \in Seq(Char), NEW n \in 0..Messages,
         NEW base \in Nat, Received(b, base), IsBoundary(base, n)
  PROVE  \E m \in n..Messages :
           Flushed(Cut(b).frames \o Parsed(Cut(b).rest).frames, LegacyRest(Cut(b).rest),
                   n, m, base + Len(b))
<1> DEFINE c == Cut(b)
           a == c.rest
           U == EndsFrom(0, 0)
           upTo == base + Len(b)
<1>1. PICK l \in n..Messages : HasCut(c, n, l, upTo) BY CutsMessages
<1>2. /\ Messages \in Nat /\ Ends \in [0..Messages -> Nat] /\ Gap = 1 /\ n \in Nat
      /\ l \in 0..Messages /\ l \in Nat /\ upTo \in Nat
  BY EndsStep, TextTyped DEF Gap
<1>3. c.frames \in Seq(Seq(Char)) /\ a \in Seq(Char) /\ Len(a) \in Nat
  <2>1. c \in CutState BY FlushTyped
  <2> QED BY <2>1 DEF CutState
<1> HIDE DEF c, upTo
<1>4. /\ Len(c.frames) = l - n /\ AreMessages(c.frames, n)
      /\ l = Messages => a = <<>>
      /\ l # Messages => /\ Len(a) <= Len(Text[l + 1])
                         /\ \A j \in 1..Len(a) : Same(a[j], Text[l + 1][j])
      /\ upTo = Ends[l] + Len(a) \/ (a = <<>> /\ l > 0 /\ upTo = Ends[l] - 1)
  BY <1>1 DEF HasCut
<1> HIDE DEF a
<1>5. Adjacent(U)
  <2>1. /\ U \in [0..Messages -> Nat]
        /\ \A i \in 1..Messages : U[i] = U[i - 1] + Len(Text[i]) + 0
    BY EndsIterates
  <2> HIDE DEF U
  <2> SUFFICES ASSUME NEW i \in 1..Messages PROVE U[i] = U[i - 1] + Len(Text[i])
    BY <2>1 DEF Adjacent
  <2>2. i - 1 \in 0..Messages /\ Len(Text[i]) \in Nat BY <1>2, TextTyped
  <2>3. U[i - 1] \in Nat BY <2>1, <2>2
  <2> QED BY <2>1, <2>2, <2>3
<1> HIDE DEF U
<1>6. /\ \A i \in 0..Messages : U[i] \in Nat
      /\ \A i \in 0..Messages : \A j \in i..Messages : U[i] <= U[j]
  <2>1. \A i \in 0..Messages : U[i] \in Nat BY <1>5 DEF Adjacent
  <2>2. \A i \in 1..Messages : U[i - 1] <= U[i]
    <3> SUFFICES ASSUME NEW i \in 1..Messages PROVE U[i - 1] <= U[i] OBVIOUS
    <3>1. U[i] = U[i - 1] + Len(Text[i]) /\ Len(Text[i]) \in Nat BY <1>5, TextTyped DEF Adjacent
    <3>2. i - 1 \in 0..Messages BY <1>2
    <3>3. U[i - 1] \in Nat BY <2>1, <3>2
    <3> QED BY <3>1, <3>3
  <2> QED BY <1>2, <1>5, <2>1, <2>2, Ascends DEF Adjacent
<1>7. l # Messages => U[l + 1] = U[l] + Len(Text[l + 1]) /\ Len(Text[l + 1]) \in Nat \ {0}
  <2> SUFFICES ASSUME l # Messages
      PROVE U[l + 1] = U[l] + Len(Text[l + 1]) /\ Len(Text[l + 1]) \in Nat \ {0}
    OBVIOUS
  <2>1. l + 1 \in 1..Messages /\ (l + 1) - 1 = l BY <1>2
  <2>2. U[l + 1] = U[(l + 1) - 1] + Len(Text[l + 1]) BY <1>5, <2>1 DEF Adjacent
  <2>3. U[(l + 1) - 1] = U[l] BY <2>1
  <2> QED BY <2>1, <2>2, <2>3, TextTyped
<1>8. Shows(a, U, l)
  <2>1. U[l] \in Nat /\ U[Messages] \in Nat /\ U[l] <= U[Messages] BY <1>2, <1>6
  <2>2. CASE l = Messages
    <3>1. Len(a) = 0 BY <1>4, <2>2, EmptySeq
    <3>2. (l + 1)..Messages = {} BY <1>2, <2>2
    <3> QED BY <2>1, <3>1, <3>2 DEF Shows
  <2>3. CASE l # Messages
    <3>1. l + 1 \in 0..Messages /\ Messages \in (l + 1)..Messages BY <1>2, <2>3
    <3>2. U[l + 1] <= U[Messages] /\ U[l + 1] \in Nat BY <1>2, <1>6, <3>1
    <3>3. Len(a) <= U[Messages] - U[l] BY <1>3, <1>4, <1>7, <2>1, <2>3, <3>2
    <3>4. ASSUME NEW i \in (l + 1)..Messages, NEW j \in 1..Len(Text[i]),
                 U[i - 1] - U[l] + j <= Len(a)
          PROVE  Same(a[U[i - 1] - U[l] + j], Text[i][j])
      <4>1. CASE i = l + 1
        <5>1. U[i - 1] - U[l] + j = j
          <6>1. i - 1 = l BY <1>2, <4>1
          <6>2. i \in 1..Messages BY <1>2
          <6>3. Len(Text[i]) \in Nat BY <6>2, TextTyped
          <6> QED BY <2>1, <6>1, <6>3
        <5>2. j \in 1..Len(a)
          <6>1. i \in 1..Messages BY <1>2
          <6>2. Len(Text[i]) \in Nat BY <6>1, TextTyped
          <6> QED BY <1>3, <3>4, <5>1, <6>2
        <5> QED BY <1>4, <2>3, <4>1, <5>1, <5>2
      <4>2. CASE i # l + 1
        <5>1. i - 1 \in (l + 1)..Messages /\ i - 1 \in 0..Messages /\ i \in 1..Messages
          BY <1>2, <4>2
        <5>2. U[l + 1] <= U[i - 1] /\ U[i - 1] \in Nat BY <1>6, <3>1, <5>1
        <5>3. Len(Text[i]) \in Nat BY <5>1, TextTyped
        <5>4. Len(a) <= Len(Text[l + 1]) BY <1>4, <2>3
        <5>5. U[l + 1] = U[l] + Len(Text[l + 1]) /\ Len(Text[l + 1]) \in Nat BY <1>7, <2>3
        <5>6. U[i - 1] - U[l] + j > Len(a) BY <1>3, <2>1, <5>2, <5>3, <5>4, <5>5
        <5>7. U[i - 1] - U[l] + j \in Nat BY <2>1, <5>2, <5>3, <5>5
        <5> QED BY <1>3, <3>4, <5>6, <5>7
      <4> QED BY <4>1, <4>2
    <3> QED BY <3>3, <3>4 DEF Shows
  <2> QED BY <2>2, <2>3
<1> DEFINE fs == Parsed(a).frames
           rest == LegacyRest(a)
<1>9. PICK m \in l..Messages :
        /\ fs \in Seq(Seq(Char)) /\ Len(fs) = m - l /\ AreMessages(fs, l)
        /\ rest \in Seq(Char) /\ U[m] - U[l] + Len(rest) = Len(a)
        /\ m = Messages => rest = <<>>
        /\ m # Messages => /\ Len(rest) < Len(Text[m + 1])
                           /\ \A j \in 1..Len(rest) : Same(rest[j], Text[m + 1][j])
  BY <1>2, <1>3, <1>5, <1>8, ParsesMessages
<1> HIDE DEF fs, rest
<1>10. /\ m \in 0..Messages /\ m \in n..Messages /\ Ends[m] \in Nat /\ Ends[l] \in Nat
       /\ U[m] \in Nat /\ U[l] \in Nat /\ Len(rest) \in Nat
  <2>1. m \in 0..Messages /\ m \in n..Messages BY <1>2
  <2>2. Ends[m] \in Nat /\ Ends[l] \in Nat BY <1>2, <2>1
  <2>3. U[m] \in Nat /\ U[l] \in Nat BY <1>2, <1>6, <2>1
  <2>4. Len(rest) \in Nat BY <1>9
  <2> QED BY <2>1, <2>2, <2>3, <2>4
<1>11. /\ c.frames \o fs \in Seq(Seq(Char)) /\ Len(c.frames \o fs) = m - n
       /\ AreMessages(c.frames \o fs, n)
  <2>1. m \in Nat BY <1>2, <1>10
  <2> QED BY <1>2, <1>3, <1>4, <1>9, <2>1, MessagesConcat
<1>12. m # Messages => Len(rest) <= Len(Text[m + 1]) /\ Len(Text[m + 1]) \in Nat \ {0}
  <2> SUFFICES ASSUME m # Messages
      PROVE Len(rest) <= Len(Text[m + 1]) /\ Len(Text[m + 1]) \in Nat \ {0}
    OBVIOUS
  <2>1. m + 1 \in 1..Messages BY <1>2, <1>10
  <2>2. Len(Text[m + 1]) \in Nat \ {0} BY <2>1, TextTyped
  <2> QED BY <1>9, <1>10, <2>2
<1>13. Received(rest, Ends[m]) BY <1>9, <1>10, <1>12, RestIsReceived
<1>14. Received(<<>>, upTo)
  <2>1. upTo <= Len(Sent) BY <1>2 DEF Received, upTo
  <2> QED BY <1>2, <2>1, EmptySeq DEF Received
\* The message after the first l has arrived in full, but for its delimiter.
<1>15. CASE m # l
  <2>1. l # Messages /\ l + 1 \in 1..Messages /\ l + 1 \in 0..Messages /\ m \in (l + 1)..Messages
        /\ (l + 1) - 1 = l
    BY <1>2, <1>9, <1>15
  <2>2. U[l + 1] <= U[m] /\ U[l + 1] \in Nat BY <1>6, <2>1
  <2>3. Len(rest) = 0 /\ Len(a) = Len(Text[l + 1]) /\ U[m] = U[l + 1]
    <3>1. U[m] - U[l] + Len(rest) = Len(a) BY <1>9
    <3>2. Len(a) <= Len(Text[l + 1]) BY <1>4, <2>1
    <3>3. U[l + 1] = U[l] + Len(Text[l + 1]) /\ Len(Text[l + 1]) \in Nat BY <1>7, <2>1
    <3> QED BY <1>3, <1>10, <2>2, <3>1, <3>2, <3>3
  <2>4. m = l + 1
    <3> SUFFICES ASSUME m # l + 1 PROVE FALSE OBVIOUS
    <3>1. /\ (l + 1) + 1 \in 1..Messages /\ (l + 1) + 1 \in 0..Messages
          /\ m \in ((l + 1) + 1)..Messages
          /\ ((l + 1) + 1) - 1 = l + 1
      BY <1>2, <2>1
    <3>2. U[(l + 1) + 1] <= U[m] /\ U[(l + 1) + 1] \in Nat BY <1>6, <3>1
    <3>3. U[(l + 1) + 1] = U[((l + 1) + 1) - 1] + Len(Text[(l + 1) + 1])
      BY <1>5, <3>1 DEF Adjacent
    <3>4. Len(Text[(l + 1) + 1]) \in Nat \ {0} BY <3>1, TextTyped
    <3>5. U[((l + 1) + 1) - 1] = U[l + 1] BY <3>1
    <3> QED BY <2>2, <2>3, <3>2, <3>3, <3>4, <3>5
  <2>5. rest = <<>> BY <1>9, <2>3, EmptySeq
  <2>6. upTo = Ends[l] + Len(a)
    <3> SUFFICES ASSUME a = <<>> PROVE FALSE BY <1>4
    <3>1. Len(a) = 0 BY EmptySeq
    <3> QED BY <1>7, <2>1, <2>3, <3>1
  <2>7. Ends[m] = Ends[l] + Len(Text[l + 1]) + 1
    <3>1. Ends[l + 1] = Ends[(l + 1) - 1] + Len(Text[l + 1]) + Gap BY <2>1, EndsStep
    <3> QED BY <1>2, <2>1, <2>4, <3>1
  <2>8. upTo = Ends[m] - 1 /\ m > 0
    BY <1>2, <1>7, <1>10, <2>1, <2>3, <2>4, <2>6, <2>7
  <2>9. upTo - Len(rest) = upTo BY <1>2, <2>3
  <2>10. Received(rest, upTo - Len(rest)) BY <1>14, <2>5, <2>9
  <2>11. IsBoundary(upTo - Len(rest), m) BY <2>8, <2>9 DEF IsBoundary
  <2>12. Incomplete(m, upTo)
    <3> SUFFICES ASSUME m # Messages PROVE upTo < Ends[m] + Len(Text[m + 1]) BY DEF Incomplete
    <3> QED BY <1>2, <1>10, <1>12, <2>8
  <2> QED BY <1>9, <1>10, <1>11, <2>10, <2>11, <2>12 DEF Flushed, c, a, fs, rest, upTo
<1>16. CASE m = l
  <2>1. Len(rest) = Len(a) BY <1>3, <1>9, <1>10, <1>16
  <2>2. CASE upTo = Ends[l] + Len(a)
    <3>1. upTo - Len(rest) = Ends[m] BY <1>3, <1>10, <1>16, <2>1, <2>2
    <3>2. Received(rest, upTo - Len(rest)) BY <1>13, <3>1
    <3>3. IsBoundary(upTo - Len(rest), m) BY <3>1 DEF IsBoundary
    <3>4. Incomplete(m, upTo)
      <4> SUFFICES ASSUME m # Messages PROVE upTo < Ends[m] + Len(Text[m + 1]) BY DEF Incomplete
      <4> QED BY <1>2, <1>9, <1>10, <1>12, <1>16, <2>1, <2>2
    <3> QED BY <1>9, <1>10, <1>11, <3>2, <3>3, <3>4 DEF Flushed, c, a, fs, rest, upTo
  <2>3. CASE a = <<>> /\ l > 0 /\ upTo = Ends[l] - 1
    <3>1. Len(rest) = 0 BY <2>1, <2>3, EmptySeq
    <3>2. rest = <<>> BY <1>9, <3>1, EmptySeq
    <3>3. upTo - Len(rest) = upTo BY <1>2, <3>1
    <3>4. Received(rest, upTo - Len(rest)) BY <1>14, <3>2, <3>3
    <3>5. IsBoundary(upTo - Len(rest), m) BY <1>16, <2>3, <3>3 DEF IsBoundary
    <3>6. Incomplete(m, upTo)
      <4> SUFFICES ASSUME m # Messages PROVE upTo < Ends[m] + Len(Text[m + 1]) BY DEF Incomplete
      <4> QED BY <1>2, <1>10, <1>12, <1>16, <2>3
    <3> QED BY <1>9, <1>10, <1>11, <3>4, <3>5, <3>6 DEF Flushed, c, a, fs, rest, upTo
  <2> QED BY <1>4, <2>2, <2>3
<1> QED BY <1>15, <1>16
-----------------------------------------------------------------------------
(* The connection *)

\* A chunk holds what was sent next.
LEMMA ChunkReceived ==
  ASSUME StreamTypeOK, NEW n \in Nat, arrived + n <= Len(Sent)
  PROVE  /\ Decoded(Chunk(n)) \in Seq(Char) /\ Len(Decoded(Chunk(n))) = n
         /\ \A k \in 1..n : Same(Decoded(Chunk(n))[k], Sent[arrived + k].byte)
<1> DEFINE c == Chunk(n)
           D(k) == CASE c[k] = "lead"  /\ ~ (k < Len(c) /\ c[k + 1] = "trail") -> Broken
                     [] c[k] = "trail" /\ ~ (k > 1 /\ c[k - 1] = "lead") -> Broken
                     [] OTHER -> c[k]
<1>1. arrived \in Nat BY DEF StreamTypeOK
<1>2. Sent \in Seq(Sendable) /\ Len(Sent) \in Nat BY SentLayout
<1>3. \A k \in 1..n : Sent[arrived + k].byte \in Byte
  <2> SUFFICES ASSUME NEW k \in 1..n PROVE Sent[arrived + k].byte \in Byte OBVIOUS
  <2>1. arrived + k \in 1..Len(Sent) BY <1>1, <1>2
  <2>2. Sent[arrived + k] \in Sendable BY <1>2, <2>1
  <2> QED BY <2>2 DEF Sendable
<1>4. DOMAIN c = 1..n /\ \A k \in 1..n : c[k] = Sent[arrived + k].byte BY DEF Chunk
<1>5. Decoded(c) = [k \in 1..n |-> D(k)] BY <1>4 DEF Decoded
<1> HIDE DEF c
<1>6. ASSUME NEW k \in 1..n PROVE D(k) \in Char /\ Same(D(k), Sent[arrived + k].byte)
  <2>1. c[k] \in Byte /\ c[k] = Sent[arrived + k].byte BY <1>3, <1>4
  <2>2. CASE c[k] = "lead"
    <3>1. c[k] # "trail" BY <2>2
    <3>2. D(k) = Broken \/ D(k) = c[k] BY <2>2, <3>1
    <3> HIDE DEF D
    <3> QED BY <2>1, <2>2, <3>2 DEF Char, Same
  <2>3. CASE c[k] = "trail"
    <3>1. c[k] # "lead" BY <2>3
    <3>2. D(k) = Broken \/ D(k) = c[k] BY <2>3, <3>1
    <3> HIDE DEF D
    <3> QED BY <2>1, <2>3, <3>2 DEF Char, Same
  <2>4. CASE c[k] # "lead" /\ c[k] # "trail"
    <3>1. D(k) = c[k] BY <2>4
    <3> HIDE DEF D
    <3> QED BY <2>1, <3>1 DEF Char, Same
  <2> QED BY <2>2, <2>3, <2>4
<1> HIDE DEF D
<1>7. [k \in 1..n |-> D(k)] \in Seq(Char) /\ Len([k \in 1..n |-> D(k)]) = n BY <1>6
<1>8. \A k \in 1..n : Decoded(c)[k] = D(k) BY <1>5
<1> QED BY <1>5, <1>6, <1>7, <1>8 DEF c

\* The buffer grows by a chunk.
LEMMA BufferGrows ==
  ASSUME StreamTypeOK, NEW n \in Nat, n <= Len(Sent) - arrived
  PROVE  LET b == buffer \o Decoded(Chunk(n))
             base == arrived - Len(buffer)
         IN  /\ b \in Seq(Char)
             /\ Received(buffer, base) => /\ base \in Nat /\ base + Len(b) = arrived + n
                                          /\ Received(b, base)
<1> DEFINE d == Decoded(Chunk(n))
           b == buffer \o d
           base == arrived - Len(buffer)
<1>1. /\ arrived \in Nat /\ buffer \in Seq(Char) /\ Len(buffer) \in Nat /\ Len(Sent) \in Nat
      /\ arrived + n <= Len(Sent)
  <2>1. arrived \in Nat /\ buffer \in Seq(Char) BY DEF StreamTypeOK, Char
  <2>2. Len(Sent) \in Nat BY SentLayout
  <2> QED BY <2>1, <2>2
<1>2. /\ d \in Seq(Char) /\ Len(d) = n
      /\ \A k \in 1..n : Same(d[k], Sent[arrived + k].byte)
  BY <1>1, ChunkReceived
<1> HIDE DEF d
<1>3. /\ b \in Seq(Char) /\ Len(b) = Len(buffer) + n
      /\ \A k \in 1..(Len(buffer) + n) :
           b[k] = IF k <= Len(buffer) THEN buffer[k] ELSE d[k - Len(buffer)]
  BY <1>1, <1>2, ConcatProperties
<1> HIDE DEF b
<1>4. ASSUME Received(buffer, base)
      PROVE  base \in Nat /\ base + Len(b) = arrived + n /\ Received(b, base)
  <2>1. base \in Nat BY <1>4 DEF Received
  <2>2. base + Len(b) = arrived + n BY <1>1, <1>3
  <2>3. ASSUME NEW k \in 1..Len(b) PROVE Same(b[k], Sent[base + k].byte)
    <3>1. CASE k <= Len(buffer)
      <4>1. k \in 1..Len(buffer) /\ b[k] = buffer[k] BY <1>1, <1>3, <3>1
      <4> QED BY <1>4, <4>1 DEF Received
    <3>2. CASE ~ (k <= Len(buffer))
      <4>1. k - Len(buffer) \in 1..n /\ arrived + (k - Len(buffer)) = base + k
        BY <1>1, <1>3, <3>2
      <4>2. b[k] = d[k - Len(buffer)] BY <1>3, <3>2
      <4>3. Same(d[k - Len(buffer)], Sent[arrived + (k - Len(buffer))].byte) BY <1>2, <4>1
      <4> QED BY <4>1, <4>2, <4>3
    <3> QED BY <3>1, <3>2
  <2>4. base + Len(b) <= Len(Sent) BY <1>1, <2>2
  <2>5. Received(b, base)
    <3> HIDE DEF base
    <3> QED BY <2>1, <2>3, <2>4 DEF Received
  <2> QED BY <2>1, <2>2, <2>5
<1> QED BY <1>3, <1>4 DEF b, d

\* The first delimiter
LEMMA FirstDelimiter ==
  ASSUME NEW b \in Seq(Char), Greeted(b)
  PROVE  /\ FirstFrame(b) \in 1..Len(b) /\ b[FirstFrame(b)] = "delimiter"
         /\ \A j \in 1..(FirstFrame(b) - 1) : b[j] # "delimiter"
<1> DEFINE IsFirst(i) == b[i] = "delimiter" /\ \A j \in 1..(i - 1) : b[j] # "delimiter"
<1>1. Len(b) \in Nat /\ DOMAIN b = 1..Len(b) OBVIOUS
<1>2. \E i \in DOMAIN b : IsFirst(i)
  <2> SUFFICES ASSUME \A i \in 1..Len(b) : ~ IsFirst(i) PROVE FALSE BY <1>1
  <2> DEFINE S == {k \in 0..Len(b) : \A j \in 1..k : b[j] # "delimiter"}
  <2>1. 0 \in S BY <1>1
  <2>2. ASSUME NEW k \in 0..(Len(b) - 1), k \in S PROVE k + 1 \in S
    <3>1. k + 1 \in 1..Len(b) /\ k + 1 \in 0..Len(b) /\ (k + 1) - 1 = k BY <1>1
    <3>2. \A j \in 1..k : b[j] # "delimiter" BY <2>2
    <3>3. b[k + 1] # "delimiter" BY <3>1, <3>2
    <3>4. \A j \in 1..(k + 1) : j \in 1..k \/ j = k + 1 BY <3>1
    <3> QED BY <3>1, <3>2, <3>3, <3>4
  <2> HIDE DEF S
  <2>3. \A k \in 0..Len(b) : k \in S BY <1>1, <2>1, <2>2, UpTo
  <2>4. Len(b) \in S BY <1>1, <2>3
  <2>5. \A j \in 1..Len(b) : b[j] # "delimiter" BY <2>4 DEF S
  <2> QED BY <1>1, <2>5 DEF Greeted
<1>3. FirstFrame(b) \in DOMAIN b /\ IsFirst(FirstFrame(b)) BY <1>2 DEF FirstFrame
<1> QED BY <1>1, <1>3

\* A first frame that is the greeting was sent as the greeting: no message is the same.
LEMMA GreetingEnds ==
  ASSUME StreamTypeOK, NEW b \in Seq(Char), Received(b, 0), Greeted(b),
         SubSeq(b, 1, FirstFrame(b) - 1) = Hello
  PROVE  Ends[0] = FirstFrame(b)
<1> DEFINE F == FirstFrame(b)
<1>1. /\ F \in 1..Len(b) /\ b[F] = "delimiter" /\ \A j \in 1..(F - 1) : b[j] # "delimiter"
  BY FirstDelimiter
<1>2. SubSeq(b, 1, F - 1) = Hello OBVIOUS
<1> HIDE DEF F
<1>3. Len(b) \in Nat OBVIOUS
<1>4. Len(Hello) = F - 1 /\ \A j \in 1..(F - 1) : Hello[j] = b[j]
  <2>1. \A j \in 1..(F - 1) : b[j] \in Char BY <1>1, <1>3
  <2>2. /\ Len(SubSeq(b, 1, F - 1)) = IF 1 <= F - 1 THEN (F - 1) - 1 + 1 ELSE 0
        /\ \A j \in 1..((F - 1) - 1 + 1) : SubSeq(b, 1, F - 1)[j] = b[1 + j - 1]
    BY <1>1, <2>1, SubSeqProperties
  <2>3. (F - 1) - 1 + 1 = F - 1 /\ \A j \in 1..(F - 1) : 1 + j - 1 = j BY <1>1
  <2>4. Len(SubSeq(b, 1, F - 1)) = F - 1 BY <1>1, <2>2
  <2> QED BY <1>2, <2>2, <2>3, <2>4
<1>5. /\ Messages \in Nat /\ Ends \in [0..Messages -> Nat] /\ Gap \in {0, 1}
      /\ Len(Sent) = Ends[Messages]
      /\ Ends[0] = IF peer.greets THEN Len(Hello) + 1 ELSE 0
  BY EndsStep, SentLayout, TextTyped
<1>6. CASE peer.greets BY <1>1, <1>3, <1>4, <1>5, <1>6 DEF F
<1>7. CASE ~ peer.greets
  <2>1. Ends[0] = 0 BY <1>5, <1>7
  <2>2. \A k \in 1..Len(b) : Same(b[k], Sent[k].byte) /\ k <= Len(Sent)
    <3> SUFFICES ASSUME NEW k \in 1..Len(b) PROVE Same(b[k], Sent[k].byte) /\ k <= Len(Sent)
      OBVIOUS
    <3>1. 0 + k = k /\ 0 + Len(b) <= Len(Sent) /\ Same(b[k], Sent[0 + k].byte) BY DEF Received
    <3>2. Len(Sent) \in Nat BY <1>5
    <3> QED BY <1>3, <3>1, <3>2
  <2>3. F \in Nat /\ 0 < F /\ F <= Len(Sent) /\ Sent[F].byte = "delimiter"
    <3>1. Same(b[F], Sent[F].byte) /\ F <= Len(Sent) BY <1>1, <2>2
    <3> QED BY <1>1, <1>3, <3>1 DEF Same, Broken
  <2>4. peer.frames BY <2>1, <2>3, NoDelimiters
  <2>5. Messages # 0
    <3> SUFFICES ASSUME Messages = 0 PROVE FALSE OBVIOUS
    <3>1. Len(Sent) = 0 BY <1>5, <2>1
    <3> QED BY <2>3, <3>1
  <2>6. 1 \in 1..Messages /\ 1 - 1 = 0 BY <1>5, <2>5
  <2> DEFINE t == Text[1]
  <2>7. /\ Len(t) \in Nat \ {0} /\ t \in Seq(Byte)
        /\ \A j \in 1..Len(t) : t[j] \in Byte \ {"delimiter"}
    BY <2>6, TextTyped
  <2>8. Ends[1] = Len(t) + 1
    <3>1. Ends[1] = Ends[1 - 1] + Len(t) + Gap BY <2>6, EndsStep
    <3>2. Gap = 1 BY <2>4 DEF Gap
    <3> HIDE DEF t
    <3> QED BY <2>1, <2>6, <2>7, <3>1, <3>2
  <2>9. \A j \in 1..Len(t) : Sent[j].byte = t[j]
    <3> SUFFICES ASSUME NEW j \in 1..Len(t) PROVE Sent[j].byte = t[j] OBVIOUS
    <3>1. Sent[Ends[1 - 1] + j].byte = t[j] BY <2>6, SentLayout
    <3>2. Ends[1 - 1] + j = j BY <2>1, <2>6
    <3> QED BY <3>1, <3>2
  <2>10. Sent[Len(t) + 1].byte = "delimiter" BY <2>4, <2>6, <2>8, SentLayout
  <2> HIDE DEF t
  <2>11. ~ (F <= Len(t))
    <3> SUFFICES ASSUME F <= Len(t) PROVE FALSE OBVIOUS
    <3>1. F \in 1..Len(t) BY <2>3, <2>7
    <3> QED BY <2>3, <2>7, <2>9, <3>1
  <2>12. ~ (F > Len(t) + 1)
    <3> SUFFICES ASSUME F > Len(t) + 1 PROVE FALSE OBVIOUS
    <3>1. Len(t) + 1 \in 1..(F - 1) /\ Len(t) + 1 \in 1..Len(b) BY <1>1, <1>3, <2>7
    <3>2. Same(b[Len(t) + 1], "delimiter") BY <2>2, <2>10, <3>1
    <3>3. b[Len(t) + 1] # "delimiter" BY <1>1, <3>1
    <3>4. b[Len(t) + 1] = "delimiter" BY <3>2, SameIsRead DEF Byte
    <3> QED BY <3>3, <3>4
  <2>13. F = Len(t) + 1 BY <2>3, <2>7, <2>11, <2>12
  <2>14. Hello \in Seq(Byte) /\ Len(Hello) = Len(t)
    <3>1. Hello \in Seq(Byte) BY TransportAssumption, SeqMonotonic
    <3> QED BY <1>4, <2>7, <2>13, <3>1
  <2>15. ASSUME NEW j \in 1..Len(t) PROVE Hello[j] = t[j]
    <3>1. j \in 1..(F - 1) /\ j \in 1..Len(b) BY <1>1, <1>3, <2>7, <2>13
    <3>2. Hello[j] = b[j] /\ Same(b[j], t[j]) BY <1>4, <2>2, <2>9, <3>1
    <3>3. Hello[j] \in Byte
      <4>1. j \in 1..Len(Hello) BY <2>14
      <4> QED BY <2>14, <4>1, ElementOfSeq
    <3> QED BY <3>2, <3>3 DEF Same, Byte, Broken
  <2>16. Hello = t BY <2>7, <2>14, <2>15, SeqEqual
  <2>17. Text[1] # Hello
    <3>1. 1 \in DOMAIN Text BY <2>6, TextTyped DEF Messages
    <3> QED BY <3>1, TextAssumption
  <2> QED BY <2>16, <2>17 DEF t
<1> QED BY <1>6, <1>7

\* What is sent does not change.
LEMMA SentKept ==
  ASSUME peer' = peer
  PROVE  Sent' = Sent /\ Ends' = Ends
BY DEF Sent, Ends, Gap

\* What has been delivered are the first messages, and the buffer begins where they end.
UpToDate(handled, rest, upTo) ==
  /\ Len(handled) <= Messages /\ \A k \in 1..Len(handled) : IsMessage(handled[k], k)
  /\ Received(rest, upTo - Len(rest)) /\ IsBoundary(upTo - Len(rest), Len(handled))

\* HandlingInv of the next state, if the peer stays the same
LEMMA HandlingKept ==
  ASSUME peer' = peer,
         lost' = {} /\ phase' \in {"authenticating", "client", "handling"} =>
           /\ UpToDate(delivered', buffer', arrived')
           /\ phase' = "handling" => Incomplete(Len(delivered'), arrived')
  PROVE  HandlingInv'
<1>1. Sent' = Sent /\ Ends' = Ends BY SentKept
<1> QED BY <1>1 DEF HandlingInv, UpToDate, Received, IsBoundary, Incomplete

\* What HandlingInv says of the three phases
LEMMA HandlingUpToDate ==
  ASSUME HandlingInv, lost = {}, phase \in {"authenticating", "client", "handling"}
  PROVE  UpToDate(delivered, buffer, arrived)
BY DEF HandlingInv, UpToDate

\* A flush, whatever is in the buffer
LEMMA FlushesTyped ==
  ASSUME StreamTypeOK, NEW b \in Seq(Char), Flush(b)
  PROVE  buffer' \in Seq(Char) /\ delivered' \in Seq(Seq(Char))
<1> DEFINE fs == Cut(b).frames
           a == Cut(b).rest
           gs == Parsed(a).frames
<1>1. fs \in Seq(Seq(Char)) /\ a \in Seq(Char) BY FlushTyped DEF CutState
<1>2. delivered' = delivered \o fs \o gs /\ buffer' = LegacyRest(a) BY DEF Flush
<1> HIDE DEF fs, a
<1>3. Parsed(a) \in ScanState /\ LegacyRest(a) \in Seq(Char) BY <1>1, FlushTyped
<1>4. gs \in Seq(Seq(Char)) BY <1>3 DEF ScanState
<1> HIDE DEF gs
<1>5. delivered \in Seq(Seq(Char)) BY DEF StreamTypeOK, Char
<1>6. delivered \o fs \in Seq(Seq(Char)) BY <1>1, <1>5, ConcatProperties
<1>7. delivered \o fs \o gs \in Seq(Seq(Char)) BY <1>4, <1>6, ConcatProperties
<1> QED BY <1>2, <1>3, <1>7

\* A flush of what came after the messages that have been delivered
LEMMA Flushes ==
  ASSUME StreamTypeOK, NEW b \in Seq(Char), NEW upTo \in Nat,
         UpToDate(delivered, b, upTo), Flush(b)
  PROVE  UpToDate(delivered', buffer', upTo) /\ Incomplete(Len(delivered'), upTo)
<1> DEFINE fs == Cut(b).frames
           a == Cut(b).rest
           gs == Parsed(a).frames
           n == Len(delivered)
           base == upTo - Len(b)
           hs == fs \o gs
           rest == LegacyRest(a)
<1>1. fs \in Seq(Seq(Char)) /\ a \in Seq(Char) BY FlushTyped DEF CutState
<1>2. delivered' = delivered \o fs \o gs /\ buffer' = rest BY DEF Flush
<1>3. gs \in Seq(Seq(Char))
  <2> HIDE DEF a
  <2>1. Parsed(a) \in ScanState BY <1>1, FlushTyped
  <2> QED BY <2>1 DEF ScanState
<1>4. delivered \in Seq(Seq(Char)) /\ n \in Nat /\ Len(b) \in Nat BY DEF StreamTypeOK, Char
<1>5. Messages \in Nat /\ n <= Messages /\ \A k \in 1..n : IsMessage(delivered[k], k)
  BY TextTyped DEF UpToDate
<1>6. base \in Nat /\ Received(b, base) /\ IsBoundary(base, n)
  BY DEF UpToDate, Received
<1>7. n \in 0..Messages /\ base + Len(b) = upTo BY <1>4, <1>5, <1>6
<1>8. \E m \in n..Messages : Flushed(hs, rest, n, m, base + Len(b))
  <2> HIDE DEF n, base
  <2>1. CASE peer.frames BY <1>6, <1>7, <2>1, FlushFramed
  <2>2. CASE ~ peer.frames BY <1>6, <1>7, <2>2, FlushUnframed
  <2> QED BY <2>1, <2>2
<1>9. delivered \o fs \o gs = delivered \o hs
  <2> HIDE DEF fs, gs
  <2> QED BY <1>1, <1>3, <1>4, ConcatAssociative DEF hs
<1> HIDE DEF fs, gs, a, n, base, hs, rest
<1>10. PICK m \in n..Messages : Flushed(hs, rest, n, m, upTo) BY <1>7, <1>8
<1>11. /\ hs \in Seq(Seq(Char)) /\ Len(hs) = m - n /\ AreMessages(hs, n)
       /\ rest \in Seq(Char) /\ Received(rest, upTo - Len(rest))
       /\ IsBoundary(upTo - Len(rest), m) /\ Incomplete(m, upTo)
  BY <1>10 DEF Flushed
<1>12. Len(delivered \o hs) = m /\ AreMessages(delivered \o hs, 0)
  <2>1. m \in Nat /\ n - 0 = n /\ 0 \in Nat /\ m - 0 = m BY <1>4, <1>5
  <2>2. AreMessages(delivered, 0)
    <3> SUFFICES ASSUME NEW k \in 1..Len(delivered) PROVE IsMessage(delivered[k], 0 + k)
      BY DEF AreMessages
    <3>1. 0 + k = k BY <1>4 DEF n
    <3> QED BY <1>5, <3>1 DEF n
  <2>3. Len(delivered) = n - 0 BY <2>1 DEF n
  <2>4. Len(delivered \o hs) = m - 0 /\ AreMessages(delivered \o hs, 0)
    BY <1>4, <1>11, <2>1, <2>2, <2>3, MessagesConcat
  <2> QED BY <2>1, <2>4
<1>13. delivered' = delivered \o hs BY <1>2, <1>9
<1>14. \A k \in 1..m : IsMessage(delivered'[k], k)
  <2> SUFFICES ASSUME NEW k \in 1..m PROVE IsMessage(delivered'[k], k) OBVIOUS
  <2>1. IsMessage(delivered'[k], 0 + k) BY <1>12, <1>13 DEF AreMessages
  <2>2. 0 + k = k BY <1>4, <1>5
  <2> QED BY <2>1, <2>2
<1>15. Len(delivered') = m /\ m <= Messages BY <1>4, <1>5, <1>12, <1>13
<1> QED BY <1>2, <1>11, <1>14, <1>15 DEF UpToDate

-----------------------------------------------------------------------------
(* The invariant holds. *)

\* The empty buffer is what was sent after any byte that was.
LEMMA NothingReceived ==
  ASSUME StreamTypeOK, NEW base \in Nat, base <= Len(Sent)
  PROVE  Received(<<>>, base)
<1>1. Len(<<>>) = 0 /\ Len(Sent) \in Nat BY EmptySeq, SentLayout
<1> QED BY <1>1 DEF Received

\* The invariant holds at first, and every step keeps it.
LEMMA StreamInvStarts == StreamInit => StreamInv
<1> SUFFICES ASSUME StreamInit PROVE StreamInv OBVIOUS
<1>1. /\ peer \in [greets : BOOLEAN, frames : BOOLEAN]
      /\ phase \in {"greeting"} \cup IF peer.greets THEN {} ELSE {"client"}
      /\ arrived = 0 /\ buffer = <<>> /\ delivered = <<>> /\ lost = {}
  BY DEF StreamInit
<1>2. phase \in {"greeting", "client"} /\ (phase = "client" => ~ peer.greets)
  <2>1. CASE peer.greets BY <1>1, <2>1
  <2>2. CASE ~ peer.greets BY <1>1, <2>2
  <2> QED BY <2>1, <2>2
<1>3. StreamTypeOK
  <2>1. <<>> \in Seq(Byte \cup {Broken}) /\ <<>> \in Seq(Seq(Byte \cup {Broken})) BY EmptySeq
  <2> QED BY <1>1, <1>2, <2>1 DEF StreamTypeOK, Phase
<1>4. Len(Sent) \in Nat /\ Messages \in Nat BY <1>3, SentLayout, TextTyped
<1>5. Received(<<>>, 0) BY <1>3, <1>4, NothingReceived
<1>6. GreetingInv
  <2>1. Len(buffer) = arrived BY <1>1
  <2> QED BY <1>1, <1>5, <2>1 DEF GreetingInv
<1>7. phase = "client" => IsBoundary(0, 0)
  <2>1. Ends[0] = IF peer.greets THEN Len(Hello) + 1 ELSE 0 BY <1>3, EndsStep
  <2> QED BY <1>2, <2>1 DEF IsBoundary
<1>8. HandlingInv
  <2> SUFFICES ASSUME phase = "client"
               PROVE  /\ Len(delivered) <= Messages
                      /\ \A k \in 1..Len(delivered) : IsMessage(delivered[k], k)
                      /\ Received(buffer, arrived - Len(buffer))
                      /\ IsBoundary(arrived - Len(buffer), Len(delivered))
    BY <1>2 DEF HandlingInv
  <2>1. Len(delivered) = 0 /\ Len(buffer) = 0 /\ arrived - Len(buffer) = 0
    <3>1. Len(<<>>) = 0 BY EmptySeq
    <3>2. delivered = <<>> /\ buffer = <<>> /\ arrived = 0 BY <1>1
    <3>3. Len(delivered) = 0 /\ Len(buffer) = 0 BY <3>1, <3>2, Zenon
    <3>4. 0 - 0 = 0 OBVIOUS
    <3>5. arrived - Len(buffer) = 0 BY <3>2, <3>3, <3>4, Zenon
    <3> QED BY <3>3, <3>5
  <2>2. 1..Len(delivered) = {} BY <2>1
  <2> QED BY <1>1, <1>4, <1>5, <1>7, <2>1, <2>2
<1> QED BY <1>1, <1>3, <1>4, <1>6, <1>8 DEF StreamInv

\* A chunk of the greeting
LEMMA GreetingArrivesKeeps ==
  ASSUME StreamInv, NEW n \in 1..Len(Sent), GreetingArrives(n)
  PROVE  StreamInv'
<1> DEFINE b == buffer \o Decoded(Chunk(n))
<1>1. /\ StreamTypeOK /\ arrived \in Nat /\ n \in Nat /\ Len(Sent) \in Nat
      /\ GreetingInv /\ HandlingInv
  <2>1. StreamTypeOK BY DEF StreamInv
  <2> QED BY <2>1, SentLayout DEF StreamInv, StreamTypeOK
<1>2. /\ phase = "greeting" /\ n <= Len(Sent) - arrived /\ arrived' = arrived + n
      /\ peer' = peer /\ delivered' = delivered /\ lost' = lost
  BY DEF GreetingArrives, BytesArrive
<1>3. /\ Received(buffer, 0) /\ Len(buffer) = arrived /\ delivered = <<>>
      /\ arrived - Len(buffer) = 0
  BY <1>1, <1>2 DEF GreetingInv
<1>4. b \in Seq(Char) /\ 0 + Len(b) = arrived + n /\ Received(b, 0)
  BY <1>1, <1>2, <1>3, BufferGrows
<1>5. (CASE Len(b) > MaxGreeting -> phase' = "rejected" /\ buffer' = <<>>
         [] Len(b) <= MaxGreeting /\ ~ Greeted(b) -> buffer' = b /\ UNCHANGED phase
         [] Len(b) <= MaxGreeting /\ Greeted(b) -> Greet(b))
  BY DEF GreetingArrives
<1> HIDE DEF b
<1>6. Len(b) \in Nat /\ MaxGreeting \in Nat BY <1>4, TransportAssumption
<1>7. \/ phase' = "rejected" /\ buffer' = <<>>
      \/ phase' = "greeting" /\ buffer' = b
      \/ Greeted(b) /\ Greet(b)
  <2>1. CASE Len(b) > MaxGreeting
    <3>1. ~ (Len(b) <= MaxGreeting) BY <1>6, <2>1
    <3>2. phase' = "rejected" /\ buffer' = <<>> BY <1>5, <2>1, <3>1, Zenon
    <3> QED BY <3>2
  <2>2. CASE ~ (Len(b) > MaxGreeting) /\ Greeted(b)
    <3>1. Len(b) <= MaxGreeting BY <1>6, <2>2
    <3>2. Greet(b) BY <1>5, <2>2, <3>1, Zenon
    <3> QED BY <2>2, <3>2
  <2>3. CASE ~ (Len(b) > MaxGreeting) /\ ~ Greeted(b)
    <3>1. Len(b) <= MaxGreeting BY <1>6, <2>3
    <3>2. buffer' = b /\ UNCHANGED phase BY <1>5, <2>3, <3>1, Zenon
    <3> QED BY <1>2, <3>2
  <2> QED BY <2>1, <2>2, <2>3
<1>8. arrived' \in Nat /\ arrived' <= Len(Sent) /\ Len(b) = arrived'
  BY <1>1, <1>2, <1>4, <1>6
<1>9. Sent' = Sent /\ Ends' = Ends BY <1>2, SentKept
<1>10. ASSUME phase' \in Phase, buffer' \in Seq(Char) PROVE StreamTypeOK'
  BY <1>1, <1>2, <1>8, <1>10 DEF StreamTypeOK, Char
<1>11. CASE phase' = "rejected" /\ buffer' = <<>>
  <2>1. StreamTypeOK' BY <1>10, <1>11, EmptySeq DEF Phase
  <2>2. GreetingInv' BY <1>2, <1>3, <1>11 DEF GreetingInv
  <2>3. HandlingInv' BY <1>11 DEF HandlingInv
  <2> QED BY <1>8, <1>9, <2>1, <2>2, <2>3 DEF StreamInv
<1>12. CASE phase' = "greeting" /\ buffer' = b
  <2>1. StreamTypeOK' BY <1>4, <1>10, <1>12 DEF Phase
  <2>2. GreetingInv'
    BY <1>2, <1>3, <1>4, <1>8, <1>9, <1>12 DEF GreetingInv, Received
  <2>3. HandlingInv' BY <1>12 DEF HandlingInv
  <2> QED BY <1>8, <1>9, <2>1, <2>2, <2>3 DEF StreamInv
<1>13. CASE Greeted(b) /\ Greet(b)
  <2> DEFINE F == FirstFrame(b)
             rest == SubSeq(b, F + 1, Len(b))
  <2>1. \/ SubSeq(b, 1, F - 1) = Hello /\ phase' = "authenticating" /\ buffer' = rest
        \/ phase' = "rejected" /\ buffer' = <<>>
    BY <1>13 DEF Greet
  <2>2. CASE phase' = "rejected" /\ buffer' = <<>> BY <1>11, <2>2
  <2>3. CASE SubSeq(b, 1, F - 1) = Hello /\ phase' = "authenticating" /\ buffer' = rest
    <3>1. F \in 1..Len(b) BY <1>4, <1>13, FirstDelimiter
    <3>2. Ends[0] = F BY <1>1, <1>4, <1>13, <2>3, GreetingEnds
    <3> HIDE DEF F
    <3>3. \A j \in (F + 1)..Len(b) : b[j] \in Char BY <1>4, <3>1
    <3>4. /\ rest \in Seq(Char)
          /\ Len(rest) = IF F + 1 <= Len(b) THEN Len(b) - (F + 1) + 1 ELSE 0
          /\ \A j \in 1..(Len(b) - (F + 1) + 1) : rest[j] = b[(F + 1) + j - 1]
      BY <1>6, <3>1, <3>3, SubSeqProperties
    <3> HIDE DEF rest
    <3>5. Len(rest) = Len(b) - F /\ arrived' - Len(rest) = F
      <4>1. Len(rest) = IF F + 1 <= Len(b) THEN Len(b) - (F + 1) + 1 ELSE 0 BY <3>4
      <4>2. F \in Nat /\ F <= Len(b) BY <1>6, <3>1
      <4>3. Len(rest) = Len(b) - F BY <1>6, <4>1, <4>2
      <4>4. Len(b) - (Len(b) - F) = F BY <1>6, <4>2
      <4>5. arrived' = Len(b) BY <1>8
      <4>6. arrived' - Len(rest) = F BY <4>3, <4>4, <4>5, Zenon
      <4> QED BY <4>3, <4>6
    <3>6. Received(rest, F)
      <4>1. F \in Nat /\ F + Len(rest) <= Len(Sent) BY <1>1, <1>6, <1>8, <3>1, <3>5
      <4>2. ASSUME NEW j \in 1..Len(rest) PROVE Same(rest[j], Sent[F + j].byte)
        <5>1. /\ j \in 1..(Len(b) - (F + 1) + 1) /\ (F + 1) + j - 1 = F + j
              /\ F + j \in 1..Len(b) /\ 0 + (F + j) = F + j
          BY <1>6, <3>1, <3>5
        <5>2. rest[j] = b[F + j] BY <3>4, <5>1
        <5>3. Same(b[F + j], Sent[0 + (F + j)].byte) BY <1>4, <5>1 DEF Received
        <5> QED BY <5>1, <5>2, <5>3
      <4> QED BY <4>1, <4>2 DEF Received
    <3>7. UpToDate(delivered', buffer', arrived')
      <4>1. delivered' = <<>> /\ Len(delivered') = 0 /\ Messages \in Nat
        BY <1>2, <1>3, TextTyped
      <4>2. 1..Len(delivered') = {} BY <4>1
      <4>3. IsBoundary(F, 0) BY <3>2 DEF IsBoundary
      <4> QED BY <2>3, <3>5, <3>6, <4>1, <4>2, <4>3 DEF UpToDate
    <3>8. HandlingInv' BY <1>2, <2>3, <3>7, HandlingKept
    <3>9. StreamTypeOK' BY <1>10, <2>3, <3>4 DEF Phase
    <3>10. GreetingInv' BY <1>2, <1>3, <2>3 DEF GreetingInv
    <3> QED BY <1>8, <1>9, <3>8, <3>9, <3>10 DEF StreamInv
  <2> QED BY <2>1, <2>2, <2>3
<1> QED BY <1>7, <1>11, <1>12, <1>13

\* A greeting that is rejected
LEMMA RejectKeeps == StreamInv /\ Reject => StreamInv'
<1> SUFFICES ASSUME StreamInv, Reject PROVE StreamInv' OBVIOUS
<1>1. /\ phase \in {"greeting", "authenticating"} /\ phase' = "rejected" /\ buffer' = <<>>
      /\ peer' = peer /\ arrived' = arrived /\ delivered' = delivered /\ lost' = lost
  BY DEF Reject
<1>2. Sent' = Sent BY <1>1, SentKept
<1>3. StreamTypeOK /\ arrived <= Len(Sent) /\ delivered = <<>> BY <1>1 DEF StreamInv, GreetingInv
<1>4. StreamTypeOK' BY <1>1, <1>3, EmptySeq DEF StreamTypeOK, Phase
<1>5. GreetingInv' BY <1>1, <1>3 DEF GreetingInv
<1>6. HandlingInv' BY <1>1 DEF HandlingInv
<1> QED BY <1>1, <1>2, <1>3, <1>4, <1>5, <1>6 DEF StreamInv

\* Bytes that nobody listens to: the invariant claims nothing more if they are lost.
LEMMA ArrivesUnheardKeeps ==
  ASSUME StreamInv, NEW n \in 1..Len(Sent), ArrivesUnheard(n)
  PROVE  StreamInv'
<1>1. /\ phase = "authenticating" /\ n <= Len(Sent) - arrived /\ arrived' = arrived + n
      /\ lost' = lost \cup {Sent[arrived + k].of : k \in 1..n}
      /\ peer' = peer /\ phase' = phase /\ buffer' = buffer /\ delivered' = delivered
  BY DEF ArrivesUnheard, BytesArrive
<1>2. StreamTypeOK /\ GreetingInv BY DEF StreamInv
<1>3. arrived \in Nat /\ n \in Nat /\ Sent \in Seq(Sendable) /\ Len(Sent) \in Nat
  BY <1>2, SentLayout DEF StreamTypeOK
<1>4. \A k \in 1..n : Sent[arrived + k].of \in 0..Messages
  <2> SUFFICES ASSUME NEW k \in 1..n PROVE Sent[arrived + k].of \in 0..Messages OBVIOUS
  <2>1. arrived + k \in 1..Len(Sent) BY <1>1, <1>3
  <2>2. Sent[arrived + k] \in Sendable BY <1>3, <2>1
  <2> QED BY <2>2 DEF Sendable
<1>5. lost' \subseteq 0..Messages BY <1>1, <1>2, <1>4 DEF StreamTypeOK, Messages
<1>6. lost' # {}
  <2>1. 1 \in 1..n OBVIOUS
  <2> QED BY <1>1, <2>1
<1>7. arrived' \in Nat /\ arrived' <= Len(Sent) BY <1>1, <1>3
<1>8. Sent' = Sent BY <1>1, SentKept
<1>9. StreamTypeOK' BY <1>1, <1>2, <1>5, <1>7 DEF StreamTypeOK, Messages
<1>10. GreetingInv' BY <1>1, <1>2 DEF GreetingInv
<1>11. HandlingInv' BY <1>6 DEF HandlingInv
<1> QED BY <1>7, <1>8, <1>9, <1>10, <1>11 DEF StreamInv

\* A peer that has been authenticated
LEMMA AuthenticatedKeeps == StreamInv /\ Authenticated => StreamInv'
<1> SUFFICES ASSUME StreamInv, Authenticated PROVE StreamInv' OBVIOUS
<1>1. /\ phase = "authenticating" /\ phase' = "client" /\ peer' = peer /\ arrived' = arrived
      /\ buffer' = buffer /\ delivered' = delivered /\ lost' = lost
  BY DEF Authenticated
<1>2. StreamTypeOK /\ GreetingInv /\ HandlingInv /\ arrived <= Len(Sent) BY DEF StreamInv
<1>3. Sent' = Sent BY <1>1, SentKept
<1>4. StreamTypeOK' BY <1>1, <1>2 DEF StreamTypeOK, Phase
<1>5. GreetingInv' BY <1>1, <1>2 DEF GreetingInv
<1>6. lost' = {} => UpToDate(delivered', buffer', arrived')
  <2> SUFFICES ASSUME lost = {} PROVE UpToDate(delivered, buffer, arrived) BY <1>1
  <2> QED BY <1>1, <1>2, HandlingUpToDate
<1>7. HandlingInv' BY <1>1, <1>6, HandlingKept
<1> QED BY <1>1, <1>2, <1>3, <1>4, <1>5, <1>7 DEF StreamInv

\* The owner of the connection starts to listen, and what is buffered is flushed.
LEMMA OnMessageKeeps == StreamInv /\ OnMessage => StreamInv'
<1> SUFFICES ASSUME StreamInv, OnMessage PROVE StreamInv' OBVIOUS
<1>1. /\ phase = "client" /\ phase' = "handling" /\ Flush(buffer)
      /\ peer' = peer /\ arrived' = arrived /\ lost' = lost
  BY DEF OnMessage
<1>2. StreamTypeOK /\ HandlingInv /\ arrived <= Len(Sent) BY DEF StreamInv
<1>3. buffer \in Seq(Char) /\ arrived \in Nat BY <1>2 DEF StreamTypeOK, Char
<1>4. Sent' = Sent BY <1>1, SentKept
<1>5. buffer' \in Seq(Char) /\ delivered' \in Seq(Seq(Char)) BY <1>1, <1>2, <1>3, FlushesTyped
<1>6. StreamTypeOK' BY <1>1, <1>2, <1>5 DEF StreamTypeOK, Phase, Char
<1>7. GreetingInv' BY <1>1 DEF GreetingInv
<1>8. lost' = {} => UpToDate(delivered', buffer', arrived') /\ Incomplete(Len(delivered'), arrived')
  <2> SUFFICES ASSUME lost = {}
      PROVE UpToDate(delivered', buffer', arrived) /\ Incomplete(Len(delivered'), arrived)
    BY <1>1
  <2>1. UpToDate(delivered, buffer, arrived) BY <1>1, <1>2, HandlingUpToDate
  <2> QED BY <1>1, <1>2, <1>3, <2>1, Flushes
<1>9. HandlingInv' BY <1>1, <1>8, HandlingKept
<1> QED BY <1>1, <1>2, <1>4, <1>6, <1>7, <1>9 DEF StreamInv

\* A chunk arrives while the owner listens.
LEMMA HandleDataKeeps ==
  ASSUME StreamInv, NEW n \in 1..Len(Sent), HandleData(n)
  PROVE  StreamInv'
<1> DEFINE b == buffer \o Decoded(Chunk(n))
           base == arrived - Len(buffer)
<1>1. /\ phase \in {"client", "handling"} /\ n <= Len(Sent) - arrived /\ arrived' = arrived + n
      /\ peer' = peer /\ phase' = phase /\ lost' = lost
      /\ IF phase = "client" THEN buffer' = b /\ UNCHANGED delivered ELSE Flush(b)
  BY DEF HandleData, BytesArrive
<1>2. StreamTypeOK /\ HandlingInv /\ GreetingInv BY DEF StreamInv
<1>3. arrived \in Nat /\ n \in Nat /\ Len(Sent) \in Nat BY <1>2, SentLayout DEF StreamTypeOK
<1>4. arrived' \in Nat /\ arrived' <= Len(Sent) BY <1>1, <1>3
<1>5. Sent' = Sent BY <1>1, SentKept
<1>6. /\ b \in Seq(Char)
      /\ Received(buffer, base) => /\ base \in Nat /\ base + Len(b) = arrived + n
                                   /\ Received(b, base)
  BY <1>1, <1>2, <1>3, BufferGrows
<1> HIDE DEF b
<1>7. lost = {} => UpToDate(delivered, b, arrived')
  <2> SUFFICES ASSUME lost = {} PROVE UpToDate(delivered, b, arrived') OBVIOUS
  <2>1. UpToDate(delivered, buffer, arrived) BY <1>1, <1>2, HandlingUpToDate
  <2>2. Received(buffer, base) BY <2>1 DEF UpToDate
  <2>3. base \in Nat /\ base + Len(b) = arrived' /\ Received(b, base) BY <1>1, <1>6, <2>2
  <2>4. Len(b) \in Nat BY <1>6
  <2>5. IsBoundary(base, Len(delivered)) BY <2>1 DEF UpToDate
  <2> HIDE DEF base
  <2>6. arrived' - Len(b) = base BY <1>4, <2>3, <2>4
  <2>7. Received(b, arrived' - Len(b)) /\ IsBoundary(arrived' - Len(b), Len(delivered))
    BY <2>3, <2>5, <2>6
  <2> QED BY <2>1, <2>7 DEF UpToDate
<1>8. CASE phase = "client"
  <2>1. buffer' = b /\ delivered' = delivered BY <1>1, <1>8
  <2>2. StreamTypeOK' BY <1>1, <1>2, <1>4, <1>6, <2>1 DEF StreamTypeOK, Char
  <2>3. GreetingInv' BY <1>1, <1>2, <1>8, <2>1 DEF GreetingInv
  <2>4. HandlingInv' BY <1>1, <1>7, <1>8, <2>1, HandlingKept
  <2> QED BY <1>4, <1>5, <2>2, <2>3, <2>4 DEF StreamInv
<1>9. CASE phase = "handling"
  <2>1. Flush(b) BY <1>1, <1>9
  <2>2. buffer' \in Seq(Char) /\ delivered' \in Seq(Seq(Char)) BY <1>2, <1>6, <2>1, FlushesTyped
  <2>3. StreamTypeOK' BY <1>1, <1>2, <1>4, <2>2 DEF StreamTypeOK, Char
  <2>4. GreetingInv' BY <1>1, <1>9 DEF GreetingInv
  <2>5. lost' = {} => /\ UpToDate(delivered', buffer', arrived')
                      /\ Incomplete(Len(delivered'), arrived')
    <3> SUFFICES ASSUME lost = {}
        PROVE UpToDate(delivered', buffer', arrived') /\ Incomplete(Len(delivered'), arrived')
      BY <1>1
    <3> QED BY <1>2, <1>4, <1>6, <1>7, <2>1, Flushes
  <2>6. HandlingInv' BY <1>1, <2>5, HandlingKept
  <2> QED BY <1>4, <1>5, <2>3, <2>4, <2>6 DEF StreamInv
<1> QED BY <1>1, <1>8, <1>9

\* The inductive invariant of the stream: as long as nobody missed a byte, what has been
\* delivered is the first messages, in their order, and the buffer holds what was sent
\* after them, which is less than a message.
THEOREM StreamInvariant == StreamSpec => []StreamInv
<1>1. StreamInit => StreamInv BY StreamInvStarts
<1>2. StreamInv /\ [StreamNext]_streamVars => StreamInv'
  <2> SUFFICES ASSUME StreamInv, [StreamNext]_streamVars PROVE StreamInv' OBVIOUS
  <2>1. ASSUME NEW n \in 1..Len(Sent), GreetingArrives(n) PROVE StreamInv'
    BY <2>1, GreetingArrivesKeeps
  <2>2. ASSUME NEW n \in 1..Len(Sent), ArrivesUnheard(n) PROVE StreamInv'
    BY <2>2, ArrivesUnheardKeeps
  <2>3. ASSUME NEW n \in 1..Len(Sent), HandleData(n) PROVE StreamInv'
    BY <2>3, HandleDataKeeps
  <2>4. CASE Reject BY <2>4, RejectKeeps
  <2>5. CASE Authenticated BY <2>5, AuthenticatedKeeps
  <2>6. CASE OnMessage BY <2>6, OnMessageKeeps
  <2>7. CASE UNCHANGED streamVars
    <3>1. /\ peer' = peer /\ phase' = phase /\ arrived' = arrived /\ buffer' = buffer
          /\ delivered' = delivered /\ lost' = lost
      BY <2>7 DEF streamVars
    <3>2. Sent' = Sent /\ Ends' = Ends BY <3>1, SentKept
    <3> QED BY <3>1, <3>2 DEF StreamInv, StreamTypeOK, GreetingInv, HandlingInv, Received,
                              IsBoundary, Incomplete
  <2> QED BY <2>1, <2>2, <2>3, <2>4, <2>5, <2>6, <2>7 DEF StreamNext
<1> QED BY <1>1, <1>2, PTL DEF StreamSpec

\* However the stream is cut into chunks and wherever a chunk ends, in a message, in a
\* character or before a delimiter: as long as nobody missed a byte, the handlers are
\* called with the messages, each once, in their order and with nothing else, and with
\* all of them when everything has arrived.
THEOREM MessagesAlwaysComeInOrder == StreamSpec => []MessagesComeInOrder
<1>1. StreamInv => MessagesComeInOrder
  <2> SUFFICES ASSUME StreamInv, lost = {}
               PROVE  /\ \A k \in DOMAIN delivered :
                           k \in DOMAIN Text /\ IsMessage(delivered[k], k)
                      /\ phase = "handling" /\ arrived = Len(Sent) =>
                           Len(delivered) = Len(Text)
    BY DEF MessagesComeInOrder
  <2>1. StreamTypeOK /\ GreetingInv /\ HandlingInv BY DEF StreamInv
  <2>2. delivered \in Seq(Seq(Char)) BY <2>1 DEF StreamTypeOK, Char
  <2>3. Messages \in Nat /\ DOMAIN Text = 1..Messages BY TextTyped DEF Messages
  <2>4. CASE phase # "handling"
    <3>1. delivered = <<>> BY <2>1, <2>4 DEF GreetingInv
    <3>2. DOMAIN delivered = {} BY <3>1
    <3> QED BY <2>4, <3>2
  <2>5. CASE phase = "handling"
    <3>1. /\ Len(delivered) <= Messages
          /\ \A k \in 1..Len(delivered) : IsMessage(delivered[k], k)
          /\ Incomplete(Len(delivered), arrived)
      BY <2>1, <2>5 DEF HandlingInv
    <3>2. DOMAIN delivered = 1..Len(delivered) /\ Len(delivered) \in Nat BY <2>2
    <3>3. \A k \in DOMAIN delivered : k \in DOMAIN Text /\ IsMessage(delivered[k], k)
      BY <2>3, <3>1, <3>2
    <3>4. ASSUME arrived = Len(Sent), Len(delivered) # Messages PROVE FALSE
      <4> DEFINE n == Len(delivered)
      <4>1. /\ n + 1 \in 1..Messages /\ n + 1 \in 0..Messages /\ n \in 0..Messages
            /\ (n + 1) - 1 = n
        <5>1. n \in Nat /\ n <= Messages /\ n # Messages BY <3>1, <3>2, <3>4
        <5> HIDE DEF n
        <5> QED BY <2>3, <5>1
      <4>2. arrived < Ends[n] + Len(Text[n + 1]) BY <3>1, <3>4 DEF Incomplete
      <4>3. Len(Sent) = Ends[Messages] BY <2>1, SentLayout
      <4>4. Ends[n + 1] = Ends[(n + 1) - 1] + Len(Text[n + 1]) + Gap /\ Gap \in {0, 1}
            /\ Ends[n] \in Nat /\ Ends[n + 1] \in Nat /\ Ends[Messages] \in Nat
        BY <2>1, <2>3, <4>1, EndsStep
      <4>5. Ends[n + 1] <= Ends[Messages] BY <2>1, <2>3, <4>1, EndsAscend
      <4>6. Len(Text[n + 1]) \in Nat BY <4>1, TextTyped
      <4> HIDE DEF n
      <4>7. Ends[(n + 1) - 1] = Ends[n] BY <4>1
      <4> QED BY <3>4, <4>2, <4>3, <4>4, <4>5, <4>6, <4>7
    <3> QED BY <3>3, <3>4 DEF Messages
  <2> QED BY <2>4, <2>5
<1> QED BY <1>1, StreamInvariant, PTL
==============================================================================
