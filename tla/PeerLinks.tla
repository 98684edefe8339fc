------------------------------ MODULE PeerLinks ------------------------------
(***************************************************************************)
(* Connections between Hydrabase nodes seen from both ends: two nodes that *)
(* dial each other, the handshakes of the two transports, the duplicate    *)
(* checks of PeerManager.add() at either end, and connections that break.  *)
(*                                                                         *)
(* PeerConnections looks at one node and knows a connection only as open   *)
(* or closed.  Here an end learns of what the other end did when an event  *)
(* reaches it.  Over TCP the acceptor registers the peer when it upgrades  *)
(* the request and the dialer when it sees the answer; over uTP the dialer *)
(* registers first, and the acceptor after it has read a greeting and      *)
(* authenticated the hostname in it.                                       *)
(***************************************************************************)

CONSTANTS
  Node,   \* the nodes, each known to the others under one hostname
  Conn,   \* handles of connections
  None    \* no connection

ASSUME NoneAssumption == None \notin Conn

Transport == {"TCP", "UTP"}

\* opening: toSocket() waits for the transport.  listed: add() has registered it.
\* failed: it never opened.
DialerState == {"opening", "listed", "closed", "failed"}

\* requested: on the way.  verifying: the handshake of the acceptor waits for the
\* proof of the dialer's identity.  deaf: as verifying, but the close event has passed
\* before anybody listened to it.  ghost: listed although it was deaf.
\* refused: turned down before the transport opened.
AcceptorState == {"requested", "verifying", "deaf", "listed", "ghost", "refused", "closed"}

Link == [from : Node, to : Node, via : Transport, fallback : BOOLEAN,
         dialer : DialerState, acceptor : AcceptorState,
         up : BOOLEAN]   \* neither end has closed it and the network carries it

ASSUME NoLinkAssumption == None \notin Link

VARIABLES
  links,   \* links[c]: the connection c, or None
  peers    \* peers[n][m]: the connection under which n lists m, or None

vars == <<links, peers>>

TypeOK ==
  /\ links \in [Conn -> Link \cup {None}]
  /\ peers \in [Node -> [Node -> Conn \cup {None}]]

Init ==
  /\ links = [c \in Conn |-> None]
  /\ peers = [n \in Node |-> [m \in Node |-> None]]

-----------------------------------------------------------------------------
\* has()
Has(n, m) == peers[n][m] # None

\* Nothing more happens to a connection at either end.
Over(link) ==
  /\ link.dialer \in {"closed", "failed"}
  /\ \/ link.acceptor \in {"refused", "closed"}
     \/ link.acceptor = "requested" /\ ~link.up

\* The handle of no connection, or of one that is over
Free(link) == link # None => Over(link)

\* n has a dial to m in flight: connectingPeers
Dialing(n, m) ==
  \E c \in Conn : /\ links[c] # None
                  /\ links[c].from = n /\ links[c].to = m
                  /\ links[c].dialer = "opening"

\* A connection that n has begun to open to m
NewLink(n, m, via, fallback) ==
  [from |-> n, to |-> m, via |-> via, fallback |-> fallback, dialer |-> "opening",
   acceptor |-> "requested", up |-> TRUE]

\* n enters or removes m
Enter(n, m, c) == peers' = [peers EXCEPT ![n] = [@ EXCEPT ![m] = c]]

-----------------------------------------------------------------------------
(* The dialer. *)

\* toPeer() past shouldConnect(): the authenticated peer is not listed, the first transport is opened.
Dial(n, m, c, via) ==
  /\ n # m
  /\ Free(links[c])
  /\ ~Has(n, m)
  /\ ~Dialing(n, m)
  /\ links' = [links EXCEPT ![c] = NewLink(n, m, via, FALSE)]
  /\ UNCHANGED peers

\* The transport has not opened: over TCP it does when the request is upgraded, over
\* uTP when the connection arrives.
Unopened(link) ==
  \/ link.acceptor \in {"requested", "refused"}
  \/ link.acceptor = "verifying" /\ link.via = "TCP"

\* The socket opens, add() registers it, or closes it as a duplicate.
DialerOpens(c) ==
  /\ links[c] # None
  /\ links[c].dialer = "opening" /\ ~Unopened(links[c])
  /\ LET n == links[c].from
         m == links[c].to
     IN  \/ /\ Has(n, m)
            /\ links' = [links EXCEPT ![c] = [@ EXCEPT !.dialer = "closed", !.up = FALSE]]
            /\ UNCHANGED peers
         \/ /\ ~Has(n, m)
            /\ links' = [links EXCEPT ![c] = [@ EXCEPT !.dialer = "listed"]]
            /\ Enter(n, m, c)

\* The transport fails or times out, and with it the dial.
DialFails(c) ==
  /\ links[c] # None
  /\ links[c].dialer = "opening"
  /\ links' = [links EXCEPT ![c] = [@ EXCEPT !.dialer = "failed", !.up = FALSE]]
  /\ UNCHANGED peers

\* The first transport fails and the other one is tried, without another look at the table.
FallsBack(c, d) ==
  /\ links[c] # None
  /\ links[c].dialer = "opening" /\ ~links[c].fallback
  /\ LET failed == [links EXCEPT ![c] = [@ EXCEPT !.dialer = "failed", !.up = FALSE]]
     IN  /\ Free(failed[d])
         /\ \E via \in Transport \ {links[c].via} :
              links' = [failed EXCEPT ![d] = NewLink(links[c].from, links[c].to, via, TRUE)]
  /\ UNCHANGED peers

-----------------------------------------------------------------------------
(* The acceptor. *)

\* A connection arrives.  A TCP request of a listed peer is answered with 409; a
\* uTP connection does not say who it is yet.
Arrives(c) ==
  /\ links[c] # None
  /\ links[c].acceptor = "requested" /\ links[c].up
  /\ \/ /\ links[c].via = "TCP" /\ Has(links[c].to, links[c].from)
        /\ links' = [links EXCEPT ![c] = [@ EXCEPT !.acceptor = "refused", !.up = FALSE]]
     \/ /\ links[c].via = "UTP" \/ ~Has(links[c].to, links[c].from)
        /\ links' = [links EXCEPT ![c] = [@ EXCEPT !.acceptor = "verifying"]]
  /\ UNCHANGED peers

\* The proof is awaited: it comes with a TCP request, and over uTP with the greeting
\* that the dialer sends when the transport opens.
Verifiable(c) ==
  /\ links[c].acceptor \in {"verifying", "deaf"}
  /\ links[c].via = "UTP" => links[c].dialer \in {"listed", "closed"}

\* Mutant of AcceptorVerifies: the peer is not looked up again.
AcceptorVerifiesUnchecked(c) ==
  /\ links[c] # None
  /\ Verifiable(c)
  /\ links' = [links EXCEPT ![c].acceptor = IF @ = "deaf" THEN "ghost" ELSE "listed"]
  /\ Enter(links[c].to, links[c].from, c)

\* The dialer has proved its identity: add() registers it, or closes it as a duplicate.
AcceptorVerifies(c) ==
  /\ links[c] # None
  /\ Verifiable(c)
  /\ LET n == links[c].to
         m == links[c].from
     IN  \/ /\ Has(n, m)
            /\ links' = [links EXCEPT ![c] = [@ EXCEPT !.acceptor = "closed", !.up = FALSE]]
            /\ UNCHANGED peers
         \/ /\ ~Has(n, m)
            /\ LET end == IF links[c].acceptor = "deaf" THEN "ghost" ELSE "listed"
               IN  links' = [links EXCEPT ![c] = [@ EXCEPT !.acceptor = end]]
            /\ Enter(n, m, c)

\* No or no valid proof in time: the request is answered with an error, the uTP connection destroyed.
AcceptorRejects(c) ==
  /\ links[c] # None
  /\ links[c].acceptor \in {"verifying", "deaf"}
  /\ links' = [links EXCEPT ![c] =
                 [@ EXCEPT !.acceptor = IF Unopened(links[c]) THEN "refused" ELSE "closed",
                           !.up = FALSE]]
  /\ UNCHANGED peers

-----------------------------------------------------------------------------
(* The end of connections. *)

\* The network fails, or one end closes the connection (ping strikes, timeouts).
Breaks(c) ==
  /\ links[c] # None /\ links[c].up
  /\ links' = [links EXCEPT ![c].up = FALSE]
  /\ UNCHANGED peers

\* n unlists the peer m of a closed connection c, unless another one has its place.
Unlist(n, m, c) ==
  \/ peers[n][m] = c /\ Enter(n, m, None)
  \/ peers[n][m] # c /\ UNCHANGED peers

\* Mutant of DialerHears: the peer stays listed.
DialerHearsKeepsPeer(c) ==
  /\ links[c] # None /\ ~links[c].up
  /\ links[c].dialer = "listed"
  /\ links' = [links EXCEPT ![c].dialer = "closed"]
  /\ UNCHANGED peers

\* The close event at the dialer
DialerHears(c) ==
  /\ links[c] # None /\ ~links[c].up
  /\ links[c].dialer = "listed"
  /\ links' = [links EXCEPT ![c] = [@ EXCEPT !.dialer = "closed"]]
  /\ Unlist(links[c].from, links[c].to, c)

\* The close event at the acceptor.  A uTP connection has no listener for it before it is
\* wrapped in a client, after the authentication; nothing hears it then.
AcceptorHears(c) ==
  /\ links[c] # None /\ ~links[c].up
  /\ \/ /\ links[c].acceptor = "listed"
        /\ links' = [links EXCEPT ![c] = [@ EXCEPT !.acceptor = "closed"]]
        /\ Unlist(links[c].to, links[c].from, c)
     \/ /\ links[c].acceptor = "verifying" /\ links[c].via = "UTP"
        /\ links' = [links EXCEPT ![c] = [@ EXCEPT !.acceptor = "deaf"]]
        /\ UNCHANGED peers

\* What is left of a connection when one of its ends, n, crashes.
Crashed(link, n) ==
  [link EXCEPT
     !.dialer   = IF link.from # n THEN @ ELSE IF @ = "opening" THEN "failed" ELSE "closed",
     !.acceptor = CASE link.to # n -> @
                    [] link.to = n /\ Unopened(link) -> "refused"
                    [] OTHER -> "closed",
     !.up       = FALSE]

\* n crashes and comes back with an empty table.
Restart(n) ==
  /\ peers' = [peers EXCEPT ![n] = [m \in Node |-> None]]
  /\ links' = [c \in Conn |->
       IF links[c] # None /\ n \in {links[c].from, links[c].to}
         THEN Crashed(links[c], n) ELSE links[c]]

-----------------------------------------------------------------------------
DialerStep(c)   == DialerOpens(c) \/ DialFails(c) \/ \E d \in Conn : FallsBack(c, d)
AcceptorStep(c) == AcceptorVerifies(c) \/ AcceptorRejects(c)

Next ==
  \/ \E n, m \in Node, c \in Conn, via \in Transport : Dial(n, m, c, via)
  \/ \E c \in Conn : \/ DialerStep(c)
                     \/ Arrives(c)
                     \/ AcceptorStep(c)
                     \/ Breaks(c)
                     \/ DialerHears(c)
                     \/ AcceptorHears(c)
  \/ \E n \in Node : Restart(n)

Spec == Init /\ [][Next]_vars

\* Every wait of either end has a timeout and a closed connection reports so.  The
\* network, the nodes' dialing and their staying up are owed by nobody.
FairSpec ==
  /\ Spec
  /\ \A c \in Conn : /\ WF_vars(DialerStep(c))
                     /\ WF_vars(AcceptorStep(c))
                     /\ WF_vars(DialerHears(c))
                     /\ WF_vars(AcceptorHears(c))

-----------------------------------------------------------------------------
(* Properties. *)

\* n has registered the connection, to m.
ListedBy(link, n, m) ==
  \/ link.from = n /\ link.to = m /\ link.dialer = "listed"
  \/ link.to = n /\ link.from = m /\ link.acceptor \in {"listed", "ghost"}

\* n has registered c as its connection to m.
Lists(n, m, c) == links[c] # None /\ ListedBy(links[c], n, m)

\* Whatever handshakes race at a node, a registered connection is the one its table
\* names, and the table names no other (the duplicate checks of add()).
TableMatchesLinks ==
  \A n, m \in Node, c \in Conn : Lists(n, m, c) <=> peers[n][m] = c

\* A connection that is up and registered at one end is registered at the other
\* end or about to be: none is left half open.
NoneIsHalfOpen ==
  \A c \in Conn : links[c] # None /\ links[c].up =>
    /\ links[c].dialer = "listed" => links[c].acceptor \in {"verifying", "listed"}
    /\ links[c].acceptor = "listed" => links[c].dialer \in {"opening", "listed"}

\* No handshake is in flight between n and m and no close event on its way.
Quiet(n, m) ==
  \A c \in Conn :
    links[c] # None /\ {links[c].from, links[c].to} = {n, m} =>
      \/ Over(links[c])
      \/ links[c].up /\ links[c].dialer = "listed" /\ links[c].acceptor = "listed"
      \/ links[c].dialer \in {"closed", "failed"} /\ links[c].acceptor = "ghost"

\* n lists m under a uTP connection that closed before n listened to it.
ListsGhost(n, m) == \E c \in Conn : Lists(n, m, c) /\ links[c].acceptor = "ghost"

\* When the dust has settled after dials in both directions, breaks and restarts, two nodes
\* agree on their connection: both list the same one or neither lists the other.  The one
\* exception is a uTP acceptor that lists a connection which closed during its authentication.
QuietTablesAgree ==
  \A n, m \in Node :
    Quiet(n, m) /\ ~ListsGhost(n, m) /\ ~ListsGhost(m, n) => peers[n][m] = peers[m][n]

\* Two nodes do not stay connected twice: a pair of crossed connections, each listed by
\* one side, is dissolved, unless one of them is such a uTP connection.
CrossedConnectionsEnd ==
  \A n, m \in Node :
    LET Crossed == /\ Has(n, m) /\ Has(m, n) /\ peers[n][m] # peers[m][n]
                   /\ ~ListsGhost(n, m) /\ ~ListsGhost(m, n)
    IN  Crossed ~> ~Crossed

=============================================================================
