------------------------- MODULE MCPeerConnections -------------------------
(***************************************************************************)
(* Small instances of PeerConnections.  The node "me" has a peer "p" with  *)
(* the public hostname hp, which is also reachable over the local route    *)
(* lan; a second node "q" behind the NAT of p dials in and claims the      *)
(* hostname hp too.  The node itself also answers under a second public    *)
(* name, alias.                                                            *)
(***************************************************************************)
EXTENDS PeerConnections, TLC

CONSTANTS me, hp, lan, alias, ui, p, q, self, api

MCAdvertised ==
  [h \in Host \ {ApiHost} |->
     CASE h \in {me, alias} -> [address |-> self, hostname |-> me]
       [] OTHER             -> [address |-> p, hostname |-> hp]]

MCSharedName == {[address |-> p, hostname |-> hp], [address |-> q, hostname |-> hp]}

\* A node that was given the hostname of "me" by mistake greets with it over uTP, and
\* "me", asked for that hostname's proof, gives its own.
MCPeerAndTwin == {[address |-> p, hostname |-> hp], [address |-> self, hostname |-> me]}

SocketSymmetry == Permutations(Socket)

=============================================================================
