---------------------------- MODULE MCNodeStartup ----------------------------
(* A node with a hostname and a port to set, a bootstrap peer and another peer. *)
EXTENDS NodeStartup

CONSTANTS ann, bob, myHost, home

MCChoice == [p \in {"hostname", "port"} |-> IF p = "port" THEN {} ELSE {myHost}]

MCDefault == [p \in {"hostname", "port"} |-> IF p = "port" THEN 4545 ELSE myHost]

MCValid == {myHost, home, 4545}

=============================================================================
