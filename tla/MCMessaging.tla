----------------------------- MODULE MCMessaging -----------------------------
(* Networks of two or three nodes for Messaging. *)
EXTENDS Messaging

CONSTANTS alice, bob, rita, hello, again, answer

\* Everyone can connect to everyone.
TriangleLink == {{alice, rita}, {rita, bob}, {alice, bob}}

DirectLink == {{alice, bob}}

\* alice writes to bob, once or twice, and bob to alice.
LetterFrom == [e \in Envelope |-> IF e = answer THEN bob ELSE alice]
LetterTo   == [e \in Envelope |-> IF e = answer THEN alice ELSE bob]

=============================================================================
