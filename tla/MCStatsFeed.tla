---------------------------- MODULE MCStatsFeed ----------------------------
(* A page and two messages, one of them to the global chat, for StatsFeed.   *)
EXTENDS StatsFeed

CONSTANTS m1, m2

=============================================================================
