--------------------------- MODULE MCUtpTransport ---------------------------
(***************************************************************************)
(* A greeting and three messages: one whose string holds braces and an     *)
(* escaped quote, an object in an object, and a text outside ASCII.        *)
(***************************************************************************)
EXTENDS UtpTransport

MCHello == <<"open", "other", "close">>
MCText == << <<"open", "quote", "close", "backslash", "quote", "open", "quote", "close">>,
             <<"open", "open", "close", "close">>,
             <<"open", "quote", "lead", "trail", "quote", "close">> >>
=============================================================================
