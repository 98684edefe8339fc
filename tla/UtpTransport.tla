---------------------------- MODULE UtpTransport ----------------------------
(***************************************************************************)
(* The receiving side of a uTP connection (utp/client.ts): the greeting of *)
(* an inbound peer, its authentication, and the stream of bytes from which *)
(* the messages are cut, at delimiters for a peer that sends them and at   *)
(* closing braces for one of an older version.                             *)
(*                                                                         *)
(* A byte is one that the parser tells apart: a brace, a quote, a          *)
(* backslash, the delimiter, the two bytes of a character outside ASCII,   *)
(* or any other.  The stream hands them over in chunks of any size.        *)
(***************************************************************************)
EXTENDS Naturals, Sequences, SequencesExt

CONSTANTS
  Text,        \* the messages that the other side sends, as sequences of bytes
  Hello,       \* its greeting
  MaxGreeting  \* MAX_GREETING_BYTES

Byte == {"open", "close", "quote", "backslash", "delimiter", "lead", "trail", "other"}
Broken == "replacement"  \* what toString() makes of half a character

ASSUME TransportAssumption ==
  /\ Text \in Seq(Seq(Byte \ {"delimiter"})) /\ Hello \in Seq(Byte \ {"delimiter"})
  /\ MaxGreeting \in Nat

VARIABLES
  peer,      \* the other side: does it greet, does it send delimiters
  phase,     \* where this side is with the connection
  arrived,   \* how many bytes have arrived
  buffer,    \* the greeting's buffer, then receiveBuffer
  delivered, \* the frames that the message handlers were called with
  lost       \* history variable: the messages of which nobody heard a byte

streamVars == <<peer, phase, arrived, buffer, delivered, lost>>

Phase == {"greeting", "authenticating", "client", "handling", "rejected"}

StreamTypeOK ==
  /\ peer \in [greets : BOOLEAN, frames : BOOLEAN]
  /\ phase \in Phase /\ arrived \in Nat
  /\ buffer \in Seq(Byte \cup {Broken})
  /\ delivered \in Seq(Seq(Byte \cup {Broken}))
  /\ lost \subseteq 0..Len(Text)

-----------------------------------------------------------------------------
(* What is sent *)

\* Bytes with the message that they belong to, 0 for the greeting
Owned(bytes, i) == [k \in DOMAIN bytes |-> [byte |-> bytes[k], of |-> i]]

Framed(bytes, i) == Owned(Append(bytes, "delimiter"), i)

Sent ==
  (IF peer.greets THEN Framed(Hello, 0) ELSE <<>>)
  \o FlattenSeq([i \in DOMAIN Text |->
                   IF peer.frames THEN Framed(Text[i], i) ELSE Owned(Text[i], i)])

\* toString() decodes each chunk on its own.
Decoded(bytes) ==
  [k \in DOMAIN bytes |->
    CASE bytes[k] = "lead"  /\ ~ (k < Len(bytes) /\ bytes[k + 1] = "trail") -> Broken
      [] bytes[k] = "trail" /\ ~ (k > 1 /\ bytes[k - 1] = "lead") -> Broken
      [] OTHER -> bytes[k]]

Chunk(n) == [k \in 1..n |-> Sent[arrived + k].byte]

-----------------------------------------------------------------------------
(* Framing *)

\* Mutant of CutAt: empty parts are frames as well.
CutAtEvery(s, c) ==
  IF c # "delimiter" THEN [s EXCEPT !.rest = Append(@, c)]
  ELSE [frames |-> Append(s.frames, s.rest), rest |-> <<>>]

\* A byte is read: a part that ends in a delimiter is a frame, unless it is empty.
CutAt(s, c) ==
  IF c # "delimiter" THEN [s EXCEPT !.rest = Append(@, c)]
  ELSE IF s.rest = <<>> THEN s
  ELSE [frames |-> Append(s.frames, s.rest), rest |-> <<>>]

\* The frames in b and what follows the last delimiter
Cut(b) ==
  LET cut[k \in 0..Len(b)] ==
        IF k = 0 THEN [frames |-> <<>>, rest |-> <<>>] ELSE CutAt(cut[k - 1], b[k])
  IN  cut[Len(b)]

\* The parser between two messages: nothing but white space is passed over.
BetweenFrames(s, b, i) ==
  CASE b[i] = "open"      -> [s EXCEPT !.start = i, !.depth = 1]
    [] b[i] = "delimiter" -> s
    [] OTHER              -> [s EXCEPT !.start = i, !.mode = "stuck"]

\* Within a message: inString and escaped are modes; braces in strings do not count,
\* nor escaped quotes.
InFrame(s, b, i) ==
  CASE s.mode = "escaped"                        -> [s EXCEPT !.mode = "string"]
    [] s.mode = "string" /\ b[i] = "backslash"   -> [s EXCEPT !.mode = "escaped"]
    [] s.mode = "string" /\ b[i] = "quote"       -> [s EXCEPT !.mode = "plain"]
    [] s.mode = "plain" /\ b[i] = "quote"        -> [s EXCEPT !.mode = "string"]
    [] s.mode = "plain" /\ b[i] = "open"         -> [s EXCEPT !.depth = @ + 1]
    [] s.mode = "plain" /\ b[i] = "close" /\ s.depth > 1 -> [s EXCEPT !.depth = @ - 1]
    [] s.mode = "plain" /\ b[i] = "close" /\ s.depth = 1 ->
         [s EXCEPT !.depth = 0, !.frames = Append(@, SubSeq(b, s.start, i))]
    [] OTHER -> s

ParseAt(s, b, i) ==
  IF s.mode = "stuck" THEN s
  ELSE IF s.depth = 0 THEN BetweenFrames(s, b, i) ELSE InFrame(s, b, i)

\* The states of the parser, by the number of bytes it has read
Scan(b) ==
  LET scan[k \in 0..Len(b)] ==
        IF k = 0 THEN [frames |-> <<>>, start |-> 1, depth |-> 0, mode |-> "plain"]
        ELSE ParseAt(scan[k - 1], b, k)
  IN  scan

Parsed(b) == Scan(b)[Len(b)]

\* The text of an object: the parser is in the midst of it until it has read the last byte.
IsObject(t) ==
  /\ t # <<>>
  /\ \A k \in DOMAIN t : LET s == Scan(t)[k] IN s.mode # "stuck" /\ (s.depth = 0 <=> k = Len(t))

\* What is sent is the JSON of objects, and none of these is a greeting.
ASSUME TextAssumption == \A i \in DOMAIN Text : IsObject(Text[i]) /\ Text[i] # Hello

LegacyRest(b) ==
  LET s == Parsed(b) IN
  CASE s.frames = <<>> -> b
    [] s.frames # <<>> /\ (s.mode = "stuck" \/ s.depth > 0) -> SubSeq(b, s.start, Len(b))
    [] s.frames # <<>> /\ s.mode # "stuck" /\ s.depth = 0 -> <<>>

\* flushFrames(); flushLegacyJsonFrames()
Flush(b) ==
  LET framed == Cut(b) IN
  /\ delivered' = delivered \o framed.frames \o Parsed(framed.rest).frames
  /\ buffer' = LegacyRest(framed.rest)

-----------------------------------------------------------------------------
(* The connection *)

\* An inbound connection has to greet; one that this side made does not.
StreamInit ==
  /\ peer \in [greets : BOOLEAN, frames : BOOLEAN]
  /\ phase \in {"greeting"} \cup IF peer.greets THEN {} ELSE {"client"}
  /\ arrived = 0 /\ buffer = <<>> /\ delivered = <<>> /\ lost = {}

BytesArrive(n) ==
  /\ n <= Len(Sent) - arrived
  /\ arrived' = arrived + n
  /\ UNCHANGED peer

Greeted(b) == \E i \in DOMAIN b : b[i] = "delimiter"
FirstFrame(b) == CHOOSE i \in DOMAIN b : b[i] = "delimiter" /\ \A j \in 1..(i - 1) : b[j] # "delimiter"

\* The first frame has to be the greeting.
Greet(b) ==
  IF SubSeq(b, 1, FirstFrame(b) - 1) = Hello
  THEN phase' = "authenticating" /\ buffer' = SubSeq(b, FirstFrame(b) + 1, Len(b))
  ELSE phase' = "rejected" /\ buffer' = <<>>

\* A first chunk that is too long is refused, though the greeting in it is short.
GreetingArrives(n) ==
  LET b == buffer \o Decoded(Chunk(n)) IN
  /\ phase = "greeting" /\ BytesArrive(n)
  /\ CASE Len(b) > MaxGreeting -> phase' = "rejected" /\ buffer' = <<>>
       [] Len(b) <= MaxGreeting /\ ~ Greeted(b) -> buffer' = b /\ UNCHANGED phase
       [] Len(b) <= MaxGreeting /\ Greeted(b) -> Greet(b)
  /\ UNCHANGED <<delivered, lost>>

\* The greeting timed out, or the peer's server did not authenticate.
Reject ==
  /\ phase \in {"greeting", "authenticating"}
  /\ phase' = "rejected" /\ buffer' = <<>>
  /\ UNCHANGED <<peer, arrived, delivered, lost>>

\* Between the greeting and the end of the authentication no one listens for data.
ArrivesUnheard(n) ==
  /\ phase = "authenticating" /\ BytesArrive(n)
  /\ lost' = lost \cup {Sent[arrived + k].of : k \in 1..n}
  /\ UNCHANGED <<phase, buffer, delivered>>

Authenticated ==
  /\ phase = "authenticating"
  /\ phase' = "client"
  /\ UNCHANGED <<peer, arrived, buffer, delivered, lost>>

\* Mutant of OnMessage: what has arrived before is left for the next chunk.
OnMessageLater ==
  /\ phase = "client"
  /\ phase' = "handling"
  /\ UNCHANGED <<peer, arrived, buffer, delivered, lost>>

\* The node registers its handler, which is given what has arrived before.
OnMessage ==
  /\ phase = "client"
  /\ phase' = "handling"
  /\ Flush(buffer)
  /\ UNCHANGED <<peer, arrived, lost>>

HandleData(n) ==
  /\ phase \in {"client", "handling"} /\ BytesArrive(n)
  /\ LET b == buffer \o Decoded(Chunk(n)) IN
       IF phase = "client" THEN buffer' = b /\ UNCHANGED delivered ELSE Flush(b)
  /\ UNCHANGED <<phase, lost>>

StreamNext ==
  \/ \E n \in 1..Len(Sent) : GreetingArrives(n) \/ ArrivesUnheard(n) \/ HandleData(n)
  \/ Reject \/ Authenticated \/ OnMessage

StreamSpec == StreamInit /\ [][StreamNext]_streamVars

-----------------------------------------------------------------------------
(* Properties *)

\* Frame f is message i, but for characters that a chunk has split.
IsMessage(f, i) ==
  /\ Len(f) = Len(Text[i])
  /\ \A k \in DOMAIN f : \/ f[k] = Text[i][k]
                         \/ f[k] = Broken /\ Text[i][k] \in {"lead", "trail"}

IsDelivered(i) == \E k \in DOMAIN delivered : IsMessage(delivered[k], i)

\* However the stream is cut into chunks: unless bytes arrived while the peer was being
\* authenticated, the handlers get the messages in the order in which they were sent,
\* each once and nothing else, and none is missing when everything has arrived.
MessagesComeInOrder ==
  lost = {} =>
    /\ \A k \in DOMAIN delivered : k \in DOMAIN Text /\ IsMessage(delivered[k], k)
    /\ phase = "handling" /\ arrived = Len(Sent) => Len(delivered) = Len(Text)

\* Whatever was lost, messages come in their order and at most once.  Once all has
\* arrived, every message has been handled; or bytes that nobody heard were its own or
\* those of the message before, or, as a peer that sends no delimiters gives no way to
\* find the next message, of any one before.
LossStaysLocal ==
  /\ \A i, j \in DOMAIN Text : \A k, l \in DOMAIN delivered :
       IsMessage(delivered[k], i) /\ IsMessage(delivered[l], j) => (k < l <=> i < j)
  /\ phase = "handling" /\ arrived = Len(Sent) =>
       \A i \in DOMAIN Text :
         \/ IsDelivered(i)
         \/ peer.frames /\ lost \cap {i - 1, i} # {}
         \/ ~ peer.frames /\ \E j \in lost : j <= i
=============================================================================
