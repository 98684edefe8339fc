------------------------------- MODULE Search -------------------------------
(***************************************************************************)
(* A search of the node (Node.search): what its own plugins and its cache  *)
(* answer (MetadataManager), what its peers answer (requestAll), and how   *)
(* the two are put together.  Records found by plugins and records sent by *)
(* peers share the tables of the database, and a peer's records are also   *)
(* the votes that decide which id stands for a soul.                       *)
(*                                                                         *)
(* There is one plugin.  Artists are searched for by name, and the tracks  *)
(* of an artist by its soul; albums take the same code.  A record is what  *)
(* tells results apart: an artist's id and soul, a track's id; and an      *)
(* artist's confidence, from -1 to 1 and set by its sender, weighs a vote. *)
(***************************************************************************)
EXTENDS Integers, FiniteSets, Sequences, SequencesExt, FiniteSetsExt

CONSTANTS
  Peer,      \* the addresses of peers
  Artist,    \* ids of artists
  Track,     \* ids of tracks
  Soul,      \* soul ids
  Contested, \* the souls that searches, and the records of peers, are about
  SoulOf,    \* the soul this node computes for an artist's id
  Catalogue, \* the artists that the plugin's service knows
  Confidence, \* the confidences that occur, as multiples of 1/Full
  Full,      \* the number that stands for confidence 1
  MaxFound,  \* how many results a plugin finds
  MaxRows,   \* how many records the tables may hold
  NoId       \* no artist's id

\* What ever occurs is finite; which records they are does not matter.
ASSUME ConstantsAssumption ==
  /\ SoulOf \in [Artist -> Soul] /\ Contested \subseteq Soul /\ Catalogue \subseteq Artist
  /\ IsFiniteSet(Peer) /\ IsFiniteSet(Artist) /\ IsFiniteSet(Track) /\ IsFiniteSet(Soul)
  /\ Full \in Nat \ {0} /\ Confidence \subseteq -Full..Full /\ Full \in Confidence
  /\ MaxFound \in Nat

Own == "0x0"   \* the address of records that the node's own plugin found
Address == Peer \cup {Own}
ArtistRow == [id : Artist, soul : Soul, confidence : Confidence, address : Address]
TrackRow  == [id : Track, address : Address]

VARIABLES
  artists,   \* the artists table: one row per id and address
  tracks,    \* the tracks table
  table,     \* the addresses that are connected
  pc,        \* how far the search is: "idle", "fetching", "asking", "done" or "failed"
  query,     \* "names", or the soul whose tracks are searched for
  chosen,    \* the id that is looked up for the soul
  cached,    \* the rows read from the cache before the plugin answers
  fetched,   \* what the plugin found, in order
  local,     \* the results of the node itself, in order, while peers are asked
  todo,      \* the peers still to be asked, the first of them being asked
  found,     \* the contents that peers have answered
  result,    \* the contents returned
  unasked    \* history variable: peers connected ever since, and not asked yet

searchVars == <<pc, query, chosen, cached, fetched, local, todo, found, result, unasked>>
vars == <<artists, tracks, table, searchVars>>

\* What is hashed: a result without its address and confidence
Content(row) == IF query = "names" THEN [id |-> row.id, soul |-> row.soul] ELSE [id |-> row.id]
Contents == [id : Artist, soul : Soul] \cup [id : Track]

TypeOK ==
  /\ artists \subseteq ArtistRow
  /\ \A r, s \in artists : r.id = s.id /\ r.address = s.address => r = s
  /\ tracks \subseteq TrackRow
  /\ table \subseteq Peer
  /\ pc \in {"idle", "fetching", "asking", "done", "failed"}
  /\ query \in Soul \cup {"names"}
  /\ chosen \in Artist \cup {NoId}
  /\ cached \subseteq ArtistRow
  /\ fetched \in Seq(ArtistRow \cup TrackRow)
  /\ local \in Seq(ArtistRow \cup TrackRow)
  /\ todo \in Seq(Peer)
  /\ found \cup result \subseteq Contents
  /\ unasked \subseteq Peer

Init ==
  /\ artists = {} /\ tracks = {} /\ table = {}
  /\ pc = "idle" /\ query = "names" /\ chosen = NoId
  /\ cached = {} /\ fetched = <<>> /\ local = <<>> /\ todo = <<>>
  /\ found = {} /\ result = {} /\ unasked = {}

-----------------------------------------------------------------------------
(* The tables *)

OwnArtist(i) == [id |-> i, soul |-> SoulOf[i], confidence |-> Full, address |-> Own]
OwnTrack(i) == [id |-> i, address |-> Own]
Tracks(ids, a) == {[id |-> i, address |-> a] : i \in ids}

\* upsertFromPlugin, upsertFromPeer: the new rows replace those of the same
\* id and address.
Upserted(rows, new) ==
  {r \in rows : ~ \E n \in new : n.id = r.id /\ n.address = r.address} \cup new

Room == Cardinality(artists') + Cardinality(tracks') <= MaxRows   \* a bound of the model

\* What a peer may answer to a search for artists.  Of two records of one id,
\* the later stays.
ClaimsOf(p) == [id : Artist, soul : Contested, confidence : Confidence, address : {p}]
Claims(p) == {rows \in SUBSET ClaimsOf(p) : \A r, s \in rows : r.id = s.id => r = s}

Matches(p) ==
  Cardinality({r \in artists : r.address = p /\ \E o \in artists : o.address = Own /\ o.id = r.id})
  + Cardinality({r \in tracks : r.address = p /\ \E o \in tracks : o.address = Own /\ o.id = r.id})
Records(p) ==
  Cardinality({r \in artists : r.address = p}) + Cardinality({r \in tracks : r.address = p})

\* What a plugin may find, by name or by an artist's id: the list that its
\* service answers, in which a result may be repeated, or nothing when the
\* call fails in any way.
NothingFound == <<>>
NamesFound == {NothingFound} \cup SeqOf(Catalogue, MaxFound)
TracksFound(id) == {NothingFound} \cup IF id = NoId THEN {} ELSE SeqOf(Track, MaxFound)

\* lookupByArtistIds(): no track is stored with the id of its artist, so that
\* a lookup of an id has no rows; a lookup without ids has no condition.
CachedTracks(id) == IF id = NoId THEN tracks ELSE {}

-----------------------------------------------------------------------------
(* Which id stands for a soul *)

Candidates(s) == {r \in artists : r.soul = s}

\* getConfidence(), doubled and less 1, as a fraction: a peer that is not
\* connected, or has no records, has confidence 0.
Trust(p) ==
  IF p \in table /\ Records(p) > 0
  THEN [num |-> 2 * Matches(p) - Records(p), den |-> Records(p)]
  ELSE [num |-> -1, den |-> 1]

Votes(s, id) == {r \in Candidates(s) : r.id = id}

\* Mutant of Score: the votes are not weighed about the middle.
ScoreByCount(s, id) == [num |-> Cardinality(Votes(s, id)), den |-> 1]

\* computeConfidence(), up to a monotonic map: the mean of the votes, each
\* weighed by the confidence its record claims, with one neutral vote added.
\* The weights may be negative, and add up to nothing.
Score(s, id) ==
  LET Plus(r, sum) == LET t == Trust(r.address)
                      IN  [num |-> sum.num * t.den + r.confidence * t.num * sum.den,
                           den |-> sum.den * t.den,
                           weight |-> sum.weight + r.confidence]
      total == FoldSet(Plus, [num |-> 0, den |-> 1, weight |-> Full], Votes(s, id))
  IN  IF total.weight < 0
      THEN [num |-> - total.num, den |-> total.den * (- total.weight)]
      ELSE [num |-> total.num, den |-> total.den * total.weight]

\* x < y for numbers of JavaScript: without a denominator, a score is
\* infinite, or compares with nothing.
Beaten(x, y) ==
  \/ x.num * y.den < y.num * x.den
  \/ x.den = 0 /\ y.den = 0 /\ x.num < 0 /\ 0 < y.num

\* The node's own id, or one that no other beats, whichever comes first in the
\* table; NoId if there is none
IdsFor(s) ==
  LET own == {r.id : r \in {c \in Candidates(s) : c.address = Own}}
      ids == {r.id : r \in Candidates(s)}
  IN  IF ids = {} THEN {NoId}
      ELSE IF own # {} THEN own
      ELSE {i \in ids : \A j \in ids : ~ Beaten(Score(s, i), Score(s, j))}

-----------------------------------------------------------------------------
(* Putting results together *)

\* Mutant of Following: the loop ends at the first peer that has gone.
FollowingUntilGone(peers, connected) ==
  IF peers # <<>> /\ Head(peers) \in connected THEN peers ELSE <<>>

\* Mutant of Following: a peer that has gone is asked all the same.
FollowingUnchecked(peers, connected) == peers

\* The peers left to ask, once those that have gone are skipped.
Following(peers, connected) ==
  LET there == {i \in DOMAIN peers : peers[i] \in connected}
  IN  IF there = {} THEN <<>> ELSE SubSeq(peers, Min(there), Len(peers))

\* By what a cached result is recognised as one of the node's own
Key(row) == IF query = "names" THEN row.soul ELSE row.id

\* The cached rows that none of the node's own results replaces
Kept(own, old) ==
  {r \in old : ~ \E o \in ToSet(own) : o.address = r.address /\ Key(o) = Key(r)}

\* Mutant of Merged: what is cached comes first.
MergedCacheFirst(own, old) == SetToSeq(Kept(own, old)) \o own

\* The node's own results first, then the cached ones
Merged(own, old) == own \o SetToSeq(Kept(own, old))

\* The local results are put back by their index into the set of their
\* contents: as many of them as there are contents, each in the place of one.
Together(answers, own) ==
  LET contents == [i \in DOMAIN own |-> Content(own[i])]
  IN  (answers \ ToSet(contents))
      \cup {contents[i] : i \in 1..Cardinality(ToSet(contents))}

\* With what the peers left to ask, the search goes on or ends.
Continue(peers, answers, own) ==
  /\ todo' = peers
  /\ IF peers = <<>>
     THEN /\ pc' = "done" /\ found' = {} /\ local' = <<>>
          /\ result' = Together(answers, own)
     ELSE /\ pc' = "asking" /\ found' = answers /\ local' = own
          /\ UNCHANGED result

-----------------------------------------------------------------------------
(* The search *)

Begin ==
  /\ pc \in {"idle", "done", "failed"}
  /\ pc' = "fetching"
  /\ fetched' = <<>> /\ local' = <<>> /\ result' = {}

\* searchArtists(): the cache is read while the plugin is asked.
SearchNames ==
  /\ Begin
  /\ query' = "names" /\ chosen' = NoId
  /\ cached' = artists
  /\ UNCHANGED <<artists, tracks, table, todo, found, unasked>>

\* artistTracks(): the plugin is asked for the tracks of the id that stands
\* for the soul.
SearchSoul ==
  /\ Begin
  /\ query' \in Contested
  /\ chosen' \in IdsFor(query')
  /\ cached' = {}
  /\ UNCHANGED <<artists, tracks, table, todo, found, unasked>>

\* The results of the node are complete; the peers that are connected now are
\* asked, one after the other.
AskPeers(own, old) ==
  LET peers == SetToSeq(table)
  IN  /\ fetched' = own
      /\ Continue(peers, {}, Merged(own, old))
      /\ unasked' = IF peers = <<>> THEN {} ELSE table \ {Head(peers)}
      /\ chosen' = NoId /\ cached' = {}
      /\ UNCHANGED <<table, query>>

NamesFetched ==
  /\ pc = "fetching" /\ query = "names"
  /\ \E ids \in NamesFound :
       LET own == [i \in DOMAIN ids |-> OwnArtist(ids[i])]
       IN  /\ artists' = Upserted(artists, ToSet(own)) /\ UNCHANGED tracks /\ Room
           /\ AskPeers(own, cached)

TracksFetched ==
  /\ pc = "fetching" /\ query # "names"
  /\ \E ids \in TracksFound(chosen) :
       LET own == [i \in DOMAIN ids |-> OwnTrack(ids[i])]
       IN  /\ tracks' = Upserted(tracks, ToSet(own)) /\ UNCHANGED artists /\ Room
           /\ AskPeers(own, CachedTracks(chosen))

\* The request to the peer that is being asked settles, with its response or,
\* after a timeout, with nothing; the next peer that is connected is asked.
Settled(connected, answers) ==
  LET peers == Following(Tail(todo), connected)
  IN  /\ Continue(peers, found \cup answers, local)
      /\ unasked' = (unasked \cap connected) \ (IF peers = <<>> THEN {} ELSE {Head(peers)})

Answered ==
  /\ pc = "asking" /\ Head(todo) \in table
  /\ \/ /\ query = "names"
        /\ \E rows \in Claims(Head(todo)) :
             /\ artists' = Upserted(artists, rows) /\ UNCHANGED tracks /\ Room
             /\ Settled(table, {Content(r) : r \in rows})
     \/ /\ query # "names"
        /\ \E ids \in SUBSET Track :
             /\ tracks' = Upserted(tracks, Tracks(ids, Head(todo))) /\ UNCHANGED artists /\ Room
             /\ Settled(table, {Content(r) : r \in Tracks(ids, Head(todo))})
  /\ UNCHANGED <<table, query, chosen, cached, fetched>>

\* A response may be of another type than its request.  Its first record then
\* has not the fields that are stored: the search throws, nothing is stored
\* and nobody else is asked.
AnsweredAmiss ==
  /\ pc = "asking" /\ Head(todo) \in table
  /\ pc' = "failed" /\ todo' = <<>> /\ found' = {} /\ local' = <<>> /\ fetched' = <<>>
  /\ unasked' = {}
  /\ UNCHANGED <<artists, tracks, table, query, chosen, cached, result>>

-----------------------------------------------------------------------------
(* What else goes on *)

Join(p) ==
  /\ p \notin table
  /\ table' = table \cup {p}
  /\ UNCHANGED <<artists, tracks, searchVars>>

\* The close of a connection settles the requests sent over it.
Leave(p) ==
  /\ p \in table
  /\ table' = table \ {p}
  /\ IF pc = "asking" /\ Head(todo) = p
     THEN Settled(table', {})
     ELSE /\ unasked' = unasked \ {p}
          /\ UNCHANGED <<pc, todo, local, found, result>>
  /\ UNCHANGED <<artists, tracks, query, chosen, cached, fetched>>

\* A search that warms up a new peer is answered, here with one record.
Warmed(p) ==
  /\ p \in table
  /\ \/ /\ \E row \in ClaimsOf(p) : artists' = Upserted(artists, {row})
        /\ UNCHANGED tracks
     \/ /\ \E row \in [id : Track, address : {p}] : tracks' = Upserted(tracks, {row})
        /\ UNCHANGED artists
  /\ UNCHANGED <<table, searchVars>> /\ Room

\* A search that the node does for a peer finds something.
Served ==
  /\ \/ /\ \E id \in Catalogue : artists' = Upserted(artists, {OwnArtist(id)})
        /\ UNCHANGED tracks
     \/ /\ \E id \in Track : tracks' = Upserted(tracks, {OwnTrack(id)})
        /\ UNCHANGED artists
  /\ UNCHANGED <<table, searchVars>> /\ Room

Next ==
  \/ SearchNames \/ SearchSoul
  \/ NamesFetched \/ TracksFetched
  \/ Answered \/ AnsweredAmiss
  \/ \E p \in Peer : Join(p) \/ Leave(p) \/ Warmed(p)
  \/ Served

\* A plugin's fetch ends, and a request has a timeout.
Fairness == WF_vars(NamesFetched) /\ WF_vars(TracksFetched) /\ WF_vars(Answered)

Spec == Init /\ [][Next]_vars /\ Fairness

-----------------------------------------------------------------------------
(* Properties *)

\* What the node's own plugin has just found is among the results, whatever
\* the cache and the peers hold.  Putting local results back by their index
\* into the set of their contents (Node.search) loses those at a place beyond
\* the number of contents: never one of the first as many as the plugin found
\* different ones, which are all if the plugin repeats none.
OwnResultsAreReturned ==
  pc = "done" => \A i \in 1..Cardinality(ToSet(fetched)) : Content(fetched[i]) \in result

\* A search that returns has asked every peer that has been connected since
\* the node began to ask, though peers leave and come back between two answers
\* (requestAll).  It does not return when a peer's answer is of another type.
EveryPeerIsAsked == pc = "done" => unasked = {}

\* The id has only been sent by peers of confidence less than 1/2, or by peers
\* that have gone, all with a positive confidence of the record.
Doubtful(s, id) ==
  \A v \in Votes(s, id) : v.address # Own /\ Trust(v.address).num < 0 /\ v.confidence > 0

\* The id is the node's own, or has only been sent by peers of confidence 1/2 or
\* more, none with a negative confidence of the record.
Solid(s, id) ==
  \A v \in Votes(s, id) : v.address = Own \/ (Trust(v.address).num >= 0 /\ v.confidence >= 0)

\* Which id is taken for a soul (matchId, computeConfidence): however many
\* distrusted peers have sent an id, it is not taken when trusted peers alone
\* have sent another one.  The condition on records matters: with a negative
\* confidence, a distrusted peer's vote counts in favour.
TrustedVotesWin ==
  \A s \in Soul : \A bad, good \in Candidates(s) :
    Doubtful(s, bad.id) /\ Solid(s, good.id) => bad.id \notin IdsFor(s)

\* Every search ends, if only with an error: the close of a connection and the
\* timeout of a request leave none waiting (requestAll, RequestManager).
SearchesEnd == pc = "fetching" ~> pc \in {"done", "failed"}

=============================================================================
