---------------------------- MODULE SearchProofs ----------------------------
(***************************************************************************)
(* Proofs about Search, for any peers, records and souls: what the node's  *)
(* own plugin found is returned, every peer that stays is asked, and the   *)
(* votes of peers that are not trusted do not outdo those of trusted ones. *)
(***************************************************************************)
EXTENDS Search, FiniteSetTheorems, SequenceTheorems, TLAPS

-----------------------------------------------------------------------------
(* Sequences and sets. *)

\* A set of natural numbers has a least element: of the intervals that end in one of its
\* elements, one is contained in all others.
LEMMA LeastExists ==
  ASSUME NEW S \in SUBSET Nat, S # {}
  PROVE  Min(S) \in S /\ \A n \in S : Min(S) =< n
<1> DEFINE intervals == {0..n : n \in S}
<1>1. intervals \subseteq FiniteSubsetsOf(Nat) /\ intervals # {}
  <2>1. \A n \in S : 0..n \in SUBSET Nat /\ IsFiniteSet(0..n)
    BY FS_Interval
  <2> QED BY <2>1 DEF FiniteSubsetsOf
<1>2. PICK x \in intervals : \A y \in intervals : <<y, x>> \notin StrictSubsetOrdering(Nat)
  <2>1. IsWellFoundedOn(StrictSubsetOrdering(Nat), FiniteSubsetsOf(Nat))
    BY FS_StrictSubsetOrderingWellFounded
  <2> QED BY <1>1, <2>1, WFMin
<1>3. PICK m \in S : x = 0..m
  BY <1>2
<1>4. ASSUME NEW n \in S, n < m PROVE FALSE
  <2>1. 0..n \in intervals /\ <<0..n, x>> \notin StrictSubsetOrdering(Nat)
    BY <1>2
  <2>2. 0..n \in SUBSET Nat /\ 0..m \in SUBSET Nat /\ 0..n \subseteq 0..m
    BY <1>4
  <2>3. m \in 0..m /\ m \notin 0..n
    BY <1>4
  <2> QED BY <1>3, <2>1, <2>2, <2>3 DEF StrictSubsetOrdering
<1>5. \A n \in S : m =< n
  BY <1>4
<1> QED BY <1>5 DEF Min

\* SetToSeq lists a finite set.
LEMMA SetToSeqLists ==
  ASSUME NEW T, NEW S \in SUBSET T, IsFiniteSet(S)
  PROVE  /\ SetToSeq(S) \in Seq(T)
         /\ Len(SetToSeq(S)) = Cardinality(S) /\ Cardinality(S) \in Nat
         /\ \A x \in S : \E i \in 1..Cardinality(S) : SetToSeq(S)[i] = x
         /\ \A i \in 1..Cardinality(S) : SetToSeq(S)[i] \in S
<1> DEFINE n == Cardinality(S)
           Lists(f) == f \in [1..n -> S] /\ IsInjective(f)
<1>1. n \in Nat /\ \E f : Lists(f)
  BY FS_CardinalityType DEF ExistsBijection, Bijection, Injection
<1>2. Lists(SetToSeq(S))
  BY <1>1 DEF SetToSeq
<1> DEFINE f == SetToSeq(S)
<1> HIDE DEF f
<1>3. f \in [1..n -> S] /\ IsInjective(f)
  BY <1>2 DEF f
<1>4. IsFiniteSet(1..n) /\ Cardinality(1..n) = n
  BY <1>1, FS_Interval
<1>5. f \in Injection(1..n, S)
  BY <1>3 DEF Injection
<1>6. f \in Surjection(1..n, S)
  BY <1>4, <1>5, FS_Injection
<1>7. f \in Seq(T) /\ Len(f) = n
  BY <1>1, <1>3
<1> QED BY <1>1, <1>3, <1>6, <1>7 DEF Surjection, f

\* The peers left to ask: nobody who is there is skipped, the first one is there.
LEMMA FollowingSkipsTheGone ==
  ASSUME NEW S, NEW peers \in Seq(S), NEW connected
  PROVE  LET rest == Following(peers, connected)
         IN  /\ rest \in Seq(S)
             /\ ToSet(peers) \cap connected \subseteq ToSet(rest)
             /\ rest # <<>> => Head(rest) \in connected
<1> DEFINE there == {i \in DOMAIN peers : peers[i] \in connected}
           rest == Following(peers, connected)
<1>1. there \subseteq Nat /\ there \subseteq 1..Len(peers)
  OBVIOUS
<1>2. CASE there = {}
  <2>1. rest = <<>> BY <1>2 DEF Following
  <2>2. ToSet(peers) \cap connected = {} BY <1>2 DEF ToSet
  <2> QED BY <2>1, <2>2
<1>3. CASE there # {}
  <2> DEFINE m == Min(there)
  <2>1. m \in there /\ \A i \in there : m =< i
    BY <1>1, <1>3, LeastExists
  <2>2. rest = SubSeq(peers, m, Len(peers))
    BY <1>3 DEF Following
  <2> HIDE DEF m, rest
  <2>3. m \in 1..Len(peers) /\ peers[m] \in connected
    BY <2>1
  <2>4. /\ rest \in Seq(S) /\ Len(rest) = Len(peers) - m + 1
        /\ \A i \in 1..(Len(peers) - m + 1) : rest[i] = peers[m + i - 1]
    BY <2>2, <2>3, SubSeqProperties
  <2>5. rest # <<>> /\ Head(rest) = peers[m]
    BY <2>3, <2>4
  <2>6. ASSUME NEW x \in ToSet(peers) \cap connected PROVE x \in ToSet(rest)
    <3>1. PICK i \in 1..Len(peers) : peers[i] = x BY DEF ToSet
    <3>2. i \in there BY <3>1
    <3>3. i - m + 1 \in 1..Len(rest) /\ rest[i - m + 1] = x
      BY <2>1, <2>3, <2>4, <3>1, <3>2
    <3>4. i - m + 1 \in DOMAIN rest BY <2>4, <3>3
    <3> QED BY <3>3, <3>4 DEF ToSet
  <2>7. ToSet(peers) \cap connected \subseteq ToSet(rest) BY <2>6
  <2> QED BY <2>3, <2>4, <2>5, <2>7 DEF rest
<1> QED BY <1>2, <1>3

\* A list is its first element and the rest.
LEMMA HeadAndTail ==
  ASSUME NEW S, NEW s \in Seq(S), s # <<>>
  PROVE  /\ Head(s) \in S /\ Tail(s) \in Seq(S)
         /\ ToSet(s) = {Head(s)} \cup ToSet(Tail(s))
<1>1. Head(s) = s[1] /\ Len(s) \in Nat \ {0} /\ DOMAIN s = 1..Len(s)
  OBVIOUS
<1>2. /\ Tail(s) \in Seq(S) /\ Len(Tail(s)) = Len(s) - 1
      /\ DOMAIN Tail(s) = 1..(Len(s) - 1)
      /\ \A i \in 1..(Len(s) - 1) : Tail(s)[i] = s[i + 1]
  BY HeadTailProperties
<1>3. \A i \in 1..Len(s) : i = 1 \/ (i - 1 \in 1..(Len(s) - 1) /\ (i - 1) + 1 = i)
  BY <1>1
<1>4. \A i \in 1..(Len(s) - 1) : i + 1 \in 1..Len(s) /\ 1 \in 1..Len(s)
  BY <1>1
<1>5. ASSUME NEW x \in ToSet(s) PROVE x \in {Head(s)} \cup ToSet(Tail(s))
  <2>1. PICK i \in 1..Len(s) : s[i] = x BY <1>1 DEF ToSet
  <2>2. CASE i # 1
    <3>1. i - 1 \in 1..(Len(s) - 1) /\ Tail(s)[i - 1] = x BY <1>2, <1>3, <2>1, <2>2
    <3> QED BY <1>2, <3>1 DEF ToSet
  <2> QED BY <1>1, <2>1, <2>2
<1>6. \A x \in ToSet(Tail(s)) : x \in ToSet(s)
  BY <1>1, <1>2, <1>4 DEF ToSet
<1>7. Head(s) \in ToSet(s) /\ Head(s) \in S
  BY <1>1 DEF ToSet
<1> QED BY <1>2, <1>5, <1>6, <1>7

-----------------------------------------------------------------------------
(* The results of the node. *)

\* The rows that a search is about
Row == IF query = "names" THEN ArtistRow ELSE TrackRow

\* own begins with rows, each of whose ids is that of one row.
ListsFirst(own, rows) ==
  /\ own \in Seq(Row) /\ rows \in Seq(Row)
  /\ \A r, s \in ToSet(rows) : r.id = s.id => r = s
  /\ \A i \in DOMAIN rows : i \in DOMAIN own /\ own[i] = rows[i]

\* There are finitely many confidences, and they are integers.
LEMMA ConfidencesAreFinite == IsFiniteSet(Confidence) /\ Confidence \subseteq Int
<1>1. Full \in Int /\ -Full \in Int /\ Confidence \subseteq (-Full)..Full
  BY ConstantsAssumption
<1>2. \A a, b \in Int : IsFiniteSet(a..b) /\ a..b \subseteq Int
  BY FS_Interval
<1> QED BY <1>1, <1>2, FS_Subset

LEMMA RowsAreFinite == IsFiniteSet(ArtistRow) /\ IsFiniteSet(TrackRow)
<1>1. IsFiniteSet(Address)
  BY ConstantsAssumption, FS_AddElement DEF Address
<1>2. IsFiniteSet(Confidence)
  BY ConfidencesAreFinite
<1>3. IsFiniteSet(Artist \X (Soul \X (Confidence \X Address))) /\ IsFiniteSet(Track \X Address)
  <2>1. IsFiniteSet(Confidence \X Address) BY <1>1, <1>2, FS_Product
  <2>2. IsFiniteSet(Soul \X (Confidence \X Address)) BY <2>1, ConstantsAssumption, FS_Product
  <2> QED BY <1>1, <2>2, ConstantsAssumption, FS_Product
<1> DEFINE artist == [r \in ArtistRow |-> <<r.id, <<r.soul, <<r.confidence, r.address>>>>>>]
           track  == [r \in TrackRow |-> <<r.id, r.address>>]
<1>4. artist \in Injection(ArtistRow, Artist \X (Soul \X (Confidence \X Address)))
  BY DEF Injection, IsInjective, ArtistRow
<1>5. track \in Injection(TrackRow, Track \X Address)
  BY DEF Injection, IsInjective, TrackRow
<1> QED BY <1>3, <1>4, <1>5, FS_Injection

LEMMA RowIsFinite == ASSUME NEW rows, rows \subseteq Row PROVE IsFiniteSet(rows)
<1>1. IsFiniteSet(Row) BY RowsAreFinite DEF Row
<1> QED BY <1>1, FS_Subset

LEMMA ContentIsTyped ==
  ASSUME NEW r \in Row
  PROVE  Content(r) \in Contents
BY DEF Row, ArtistRow, TrackRow, Content, Contents

\* A list has no more elements than places.
LEMMA ElementsOfList ==
  ASSUME NEW n \in Nat, NEW list, DOMAIN list = 1..n
  PROVE  /\ IsFiniteSet(ToSet(list))
         /\ Cardinality(ToSet(list)) \in 0..n
<1> DEFINE all == ToSet(list)
           at == [i \in 1..n |-> list[i]]
<1>1. at \in Surjection(1..n, all)
  BY DEF ToSet, Surjection
<1>2. IsFiniteSet(1..n) /\ Cardinality(1..n) = n
  BY FS_Interval
<1> HIDE DEF all, at
<1>3. IsFiniteSet(all) /\ Cardinality(all) =< n
  BY <1>1, <1>2, FS_Surjection
<1>4. Cardinality(all) \in Nat
  BY <1>3, FS_CardinalityType
<1> QED BY <1>3, <1>4 DEF all

\* The answer is made of contents, and what comes first in the list survives being put
\* back by its index: there are at least as many contents as ids.
LEMMA TogetherReturnsOwn ==
  ASSUME NEW own, NEW rows, ListsFirst(own, rows), NEW answers \in SUBSET Contents
  PROVE  /\ Together(answers, own) \subseteq Contents
         /\ \A i \in 1..Cardinality(ToSet(rows)) : Content(rows[i]) \in Together(answers, own)
<1> DEFINE contents == [i \in DOMAIN own |-> Content(own[i])]
           all == ToSet(contents)
           different == ToSet(rows)
           content == [r \in different |-> Content(r)]
<1>1. /\ own \in Seq(Row) /\ Len(own) \in Nat /\ DOMAIN own = 1..Len(own)
      /\ rows \in Seq(Row) /\ Len(rows) \in Nat /\ DOMAIN rows = 1..Len(rows)
  BY DEF ListsFirst
<1>2. IsFiniteSet(all) /\ Cardinality(all) \in 0..Len(own)
  <2>1. DOMAIN contents = 1..Len(own) BY <1>1
  <2> HIDE DEF contents
  <2> QED BY <1>1, <2>1, ElementsOfList
<1>3. IsFiniteSet(different) /\ Cardinality(different) \in 0..Len(rows)
  BY <1>1, ElementsOfList
<1>4. Together(answers, own) = (answers \ all) \cup {contents[i] : i \in 1..Cardinality(all)}
  BY DEF Together
<1>5. ASSUME NEW i \in 1..Cardinality(all) PROVE i \in DOMAIN own /\ contents[i] \in Contents
  <2>1. i \in DOMAIN own BY <1>1, <1>2
  <2>2. own[i] \in Row BY <1>1, <2>1
  <2> QED BY <2>1, <2>2, ContentIsTyped
<1>6. content \in Injection(different, all)
  <2>1. ASSUME NEW r \in different PROVE Content(r) \in all
    <3>1. PICK i \in DOMAIN rows : rows[i] = r BY DEF ToSet
    <3>2. i \in DOMAIN own /\ own[i] = r BY <3>1 DEF ListsFirst
    <3> QED BY <3>2 DEF ToSet
  <2>2. \A r, s \in different : Content(r) = Content(s) => r.id = s.id BY DEF Content
  <2>3. \A r, s \in different : content[r] = content[s] => r = s BY <2>2 DEF ListsFirst
  <2> QED BY <2>1, <2>3 DEF Injection, IsInjective
<1>7. Cardinality(different) =< Cardinality(all)
  <2> HIDE DEF all, different, content
  <2> QED BY <1>2, <1>3, <1>6, FS_Injection
<1>8. ASSUME NEW i \in 1..Cardinality(different)
      PROVE  i \in 1..Cardinality(all) /\ contents[i] = Content(rows[i])
  <2>1. i \in 1..Cardinality(all) /\ i \in DOMAIN rows BY <1>1, <1>2, <1>3, <1>7
  <2>2. i \in DOMAIN own /\ own[i] = rows[i] BY <2>1 DEF ListsFirst
  <2> QED BY <2>1, <2>2
<1> HIDE DEF all, contents, content
<1> QED BY <1>4, <1>5, <1>8

\* The node's own results are put before the cached ones.
LEMMA MergedListsOwnFirst ==
  ASSUME NEW own \in Seq(Row), NEW old \in SUBSET Row,
         \A r, s \in ToSet(own) : r.id = s.id => r = s
  PROVE  ListsFirst(Merged(own, old), own)
<1> DEFINE kept == Kept(own, old)
<1>1. kept \in SUBSET Row /\ IsFiniteSet(kept)
  BY RowIsFinite DEF Kept
<1>2. Merged(own, old) = own \o SetToSeq(kept)
  BY DEF Merged
<1> HIDE DEF kept
<1>3. SetToSeq(kept) \in Seq(Row)
  BY <1>1, SetToSeqLists
<1>4. /\ Merged(own, old) \in Seq(Row)
      /\ \A i \in DOMAIN own : i \in DOMAIN Merged(own, old) /\ Merged(own, old)[i] = own[i]
  BY <1>2, <1>3, ConcatProperties
<1> QED BY <1>4 DEF ListsFirst

-----------------------------------------------------------------------------
(* The invariant. *)

\* The results of the node begin with what its plugin found.
OwnComesFirst == pc = "asking" => ListsFirst(local, fetched)

\* Who has not been asked is still in the list, behind the one who is being asked.
AskedInTurn ==
  /\ pc = "asking" => todo # <<>> /\ Head(todo) \in table /\ unasked \subseteq table \cap ToSet(Tail(todo))
  /\ pc # "asking" => unasked = {}

IInv == TypeOK /\ OwnComesFirst /\ OwnResultsAreReturned /\ AskedInTurn

\* With any list of peers, the search goes on as the invariant says, or ends with the
\* node's own results.
LEMMA ContinueStep ==
  ASSUME NEW peers \in Seq(Peer), NEW answers \in SUBSET Contents, NEW own, NEW rows,
         ListsFirst(own, rows), result \subseteq Contents,
         Continue(peers, answers, own), fetched' = rows, query' = query
  PROVE  /\ todo' = peers
         /\ pc' = IF peers = <<>> THEN "done" ELSE "asking"
         /\ (found \cup result)' \subseteq Contents
         /\ local' \in Seq(Row)
         /\ OwnComesFirst' /\ OwnResultsAreReturned'
<1>1. /\ todo' = peers /\ pc' = IF peers = <<>> THEN "done" ELSE "asking"
      /\ IF peers = <<>> THEN found' = {} /\ local' = <<>> /\ result' = Together(answers, own)
                         ELSE found' = answers /\ local' = own /\ result' = result
  BY DEF Continue
<1>2. /\ Together(answers, own) \subseteq Contents
      /\ \A i \in 1..Cardinality(ToSet(rows)) : Content(rows[i]) \in Together(answers, own)
  BY TogetherReturnsOwn
<1>3. OwnComesFirst'
  BY <1>1 DEF OwnComesFirst, ListsFirst, Row, ToSet
<1>4. OwnResultsAreReturned'
  BY <1>1, <1>2 DEF OwnResultsAreReturned, Content, ToSet
<1>5. (found \cup result)' \subseteq Contents
  BY <1>1, <1>2
<1>6. local' \in Seq(Row)
  BY <1>1, EmptySeq DEF ListsFirst
<1> QED BY <1>1, <1>3, <1>4, <1>5, <1>6

\* The peers that are asked begin with one who is there.
LEMMA AskPeersStep ==
  ASSUME IInv, NEW own \in Seq(Row), NEW old \in SUBSET Row,
         \A r, s \in ToSet(own) : r.id = s.id => r = s, AskPeers(own, old)
  PROVE  /\ pc' \in {"asking", "done"} /\ todo' \in Seq(Peer) /\ unasked' \subseteq Peer
         /\ (found \cup result)' \subseteq Contents
         /\ fetched' = own /\ local' \in Seq(Row)
         /\ chosen' = NoId /\ cached' = {} /\ UNCHANGED <<table, query>>
         /\ OwnComesFirst' /\ OwnResultsAreReturned' /\ AskedInTurn'
<1> DEFINE peers == SetToSeq(table)
<1>1. /\ fetched' = own
      /\ chosen' = NoId /\ cached' = {} /\ UNCHANGED <<table, query>>
      /\ Continue(peers, {}, Merged(own, old))
      /\ unasked' = IF peers = <<>> THEN {} ELSE table \ {Head(peers)}
  BY DEF AskPeers
<1>2. ListsFirst(Merged(own, old), own)
  BY MergedListsOwnFirst
<1>3. /\ table \subseteq Peer /\ result \subseteq Contents
      /\ peers \in Seq(Peer) /\ Len(peers) = Cardinality(table) /\ Cardinality(table) \in Nat
      /\ \A p \in table : \E i \in 1..Cardinality(table) : peers[i] = p
      /\ \A i \in 1..Cardinality(table) : peers[i] \in table
  <2>1. table \in SUBSET Peer /\ result \subseteq Contents BY DEF IInv, TypeOK
  <2>2. IsFiniteSet(table) BY <2>1, ConstantsAssumption, FS_Subset
  <2> QED BY <2>1, <2>2, SetToSeqLists
<1> HIDE DEF peers
<1>4. ToSet(peers) = table
  <2>1. DOMAIN peers = 1..Cardinality(table) BY <1>3
  <2> QED BY <1>3, <2>1 DEF ToSet
<1>5. /\ todo' = peers /\ pc' = IF peers = <<>> THEN "done" ELSE "asking"
      /\ (found \cup result)' \subseteq Contents /\ local' \in Seq(Row)
      /\ OwnComesFirst' /\ OwnResultsAreReturned'
  <2>1. {} \in SUBSET Contents OBVIOUS
  <2>2. Continue(peers, {}, Merged(own, old)) BY <1>1
  <2> QED BY <1>1, <1>2, <1>3, <2>1, <2>2, ContinueStep
<1>6. AskedInTurn'
  <2>1. CASE peers = <<>> BY <1>1, <1>5, <2>1 DEF AskedInTurn
  <2>2. CASE peers # <<>>
    <3>1. table = {Head(peers)} \cup ToSet(Tail(peers)) BY <1>3, <1>4, <2>2, HeadAndTail
    <3>3. /\ pc' = "asking" /\ todo' = peers /\ table' = table
          /\ unasked' = table \ {Head(peers)}
      BY <1>1, <1>5, <2>2
    <3>4. ToSet(Tail(todo))' = ToSet(Tail(peers)) BY <3>3 DEF ToSet
    <3> QED BY <2>2, <3>1, <3>3, <3>4 DEF AskedInTurn
  <2> QED BY <2>1, <2>2
<1>7. pc' \in {"asking", "done"} /\ todo' \in Seq(Peer) /\ unasked' \subseteq Peer
  BY <1>1, <1>3, <1>5
<1> QED BY <1>1, <1>5, <1>6, <1>7

\* The next peer that is asked is one who is there, and nobody is skipped who has not left.
LEMMA SettledStep ==
  ASSUME IInv, pc = "asking", NEW connected \in SUBSET Peer, table' = connected,
         NEW answers \in SUBSET Contents, Settled(connected, answers),
         UNCHANGED <<query, fetched>>
  PROVE  /\ pc' \in {"asking", "done"} /\ todo' \in Seq(Peer) /\ unasked' \subseteq Peer
         /\ (found \cup result)' \subseteq Contents /\ local' \in Seq(ArtistRow \cup TrackRow)
         /\ OwnComesFirst' /\ OwnResultsAreReturned' /\ AskedInTurn'
<1> DEFINE peers == Following(Tail(todo), connected)
<1>1. /\ todo \in Seq(Peer) /\ todo # <<>> /\ unasked \subseteq Peer
      /\ unasked \subseteq ToSet(Tail(todo)) /\ found \cup result \subseteq Contents
      /\ ListsFirst(local, fetched)
  BY DEF IInv, TypeOK, AskedInTurn, OwnComesFirst
<1>2. Tail(todo) \in Seq(Peer) BY <1>1, HeadAndTail
<1>3. /\ peers \in Seq(Peer) /\ ToSet(Tail(todo)) \cap connected \subseteq ToSet(peers)
      /\ peers # <<>> => Head(peers) \in connected
  BY <1>2, FollowingSkipsTheGone
<1>4. /\ Continue(peers, found \cup answers, local)
      /\ unasked' = (unasked \cap connected) \ (IF peers = <<>> THEN {} ELSE {Head(peers)})
  BY DEF Settled
<1> HIDE DEF peers
<1>5. /\ todo' = peers /\ pc' = IF peers = <<>> THEN "done" ELSE "asking"
      /\ (found \cup result)' \subseteq Contents /\ local' \in Seq(Row)
      /\ OwnComesFirst' /\ OwnResultsAreReturned'
  <2>1. found \cup answers \in SUBSET Contents BY <1>1
  <2> QED BY <1>1, <1>3, <1>4, <2>1, ContinueStep
<1>6. AskedInTurn'
  <2>1. CASE peers = <<>>
    <3>1. ToSet(peers) = {} BY <2>1 DEF ToSet
    <3> QED BY <1>1, <1>3, <1>4, <1>5, <2>1, <3>1 DEF AskedInTurn
  <2>2. CASE peers # <<>>
    <3>1. ToSet(peers) = {Head(peers)} \cup ToSet(Tail(peers)) BY <1>3, <2>2, HeadAndTail
    <3>2. ToSet(Tail(todo))' = ToSet(Tail(peers)) BY <1>5 DEF ToSet
    <3>3. unasked' \subseteq connected \cap ToSet(Tail(peers)) BY <1>1, <1>3, <1>4, <2>2, <3>1
    <3> QED BY <1>3, <1>5, <2>2, <3>2, <3>3 DEF AskedInTurn
  <2> QED BY <2>1, <2>2
<1>7. pc' \in {"asking", "done"} /\ todo' \in Seq(Peer) /\ unasked' \subseteq Peer
  BY <1>1, <1>3, <1>4, <1>5
<1>8. local' \in Seq(ArtistRow \cup TrackRow)
  <2>1. Row \subseteq ArtistRow \cup TrackRow BY DEF Row
  <2> QED BY <1>5, <2>1, SeqMonotonic
<1> QED BY <1>5, <1>6, <1>7, <1>8

-----------------------------------------------------------------------------
(* The tables. *)

ArtistsTyped(rows) ==
  rows \subseteq ArtistRow /\ \A r, s \in rows : r.id = s.id /\ r.address = s.address => r = s

\* Rows that replace those of their ids and addresses leave one row for each.
LEMMA UpsertedArtists ==
  ASSUME NEW rows, ArtistsTyped(rows), NEW new, ArtistsTyped(new)
  PROVE  ArtistsTyped(Upserted(rows, new))
<1>1. Upserted(rows, new) = {r \in rows : ~ \E n \in new : n.id = r.id /\ n.address = r.address} \cup new
  BY DEF Upserted
<1>2. \A r \in Upserted(rows, new) :
        \/ r \in new
        \/ r \in rows /\ \A n \in new : ~(n.id = r.id /\ n.address = r.address)
  BY <1>1
<1> QED BY <1>2 DEF ArtistsTyped

LEMMA OwnArtistTyped ==
  ASSUME NEW i \in Artist
  PROVE  OwnArtist(i) \in ArtistRow /\ OwnArtist(i).id = i
BY ConstantsAssumption DEF OwnArtist, ArtistRow, Address

\* What a plugin finds is a list of ids; the results made of them have one row for an id.
LEMMA OwnArtistsTyped ==
  ASSUME NEW ids \in NamesFound
  PROVE  LET own == [i \in DOMAIN ids |-> OwnArtist(ids[i])]
         IN  /\ own \in Seq(ArtistRow) /\ ArtistsTyped(ToSet(own))
             /\ \A r, s \in ToSet(own) : r.id = s.id => r = s
<1> DEFINE own == [i \in DOMAIN ids |-> OwnArtist(ids[i])]
<1>1. \E n \in Nat : ids \in [1..n -> Artist]
  <2>1. CASE ids = NothingFound BY <2>1 DEF NothingFound
  <2>2. CASE ids \in SeqOf(Catalogue, MaxFound)
    BY <2>2, ConstantsAssumption DEF SeqOf
  <2> QED BY <2>1, <2>2 DEF NamesFound
<1>2. PICK n \in Nat : ids \in [1..n -> Artist] BY <1>1
<1>3. \A i \in 1..n : own[i] \in ArtistRow /\ own[i].id = ids[i] /\ own[i] = OwnArtist(ids[i])
  BY <1>2, OwnArtistTyped
<1>4. own \in Seq(ArtistRow) /\ DOMAIN own = 1..n
  BY <1>2, <1>3
<1>5. \A r \in ToSet(own) : r \in ArtistRow /\ r = OwnArtist(r.id)
  BY <1>3, <1>4 DEF ToSet
<1> QED BY <1>4, <1>5 DEF ArtistsTyped

LEMMA OwnTracksTyped ==
  ASSUME NEW id, NEW ids \in TracksFound(id)
  PROVE  LET own == [i \in DOMAIN ids |-> OwnTrack(ids[i])]
         IN  /\ own \in Seq(TrackRow) /\ ToSet(own) \subseteq TrackRow
             /\ \A r, s \in ToSet(own) : r.id = s.id => r = s
<1> DEFINE own == [i \in DOMAIN ids |-> OwnTrack(ids[i])]
<1>1. \E n \in Nat : ids \in [1..n -> Track]
  <2>1. CASE ids = NothingFound BY <2>1 DEF NothingFound
  <2>2. CASE ids \in SeqOf(Track, MaxFound)
    BY <2>2, ConstantsAssumption DEF SeqOf
  <2> QED BY <2>1, <2>2 DEF TracksFound
<1>2. PICK n \in Nat : ids \in [1..n -> Track] BY <1>1
<1>3. \A i \in 1..n : own[i] \in TrackRow /\ own[i].id = ids[i] /\ own[i] = OwnTrack(ids[i])
  BY <1>2 DEF OwnTrack, TrackRow, Address
<1>4. own \in Seq(TrackRow) /\ DOMAIN own = 1..n
  BY <1>2, <1>3
<1>5. \A r \in ToSet(own) : r \in TrackRow /\ r = OwnTrack(r.id)
  BY <1>3, <1>4 DEF ToSet
<1> QED BY <1>4, <1>5

LEMMA ClaimsTyped ==
  ASSUME NEW p \in Peer, NEW rows \in Claims(p)
  PROVE  ArtistsTyped(rows)
BY ConstantsAssumption DEF ArtistsTyped, Claims, ClaimsOf, ArtistRow, Address

LEMMA UpsertedTracks ==
  ASSUME NEW rows, rows \subseteq TrackRow, NEW new, new \subseteq TrackRow
  PROVE  Upserted(rows, new) \subseteq TrackRow
BY DEF Upserted

LEMMA TracksTyped ==
  ASSUME NEW ids \in SUBSET Track, NEW a \in Address
  PROVE  Tracks(ids, a) \subseteq TrackRow
BY DEF Tracks, TrackRow

LEMMA ChosenTyped ==
  ASSUME TypeOK, NEW s
  PROVE  IdsFor(s) \subseteq Artist \cup {NoId}
<1>1. \A r \in Candidates(s) : r.id \in Artist
  BY DEF TypeOK, Candidates, ArtistRow
<1> DEFINE own == {r.id : r \in {c \in Candidates(s) : c.address = Own}}
           ids == {r.id : r \in Candidates(s)}
           best == {i \in ids : \A j \in ids : ~ Beaten(Score(s, i), Score(s, j))}
<1>2. own \subseteq Artist /\ ids \subseteq Artist /\ best \subseteq Artist
  BY <1>1
<1>3. IdsFor(s) = IF ids = {} THEN {NoId} ELSE IF own # {} THEN own ELSE best
  BY DEF IdsFor
<1> QED BY <1>2, <1>3

-----------------------------------------------------------------------------
(* The steps. *)

LEMMA SearchSteps ==
  ASSUME IInv, SearchNames \/ SearchSoul
  PROVE  IInv'
<1>1. /\ pc' = "fetching" /\ fetched' = <<>> /\ local' = <<>> /\ result' = {} /\ pc # "asking"
      /\ UNCHANGED <<artists, tracks, table, todo, found, unasked>>
  BY DEF SearchNames, SearchSoul, Begin
<1>2. query' \in Soul \cup {"names"} /\ chosen' \in Artist \cup {NoId} /\ cached' \subseteq ArtistRow
  BY ChosenTyped, ConstantsAssumption DEF IInv, TypeOK, SearchNames, SearchSoul
<1>3. TypeOK' BY <1>1, <1>2 DEF IInv, TypeOK
<1>4. OwnComesFirst' /\ OwnResultsAreReturned' /\ AskedInTurn'
  BY <1>1 DEF IInv, OwnComesFirst, OwnResultsAreReturned, AskedInTurn
<1> QED BY <1>3, <1>4 DEF IInv

LEMMA FetchedSteps ==
  ASSUME IInv, NamesFetched \/ TracksFetched
  PROVE  IInv'
<1>1. CASE NamesFetched
  <2>1. PICK ids \in NamesFound :
          LET own == [i \in DOMAIN ids |-> OwnArtist(ids[i])]
          IN  /\ artists' = Upserted(artists, ToSet(own)) /\ UNCHANGED tracks
              /\ AskPeers(own, cached)
    BY <1>1 DEF NamesFetched
  <2> DEFINE own == [i \in DOMAIN ids |-> OwnArtist(ids[i])]
  <2>2. Row = ArtistRow /\ Row \subseteq ArtistRow \cup TrackRow BY <1>1 DEF NamesFetched, Row
  <2>3. /\ own \in Seq(ArtistRow) /\ ArtistsTyped(ToSet(own))
        /\ \A r, s \in ToSet(own) : r.id = s.id => r = s
    BY OwnArtistsTyped
  <2>4. /\ artists' = Upserted(artists, ToSet(own)) /\ UNCHANGED tracks
        /\ AskPeers(own, cached)
    BY <2>1
  <2> HIDE DEF own
  <2>5. cached \in SUBSET Row BY <2>2 DEF IInv, TypeOK
  <2>6. /\ pc' \in {"asking", "done"} /\ todo' \in Seq(Peer) /\ unasked' \subseteq Peer
        /\ (found \cup result)' \subseteq Contents
        /\ fetched' = own /\ local' \in Seq(Row)
        /\ chosen' = NoId /\ cached' = {} /\ UNCHANGED <<table, query>>
        /\ OwnComesFirst' /\ OwnResultsAreReturned' /\ AskedInTurn'
    BY <2>2, <2>3, <2>4, <2>5, AskPeersStep
  <2>7. ArtistsTyped(artists') BY <2>3, <2>4, UpsertedArtists DEF IInv, TypeOK, ArtistsTyped
  <2>8. fetched' \in Seq(ArtistRow \cup TrackRow) /\ local' \in Seq(ArtistRow \cup TrackRow)
    BY <2>2, <2>3, <2>6, SeqMonotonic
  <2>9. TypeOK' BY <2>4, <2>6, <2>7, <2>8 DEF IInv, TypeOK, ArtistsTyped
  <2> QED BY <2>6, <2>9 DEF IInv
<1>2. CASE TracksFetched
  <2>1. PICK ids \in TracksFound(chosen) :
          LET own == [i \in DOMAIN ids |-> OwnTrack(ids[i])]
          IN  /\ tracks' = Upserted(tracks, ToSet(own)) /\ UNCHANGED artists
              /\ AskPeers(own, CachedTracks(chosen))
    BY <1>2 DEF TracksFetched
  <2> DEFINE own == [i \in DOMAIN ids |-> OwnTrack(ids[i])]
  <2>2. Row = TrackRow /\ Row \subseteq ArtistRow \cup TrackRow BY <1>2 DEF TracksFetched, Row
  <2>3. /\ own \in Seq(TrackRow) /\ ToSet(own) \subseteq TrackRow
        /\ \A r, s \in ToSet(own) : r.id = s.id => r = s
    BY OwnTracksTyped
  <2>4. /\ tracks' = Upserted(tracks, ToSet(own)) /\ UNCHANGED artists
        /\ AskPeers(own, CachedTracks(chosen))
    BY <2>1
  <2> HIDE DEF own
  <2>5. CachedTracks(chosen) \in SUBSET Row BY <2>2 DEF IInv, TypeOK, CachedTracks
  <2>6. /\ pc' \in {"asking", "done"} /\ todo' \in Seq(Peer) /\ unasked' \subseteq Peer
        /\ (found \cup result)' \subseteq Contents
        /\ fetched' = own /\ local' \in Seq(Row)
        /\ chosen' = NoId /\ cached' = {} /\ UNCHANGED <<table, query>>
        /\ OwnComesFirst' /\ OwnResultsAreReturned' /\ AskedInTurn'
    BY <2>2, <2>3, <2>4, <2>5, AskPeersStep
  <2>7. tracks' \subseteq TrackRow BY <2>3, <2>4, UpsertedTracks DEF IInv, TypeOK
  <2>8. fetched' \in Seq(ArtistRow \cup TrackRow) /\ local' \in Seq(ArtistRow \cup TrackRow)
    BY <2>2, <2>3, <2>6, SeqMonotonic
  <2>9. TypeOK' BY <2>4, <2>6, <2>7, <2>8 DEF IInv, TypeOK
  <2> QED BY <2>6, <2>9 DEF IInv
<1> QED BY <1>1, <1>2

LEMMA AnsweredStep ==
  ASSUME IInv, Answered
  PROVE  IInv'
<1> DEFINE p == Head(todo)
<1>1. pc = "asking" /\ p \in table /\ UNCHANGED <<table, query, chosen, cached, fetched>>
  BY DEF Answered
<1>2. table \in SUBSET Peer /\ p \in Peer /\ p \in Address BY <1>1 DEF IInv, TypeOK, Address
<1>3. ASSUME NEW answers \in SUBSET Contents, Settled(table, answers),
             ArtistsTyped(artists'), tracks' \subseteq TrackRow
      PROVE  IInv'
  <2>1. /\ pc' \in {"asking", "done"} /\ todo' \in Seq(Peer) /\ unasked' \subseteq Peer
        /\ (found \cup result)' \subseteq Contents /\ local' \in Seq(ArtistRow \cup TrackRow)
        /\ OwnComesFirst' /\ OwnResultsAreReturned' /\ AskedInTurn'
    BY <1>1, <1>2, <1>3, SettledStep
  <2>2. TypeOK' BY <1>1, <1>3, <2>1 DEF IInv, TypeOK, ArtistsTyped
  <2> QED BY <2>1, <2>2 DEF IInv
<1>4. CASE query = "names"
  <2>1. PICK rows \in Claims(p) : /\ artists' = Upserted(artists, rows) /\ UNCHANGED tracks
                                  /\ Settled(table, {Content(r) : r \in rows})
    BY <1>4 DEF Answered
  <2>2. ArtistsTyped(rows) BY <1>2, ClaimsTyped
  <2>3. ArtistsTyped(artists') BY <2>1, <2>2, UpsertedArtists DEF IInv, TypeOK, ArtistsTyped
  <2>4. {Content(r) : r \in rows} \in SUBSET Contents
    BY <1>4, <2>2, ContentIsTyped DEF ArtistsTyped, Row
  <2>5. tracks' \subseteq TrackRow BY <2>1 DEF IInv, TypeOK
  <2> QED BY <1>3, <2>1, <2>3, <2>4, <2>5
<1>5. CASE query # "names"
  <2>1. PICK ids \in SUBSET Track :
          /\ tracks' = Upserted(tracks, Tracks(ids, p)) /\ UNCHANGED artists
          /\ Settled(table, {Content(r) : r \in Tracks(ids, p)})
    BY <1>5 DEF Answered
  <2>2. Tracks(ids, p) \subseteq Row /\ tracks' \subseteq TrackRow
    BY <1>2, <1>5, <2>1, TracksTyped, UpsertedTracks DEF IInv, TypeOK, Row
  <2>3. {Content(r) : r \in Tracks(ids, p)} \in SUBSET Contents
    BY <2>2, ContentIsTyped
  <2>4. ArtistsTyped(artists') BY <2>1 DEF IInv, TypeOK, ArtistsTyped
  <2> QED BY <1>3, <2>1, <2>2, <2>3, <2>4
<1> QED BY <1>4, <1>5

\* A search that fails has no results, and nobody is asked any more.
LEMMA AnsweredAmissStep ==
  ASSUME IInv, AnsweredAmiss
  PROVE  IInv'
BY EmptySeq DEF AnsweredAmiss, IInv, TypeOK, OwnComesFirst, OwnResultsAreReturned, AskedInTurn

\* Steps that leave the search alone
LEMMA TableStep ==
  ASSUME IInv, ArtistsTyped(artists'), tracks' \subseteq TrackRow, UNCHANGED searchVars,
         table' \subseteq Peer, table \subseteq table'
  PROVE  IInv'
<1>1. TypeOK' BY DEF IInv, TypeOK, ArtistsTyped, searchVars
<1>2. OwnComesFirst' /\ OwnResultsAreReturned'
  BY DEF IInv, OwnComesFirst, ListsFirst, Row, OwnResultsAreReturned, Content, ToSet, searchVars
<1>3. AskedInTurn' BY DEF IInv, AskedInTurn, ToSet, searchVars
<1> QED BY <1>1, <1>2, <1>3 DEF IInv

LEMMA LeaveStep ==
  ASSUME IInv, NEW p \in Peer, Leave(p)
  PROVE  IInv'
<1>1. /\ p \in table /\ table' = table \ {p} /\ table' \in SUBSET Peer
      /\ UNCHANGED <<artists, tracks, query, chosen, cached, fetched>>
  BY DEF Leave, IInv, TypeOK
<1>2. CASE pc = "asking" /\ Head(todo) = p
  <2>1. Settled(table', {}) /\ {} \in SUBSET Contents BY <1>2 DEF Leave
  <2>2. /\ pc' \in {"asking", "done"} /\ todo' \in Seq(Peer) /\ unasked' \subseteq Peer
        /\ (found \cup result)' \subseteq Contents /\ local' \in Seq(ArtistRow \cup TrackRow)
        /\ OwnComesFirst' /\ OwnResultsAreReturned' /\ AskedInTurn'
    BY <1>1, <1>2, <2>1, SettledStep
  <2>3. TypeOK' BY <1>1, <2>2 DEF IInv, TypeOK
  <2> QED BY <2>2, <2>3 DEF IInv
<1>3. CASE ~(pc = "asking" /\ Head(todo) = p)
  <2>1. unasked' = unasked \ {p} /\ UNCHANGED <<pc, todo, local, found, result>> BY <1>3 DEF Leave
  <2>2. TypeOK' BY <1>1, <2>1 DEF IInv, TypeOK
  <2>3. OwnComesFirst' /\ OwnResultsAreReturned'
    BY <1>1, <2>1 DEF IInv, OwnComesFirst, ListsFirst, Row, OwnResultsAreReturned, Content, ToSet
  <2>4. AskedInTurn' BY <1>1, <1>3, <2>1 DEF IInv, AskedInTurn, ToSet
  <2> QED BY <2>2, <2>3, <2>4 DEF IInv
<1> QED BY <1>2, <1>3

\* Somebody joins, a new peer is warmed up, or the node searches for a peer.
LEMMA OtherSteps ==
  ASSUME IInv, (\E p \in Peer : Join(p) \/ Warmed(p)) \/ Served
  PROVE  IInv'
<1>1. ArtistsTyped(artists) /\ tracks \subseteq TrackRow /\ table \subseteq Peer
  BY DEF IInv, TypeOK, ArtistsTyped
<1>2. ASSUME NEW p \in Peer, Join(p) PROVE IInv'
  BY <1>1, <1>2, TableStep DEF Join
<1>3. ASSUME NEW p \in Peer, Warmed(p) PROVE IInv'
  <2>1. table' = table /\ UNCHANGED searchVars BY <1>3 DEF Warmed
  <2>2. ArtistsTyped(artists') /\ tracks' \subseteq TrackRow
    <3>1. CASE /\ UNCHANGED tracks
               /\ \E row \in ClaimsOf(p) : artists' = Upserted(artists, {row})
      <4>1. PICK row \in ClaimsOf(p) : artists' = Upserted(artists, {row})
        BY <3>1
      <4>2. ArtistsTyped({row})
        BY ConstantsAssumption DEF ArtistsTyped, ClaimsOf, ArtistRow, Address
      <4> QED BY <1>1, <3>1, <4>1, <4>2, UpsertedArtists
    <3>2. CASE /\ UNCHANGED artists
               /\ \E row \in [id : Track, address : {p}] : tracks' = Upserted(tracks, {row})
      BY <1>1, <3>2 DEF Upserted, TrackRow, Address
    <3> QED BY <1>3, <3>1, <3>2 DEF Warmed
  <2> QED BY <1>1, <2>1, <2>2, TableStep
<1>4. CASE Served
  <2>1. table' = table /\ UNCHANGED searchVars BY <1>4 DEF Served
  <2>2. ArtistsTyped(artists') /\ tracks' \subseteq TrackRow
    <3>1. CASE UNCHANGED tracks /\ \E id \in Catalogue : artists' = Upserted(artists, {OwnArtist(id)})
      <4>1. PICK id \in Catalogue : artists' = Upserted(artists, {OwnArtist(id)}) BY <3>1
      <4>2. OwnArtist(id) \in ArtistRow BY ConstantsAssumption, OwnArtistTyped
      <4>3. ArtistsTyped({OwnArtist(id)}) BY <4>2 DEF ArtistsTyped
      <4> QED BY <1>1, <3>1, <4>1, <4>3, UpsertedArtists
    <3>2. CASE UNCHANGED artists /\ \E id \in Track : tracks' = Upserted(tracks, {OwnTrack(id)})
      <4>1. \A id \in Track : {OwnTrack(id)} \subseteq TrackRow BY DEF OwnTrack, TrackRow, Address
      <4> QED BY <1>1, <3>2, <4>1, UpsertedTracks
    <3> QED BY <1>4, <3>1, <3>2 DEF Served
  <2> QED BY <1>1, <2>1, <2>2, TableStep
<1> QED BY <1>2, <1>3, <1>4

-----------------------------------------------------------------------------
(* Theorems about the search. *)

\* The invariant holds for any peers, records and answers.
THEOREM SearchInvariant == Spec => []IInv
<1>1. Init => IInv
  BY EmptySeq DEF Init, IInv, TypeOK, OwnComesFirst, OwnResultsAreReturned, AskedInTurn
<1>2. IInv /\ [Next]_vars => IInv'
  <2> SUFFICES ASSUME IInv, [Next]_vars PROVE IInv' OBVIOUS
  <2>1. CASE SearchNames \/ SearchSoul BY <2>1, SearchSteps
  <2>2. CASE NamesFetched \/ TracksFetched BY <2>2, FetchedSteps
  <2>3. CASE Answered BY <2>3, AnsweredStep
  <2>7. CASE AnsweredAmiss BY <2>7, AnsweredAmissStep
  <2>4. CASE (\E p \in Peer : Join(p) \/ Warmed(p)) \/ Served BY <2>4, OtherSteps
  <2>5. CASE \E p \in Peer : Leave(p) BY <2>5, LeaveStep
  <2>6. CASE UNCHANGED vars
    BY <2>6, TableStep DEF vars, IInv, TypeOK, ArtistsTyped
  <2> QED BY <2>1, <2>2, <2>3, <2>4, <2>5, <2>6, <2>7 DEF Next
<1> QED BY <1>1, <1>2, PTL DEF Spec

\* The variables keep their types: a search returns records, and no table holds two rows
\* of one id and address.
THEOREM SearchIsTyped == Spec => []TypeOK
<1>1. IInv => TypeOK BY DEF IInv
<1> QED BY <1>1, SearchInvariant, PTL

\* What the node's own plugin has just found is among the results, whatever the cache and
\* the peers hold; all of it, if the plugin repeats nothing.
THEOREM OwnResultsAreAlwaysReturned == Spec => []OwnResultsAreReturned
<1>1. IInv => OwnResultsAreReturned BY DEF IInv
<1> QED BY <1>1, SearchInvariant, PTL

\* A search returns only when every peer that has stayed has been asked.
THEOREM EveryPeerIsAlwaysAsked == Spec => []EveryPeerIsAsked
<1>1. IInv => EveryPeerIsAsked BY DEF IInv, AskedInTurn, EveryPeerIsAsked
<1> QED BY <1>1, SearchInvariant, PTL

-----------------------------------------------------------------------------
(* The votes. *)

Fraction == [num : Int, den : Nat \ {0}]

Sum == [num : Int, den : Nat \ {0}, weight : Int]

\* The sum of a record's vote and of others
Plus(r, sum) ==
  LET t == Trust(r.address)
  IN  [num |-> sum.num * t.den + r.confidence * t.num * sum.den,
       den |-> sum.den * t.den,
       weight |-> sum.weight + r.confidence]

NoVotes == [num |-> 0, den |-> 1, weight |-> Full]

\* One step of the fold: what the sums of smaller sets say of s
Weigh(s, g) ==
  IF s = {} THEN NoVotes
  ELSE LET r == CHOOSE x \in s : TRUE IN Plus(r, g[s \ {r}])

Weighed(V, g) == [s \in SUBSET V |-> Weigh(s, g)]

Total(V) == (CHOOSE g : g = Weighed(V, g))[V]

LEMMA ScoreIsTotal ==
  ASSUME NEW s, NEW id
  PROVE  LET total == Total(Votes(s, id))
         IN  Score(s, id) = IF total.weight < 0
                            THEN [num |-> - total.num, den |-> total.den * (- total.weight)]
                            ELSE [num |-> total.num, den |-> total.den * total.weight]
BY DEF Score, FoldSet, MapThenFoldSet, Total, Weighed, Weigh, Plus, NoVotes

\* The sums of all sets of up to n records are defined by one another.
Sums(V, g, n) ==
  \A s \in SUBSET V : Cardinality(s) =< n => g[s] = Weigh(s, g)

LEMMA RemovedIsSmaller ==
  ASSUME NEW s, IsFiniteSet(s), s # {}
  PROVE  LET p == CHOOSE x \in s : TRUE
         IN  /\ p \in s /\ IsFiniteSet(s \ {p}) /\ Cardinality(s) \in Nat
             /\ Cardinality(s \ {p}) = Cardinality(s) - 1
BY FS_RemoveElement, FS_CardinalityType

LEMMA SumsGrow ==
  ASSUME NEW V, IsFiniteSet(V), NEW n \in Nat, NEW g, Sums(V, g, n)
  PROVE  Sums(V, Weighed(V, g), n + 1)
<1> DEFINE h == Weighed(V, g)
<1> SUFFICES ASSUME NEW s \in SUBSET V, Cardinality(s) =< n + 1
             PROVE  h[s] = Weigh(s, h)
  BY DEF Sums
<1>1. h[s] = Weigh(s, g) BY DEF Weighed
<1>2. CASE s = {} BY <1>1, <1>2 DEF Weigh
<1>3. CASE s # {}
  <2> DEFINE p == CHOOSE x \in s : TRUE
             t == s \ {p}
  <2>1. IsFiniteSet(s) BY FS_Subset
  <2>2. Cardinality(t) =< n
    <3>1. Cardinality(s) \in Nat /\ Cardinality(t) = Cardinality(s) - 1
      BY <1>3, <2>1, RemovedIsSmaller
    <3> HIDE DEF t
    <3> QED BY <3>1
  <2>3. t \in SUBSET V OBVIOUS
  <2>4. g[t] = Weigh(t, g) BY <2>2, <2>3 DEF Sums
  <2>5. h[t] = g[t] BY <2>3, <2>4 DEF Weighed
  <2> QED BY <1>1, <1>3, <2>5 DEF Weigh
<1> QED BY <1>2, <1>3

\* The fold is defined for every finite set: the least size without sums cannot be.
LEMMA TotalIsDefined ==
  ASSUME NEW V, IsFiniteSet(V)
  PROVE  \E g : g = Weighed(V, g)
<1> DEFINE missing == {n \in Nat : ~ \E g : Sums(V, g, n)}
<1>1. Sums(V, Weighed(V, [s \in SUBSET V |-> 0]), 0)
  <2> DEFINE g == Weighed(V, [s \in SUBSET V |-> 0])
  <2> SUFFICES ASSUME NEW s \in SUBSET V, Cardinality(s) =< 0 PROVE g[s] = Weigh(s, g)
    BY DEF Sums
  <2>1. IsFiniteSet(s) /\ Cardinality(s) \in Nat BY FS_Subset, FS_CardinalityType
  <2>2. s = {} BY <2>1, FS_EmptySet
  <2> QED BY <2>2 DEF Weighed, Weigh
<1>2. missing = {}
  <2> SUFFICES ASSUME missing # {} PROVE FALSE OBVIOUS
  <2> DEFINE m == Min(missing)
  <2>1. m \in missing /\ \A n \in missing : m =< n
    <3>1. missing \in SUBSET Nat OBVIOUS
    <3> HIDE DEF missing
    <3> QED BY <3>1, LeastExists
  <2> HIDE DEF m
  <2>2. m \in Nat /\ ~ \E g : Sums(V, g, m) BY <2>1
  <2>3. m # 0 BY <1>1, <2>2
  <2>4. m - 1 \in Nat /\ m - 1 \notin missing /\ (m - 1) + 1 = m BY <2>1, <2>2, <2>3
  <2>5. PICK g : Sums(V, g, m - 1) BY <2>4
  <2>6. Sums(V, Weighed(V, g), m) BY <2>4, <2>5, SumsGrow
  <2> QED BY <2>2, <2>6
<1>3. Cardinality(V) \in Nat BY FS_CardinalityType
<1>4. PICK g : Sums(V, g, Cardinality(V)) BY <1>2, <1>3
<1>5. Sums(V, Weighed(V, g), Cardinality(V) + 1) BY <1>3, <1>4, SumsGrow
<1> DEFINE h == Weighed(V, g)
<1>6. \A s \in SUBSET V : h[s] = Weigh(s, h)
  <2> SUFFICES ASSUME NEW s \in SUBSET V PROVE h[s] = Weigh(s, h) OBVIOUS
  <2>1. Cardinality(s) =< Cardinality(V) + 1
    BY <1>3, FS_Subset, FS_CardinalityType
  <2> QED BY <1>5, <2>1 DEF Sums
<1>7. h = Weighed(V, h) BY <1>6 DEF Weighed
<1> QED BY <1>7

\* A vote is a fraction; one of a peer that is there is not divided by zero records.
LEMMA TrustIsFraction ==
  ASSUME TypeOK, NEW p
  PROVE  Trust(p) \in Fraction
<1>1. IsFiniteSet(artists) /\ IsFiniteSet(tracks)
  BY RowsAreFinite, FS_Subset DEF TypeOK
<1> DEFINE sent == {r \in artists : r.address = p}
           sentTracks == {r \in tracks : r.address = p}
           known == {r \in artists : r.address = p /\ \E o \in artists : o.address = Own /\ o.id = r.id}
           knownTracks == {r \in tracks : r.address = p /\ \E o \in tracks : o.address = Own /\ o.id = r.id}
<1>2. /\ sent \in SUBSET artists /\ known \in SUBSET artists
      /\ sentTracks \in SUBSET tracks /\ knownTracks \in SUBSET tracks
  OBVIOUS
<1>3. Records(p) = Cardinality(sent) + Cardinality(sentTracks) BY DEF Records
<1>4. Matches(p) = Cardinality(known) + Cardinality(knownTracks) BY DEF Matches
<1> HIDE DEF sent, sentTracks, known, knownTracks
<1>5. /\ Cardinality(sent) \in Nat /\ Cardinality(sentTracks) \in Nat
      /\ Cardinality(known) \in Nat /\ Cardinality(knownTracks) \in Nat
  BY <1>1, <1>2, FS_Subset, FS_CardinalityType
<1>6. Records(p) \in Nat /\ Matches(p) \in Nat BY <1>3, <1>4, <1>5
<1> QED BY <1>6 DEF Trust, Fraction

LEMMA Signs ==
  ASSUME NEW a \in Int, NEW b \in Nat \ {0}
  PROVE  /\ a * b \in Int
         /\ a < 0 => a * b < 0
         /\ a > 0 => a * b > 0
         /\ a =< 0 => a * b =< 0
         /\ a >= 0 => a * b >= 0
OBVIOUS

Against(r) == Trust(r.address).num < 0 /\ r.confidence > 0
InFavour(r) == Trust(r.address).num >= 0 /\ r.confidence >= 0

\* Votes below the middle add up to less than it, others do not.
SignOf(s, sum) ==
  /\ sum \in Sum
  /\ (\A r \in s : Against(r)) => sum.weight > 0 /\ (sum.num < 0 \/ (s = {} /\ sum.num = 0))
  /\ (\A r \in s : InFavour(r)) => sum.weight > 0 /\ sum.num >= 0

LEMMA PlusKeepsSign ==
  ASSUME TypeOK, NEW s \in SUBSET ArtistRow, NEW r \in s, NEW sum, SignOf(s \ {r}, sum)
  PROVE  SignOf(s, Plus(r, sum))
<1> DEFINE v == Trust(r.address)
           c == r.confidence
           w == Plus(r, sum)
<1>1. v \in Fraction BY TrustIsFraction
<1>2. sum \in Sum BY DEF SignOf
<1>3. w = [num |-> sum.num * v.den + c * v.num * sum.den, den |-> sum.den * v.den,
           weight |-> sum.weight + c]
  BY DEF Plus
<1>4. c \in Int BY ConfidencesAreFinite DEF ArtistRow
<1>5. (Against(r) <=> v.num < 0 /\ c > 0) /\ (InFavour(r) <=> v.num >= 0 /\ c >= 0)
  BY DEF Against, InFavour
<1> HIDE DEF v, w, c
<1>6. /\ v.num \in Int /\ v.den \in Nat \ {0} /\ sum.weight \in Int
      /\ sum.num \in Int /\ sum.den \in Nat \ {0}
  BY <1>1, <1>2 DEF Fraction, Sum
<1> DEFINE a == sum.num * v.den
           e == c * v.num
           b == e * sum.den
           d == sum.den * v.den
           g == sum.weight + c
<1>7. /\ a \in Int /\ (sum.num =< 0 => a =< 0) /\ (sum.num >= 0 => a >= 0)
  BY <1>6, Signs
<1>8. /\ e \in Int /\ (v.num < 0 /\ c > 0 => e < 0) /\ (v.num >= 0 /\ c >= 0 => e >= 0)
  BY <1>4, <1>6
<1>9. /\ b \in Int /\ (e < 0 => b < 0) /\ (e >= 0 => b >= 0)
  <2> HIDE DEF e
  <2> QED BY <1>6, <1>8, Signs
<1>10. d \in Nat \ {0} /\ g \in Int BY <1>4, <1>6, Signs
<1>11. w = [num |-> a + b, den |-> d, weight |-> g] BY <1>3
<1>12. sum.weight > 0 /\ c >= 0 => g > 0
  BY <1>4, <1>6
<1> HIDE DEF a, b, d, e, g
<1>13. w \in Sum BY <1>7, <1>9, <1>10, <1>11 DEF Sum
<1>14. ASSUME \A q \in s : Against(q) PROVE w.weight > 0 /\ w.num < 0
  <2>1. v.num < 0 /\ c > 0 BY <1>5, <1>14
  <2>2. sum.weight > 0 /\ sum.num =< 0 BY <1>6, <1>14 DEF SignOf
  <2> QED BY <1>4, <1>7, <1>8, <1>9, <1>11, <1>12, <2>1, <2>2
<1>15. ASSUME \A q \in s : InFavour(q) PROVE w.weight > 0 /\ w.num >= 0
  <2>1. v.num >= 0 /\ c >= 0 BY <1>5, <1>15
  <2>2. sum.weight > 0 /\ sum.num >= 0 BY <1>15 DEF SignOf
  <2> QED BY <1>7, <1>8, <1>9, <1>11, <1>12, <2>1, <2>2
<1>16. SignOf(s, w)
  BY <1>13, <1>14, <1>15 DEF SignOf
<1> QED BY <1>16 DEF w

\* The sum of the votes has their sign if they agree: no smallest set is an exception.
LEMMA TotalHasSign ==
  ASSUME TypeOK, NEW V \in SUBSET ArtistRow, IsFiniteSet(V)
  PROVE  SignOf(V, Total(V))
<1>1. PICK g : g = Weighed(V, g) /\ Total(V) = g[V]
  BY TotalIsDefined DEF Total
<1>2. \A s \in SUBSET V : g[s] = Weigh(s, g) BY <1>1 DEF Weighed
<1> DEFINE wrong == {s \in SUBSET V : ~ SignOf(s, g[s])}
<1>3. wrong = {}
  <2> SUFFICES ASSUME wrong # {} PROVE FALSE OBVIOUS
  <2>1. /\ IsWellFoundedOn(StrictSubsetOrdering(V), FiniteSubsetsOf(V))
        /\ FiniteSubsetsOf(V) = SUBSET V
    BY FS_StrictSubsetOrderingWellFounded, FS_FiniteSubsetsOfFinite
  <2>2. PICK s \in wrong : \A t \in wrong : <<t, s>> \notin StrictSubsetOrdering(V)
    <3>1. wrong \subseteq FiniteSubsetsOf(V) BY <2>1
    <3> HIDE DEF wrong
    <3> QED BY <2>1, <3>1, WFMin
  <2>3. s \in SUBSET V /\ ~ SignOf(s, g[s]) /\ g[s] = Weigh(s, g) BY <1>2, <2>2
  <2>4. CASE s = {}
    <3>1. g[s] = NoVotes BY <2>3, <2>4 DEF Weigh
    <3>2. NoVotes \in Sum /\ NoVotes.weight > 0 /\ NoVotes.num = 0
      BY ConstantsAssumption DEF NoVotes, Sum
    <3> QED BY <2>3, <2>4, <3>1, <3>2 DEF SignOf
  <2>5. CASE s # {}
    <3> DEFINE p == CHOOSE x \in s : TRUE
    <3>1. p \in s BY <2>5
    <3>2. g[s] = Plus(p, g[s \ {p}]) BY <2>3, <2>5 DEF Weigh
    <3> HIDE DEF p
    <3>3. <<s \ {p}, s>> \in StrictSubsetOrdering(V)
      BY <2>3, <3>1 DEF StrictSubsetOrdering
    <3>4. SignOf(s \ {p}, g[s \ {p}]) BY <2>2, <2>3, <3>3
    <3> QED BY <2>3, <3>1, <3>2, <3>4, PlusKeepsSign
  <2> QED BY <2>4, <2>5
<1>4. SignOf(V, g[V]) BY <1>3
<1> QED BY <1>1, <1>4

LEMMA VotesAreRows ==
  ASSUME TypeOK, NEW s, NEW id
  PROVE  Votes(s, id) \in SUBSET ArtistRow /\ IsFiniteSet(Votes(s, id))
<1>1. Votes(s, id) \in SUBSET ArtistRow
  BY DEF Votes, Candidates, TypeOK
<1> QED BY <1>1, RowsAreFinite, FS_Subset

LEMMA ScoreHasSign ==
  ASSUME TypeOK, NEW s, NEW id,
         (\A v \in Votes(s, id) : Against(v)) \/ (\A v \in Votes(s, id) : InFavour(v))
  PROVE  LET score == Score(s, id)
             votes == Votes(s, id)
         IN  /\ score.num \in Int /\ score.den \in Nat \ {0}
             /\ votes # {} /\ (\A v \in votes : Against(v)) => score.num < 0
             /\ (\A v \in votes : InFavour(v)) => score.num >= 0
<1> DEFINE votes == Votes(s, id)
           total == Total(votes)
<1>1. votes \in SUBSET ArtistRow /\ IsFiniteSet(votes) BY VotesAreRows
<1>2. SignOf(votes, total) BY <1>1, TotalHasSign
<1>3. Score(s, id) = IF total.weight < 0
                     THEN [num |-> - total.num, den |-> total.den * (- total.weight)]
                     ELSE [num |-> total.num, den |-> total.den * total.weight]
  BY ScoreIsTotal
<1>4. (\A v \in votes : Against(v)) \/ (\A v \in votes : InFavour(v))
  OBVIOUS
<1> HIDE DEF votes, total
<1>5. total.num \in Int /\ total.den \in Nat \ {0} /\ total.weight \in Int /\ total.weight > 0
  BY <1>2, <1>4 DEF SignOf, Sum
<1>6. Score(s, id) = [num |-> total.num, den |-> total.den * total.weight]
  BY <1>3, <1>5
<1>7. total.den * total.weight \in Nat \ {0}
  BY <1>5, Signs
<1> QED BY <1>2, <1>5, <1>6, <1>7 DEF SignOf, votes

\* An id that only distrusted peers have sent never has a better score, nor as good a
\* one, as an id that only trusted peers have sent.
LEMMA TrustedBeatsDistrusted ==
  ASSUME TypeOK, NEW s, NEW i, NEW j,
         Votes(s, i) # {}, \A v \in Votes(s, i) : Against(v),
         \A v \in Votes(s, j) : InFavour(v)
  PROVE  Beaten(Score(s, i), Score(s, j))
<1> DEFINE x == Score(s, i)
           y == Score(s, j)
<1>1. /\ x.num \in Int /\ x.den \in Nat \ {0} /\ x.num < 0
      /\ y.num \in Int /\ y.den \in Nat \ {0} /\ y.num >= 0
  BY ScoreHasSign
<1> HIDE DEF x, y
<1>2. x.num * y.den < 0 /\ y.num * x.den >= 0
      /\ x.num * y.den \in Int /\ y.num * x.den \in Int
  BY <1>1, Signs
<1>3. x.num * y.den < y.num * x.den BY <1>2
<1> QED BY <1>3 DEF Beaten, x, y

\* However many distrusted peers have sent an id for a soul with positive confidences, it
\* is not taken when another id is the node's own or has been sent by trusted peers alone,
\* with confidences that are not negative.
THEOREM TrustedVotesAlwaysWin == Spec => []TrustedVotesWin
<1>1. TypeOK => TrustedVotesWin
  <2> SUFFICES ASSUME TypeOK, NEW s \in Soul, NEW bad \in Candidates(s), NEW good \in Candidates(s),
                      Doubtful(s, bad.id), Solid(s, good.id)
               PROVE  bad.id \notin IdsFor(s)
    BY DEF TrustedVotesWin
  <2> DEFINE own == {c.id : c \in {d \in Candidates(s) : d.address = Own}}
             ids == {c.id : c \in Candidates(s)}
             best == {k \in ids : \A j \in ids : ~ Beaten(Score(s, k), Score(s, j))}
  <2>1. IdsFor(s) = IF own # {} THEN own ELSE best
    <3>1. ids # {} OBVIOUS
    <3> QED BY <3>1 DEF IdsFor
  <2>2. bad.id \notin own
    <3>1. \A c \in Candidates(s) : c.id = bad.id => c.address # Own BY DEF Doubtful, Votes
    <3> QED BY <3>1
  <2>3. CASE own = {}
    <3>1. \A v \in Votes(s, bad.id) : Against(v) BY DEF Doubtful, Against
    <3>2. \A v \in Votes(s, good.id) : InFavour(v) BY <2>3 DEF Solid, InFavour, Votes
    <3>3. Votes(s, bad.id) # {} BY DEF Votes
    <3>4. Beaten(Score(s, bad.id), Score(s, good.id)) BY <3>1, <3>2, <3>3, TrustedBeatsDistrusted
    <3>5. bad.id \notin best BY <3>4
    <3> QED BY <2>1, <2>3, <3>5
  <2>4. CASE own # {} BY <2>1, <2>2, <2>4
  <2> QED BY <2>3, <2>4
<1> QED BY <1>1, SearchIsTyped, PTL

=============================================================================
