---------------------------- MODULE NodeCacheProofs ----------------------------
(***************************************************************************)
(* Proofs about NodeCache, for any sets of peers, blocks, bootstraps and   *)
(* readers and any number of passes.                                       *)
(***************************************************************************)
EXTENDS NodeCache, TLAPS

\* The latest pass that read a peer, if one did: carried along the behaviour,
\* it is what makes Latest meaningful without induction over the passes.
HasLatest(h) ==
  ReadPasses(h) # {} => \E i \in ReadPasses(h) : \A j \in ReadPasses(h) : j <= i

-----------------------------------------------------------------------------
(* Lemmas about documents.                                                 *)

\* What a pass stamps is a document (build_snapshot).
LEMMA FreshType ==
  ASSUME NEW r \in CrawlResults, NEW n \in Nat
  PROVE  FreshDocument(r, n) \in Documents
BY DEF CrawlResults, Documents, FreshDocument, None

\* Merging a document with a fresh one gives a document (merge_crawl).
LEMMA MergeType ==
  ASSUME NEW d \in Documents, NEW f \in Documents
  PROVE  MergeCrawl(d, f) \in Documents
<1>1. Held(d, f) \in Documents
  BY DEF Documents, Held, None
<1> QED BY <1>1 DEF MergeCrawl

\* The list derived from a document has the list's type (node_entries).
LEMMA EntriesType ==
  ASSUME NEW d \in Documents
  PROVE  NodeEntries(d) \in NodeLists
BY DEF Documents, NodeEntries, NodeLists

\* The latest of the passes that read a peer is one of them.
LEMMA LatestIn ==
  ASSUME NEW h, HasLatest(h), ReadPasses(h) # {}
  PROVE  /\ Latest(ReadPasses(h)) \in ReadPasses(h)
         /\ \A j \in ReadPasses(h) : j <= Latest(ReadPasses(h))
BY DEF HasLatest, Latest

\* How one more pass changes the set of passes that read a peer.
LEMMA ReadPassesAppend ==
  ASSUME NEW h \in Seq(CrawlResults), NEW r \in CrawlResults
  PROVE  ReadPasses(Append(h, r)) =
           IF r.peers = {} THEN ReadPasses(h) ELSE ReadPasses(h) \cup {Len(h) + 1}
<1>1. /\ Len(Append(h, r)) = Len(h) + 1
      /\ DOMAIN Append(h, r) = 1 .. Len(h) + 1
      /\ DOMAIN h = 1 .. Len(h)
      /\ Len(h) \in Nat
      /\ \A i \in 1 .. Len(h) : Append(h, r)[i] = h[i]
      /\ Append(h, r)[Len(h) + 1] = r
  OBVIOUS
<1> QED BY <1>1 DEF ReadPasses

\* Appending a pass to a sequence keeps its latest reading pass defined: it is the
\* new pass if that read a peer, and the old one otherwise.
LEMMA HasLatestAppend ==
  ASSUME NEW h \in Seq(CrawlResults), NEW r \in CrawlResults, HasLatest(h)
  PROVE  /\ HasLatest(Append(h, r))
         /\ r.peers # {} => Latest(ReadPasses(Append(h, r))) = Len(h) + 1
<1>1. CASE r.peers = {}
  BY <1>1, ReadPassesAppend DEF HasLatest
<1>2. CASE r.peers # {}
  <2>1. ReadPasses(Append(h, r)) = ReadPasses(h) \cup {Len(h) + 1}
    BY <1>2, ReadPassesAppend
  <2>2. \A j \in ReadPasses(h) : j \in Int /\ j <= Len(h)
    BY DEF ReadPasses
  <2>3. \A j \in ReadPasses(Append(h, r)) : j <= Len(h) + 1
    BY <2>1, <2>2
  <2>4. HasLatest(Append(h, r))
    BY <2>1, <2>3 DEF HasLatest
  <2>5. /\ Latest(ReadPasses(Append(h, r))) \in ReadPasses(Append(h, r))
        /\ Len(h) + 1 <= Latest(ReadPasses(Append(h, r)))
    BY <2>1, <2>4, LatestIn
  <2>6. Latest(ReadPasses(Append(h, r))) \in Int
    BY <2>1, <2>2, <2>5
  <2> QED BY <2>3, <2>4, <2>5, <2>6
<1> QED BY <1>1, <1>2

\* The three forms of DocumentOf, unfolded once.
LEMMA DocumentOfRead ==
  ASSUME NEW h \in Seq(CrawlResults), HasLatest(h), ReadPasses(h) # {},
         NEW i, i = Latest(ReadPasses(h))
  PROVE  /\ i \in 1 .. Len(h) /\ h[i] \in CrawlResults /\ h[i].peers # {}
         /\ Len(h) \in Nat \ {0} /\ h[Len(h)] \in CrawlResults
         /\ DocumentOf(h) =
              [peers |-> h[i].peers, blocks |-> h[i].blocks, dots |-> h[Len(h)].dots,
               last_updated |-> i, timed |-> Len(h),
               stale_since |-> IF i = Len(h) THEN None ELSE i,
               crawls_held |-> Len(h) - i]
<1>1. i \in 1 .. Len(h) /\ h[i].peers # {}
  <2>1. i \in ReadPasses(h)
    BY LatestIn
  <2>2. DOMAIN h = 1 .. Len(h)
    OBVIOUS
  <2> QED BY <2>1, <2>2 DEF ReadPasses
<1>2. Len(h) # 0 /\ Len(h) \in Nat /\ h[i] \in CrawlResults /\ h[Len(h)] \in CrawlResults
  BY <1>1
<1> QED BY <1>1, <1>2 DEF DocumentOf, FreshDocument

\* Before any pass has read a peer, the latest pass is served as it is.
LEMMA DocumentOfUnread ==
  ASSUME NEW h \in Seq(CrawlResults), ReadPasses(h) = {}
  PROVE  DocumentOf(h) = IF Len(h) = 0 THEN EmptyDocument ELSE FreshDocument(h[Len(h)], Len(h))
BY DEF DocumentOf

\* One merge does what the whole sequence calls for: the served document of a
\* sequence, merged with the next crawl, is that of the longer sequence.
LEMMA MergeExtends ==
  ASSUME NEW h \in Seq(CrawlResults), NEW r \in CrawlResults, HasLatest(h)
  PROVE  MergeCrawl(DocumentOf(h), FreshDocument(r, Len(h) + 1)) = DocumentOf(Append(h, r))
<1> DEFINE g == Append(h, r)
           n == Len(h)
           f == FreshDocument(r, n + 1)
<1>1. /\ g \in Seq(CrawlResults) /\ HasLatest(g)
      /\ Len(g) = n + 1 /\ g[n + 1] = r /\ n \in Nat
      /\ \A k \in 1 .. n : g[k] = h[k]
  BY HasLatestAppend
<1>2. CASE r.peers # {}
  <2>1. ReadPasses(g) # {} /\ Latest(ReadPasses(g)) = n + 1
    BY <1>2, ReadPassesAppend, HasLatestAppend
  <2>2. DocumentOf(g) =
          [peers |-> r.peers, blocks |-> r.blocks, dots |-> r.dots, last_updated |-> n + 1,
           timed |-> n + 1, stale_since |-> None, crawls_held |-> n + 1 - (n + 1)]
    <3> HIDE DEF g, n
    <3> QED BY <1>1, <2>1, DocumentOfRead
  <2>3. n + 1 - (n + 1) = 0
    BY <1>1
  <2>4. DocumentOf(g) = f
    BY <2>2, <2>3 DEF FreshDocument
  <2> QED BY <1>2, <2>4 DEF MergeCrawl, FreshDocument
<1>3. CASE r.peers = {} /\ ReadPasses(h) = {}
  <2>1. ReadPasses(g) = {}
    BY <1>3, ReadPassesAppend
  <2>2. DocumentOf(g) = f
    <3>1. DocumentOf(g) = FreshDocument(g[Len(g)], Len(g))
      <4> HIDE DEF g
      <4> QED BY <1>1, <2>1, DocumentOfUnread
    <3> QED BY <1>1, <3>1
  <2>3. DocumentOf(h).peers = {}
    <3>1. CASE n = 0
      <4>1. DocumentOf(h) = EmptyDocument
        BY <1>3, <3>1, DocumentOfUnread
      <4> QED BY <4>1 DEF EmptyDocument
    <3>2. CASE n # 0
      <4>1. DocumentOf(h).peers = h[n].peers
        BY <1>3, <3>2, DocumentOfUnread DEF FreshDocument
      <4>2. n \in DOMAIN h
        BY <1>1, <3>2
      <4> QED BY <1>3, <4>1, <4>2 DEF ReadPasses
    <3> QED BY <3>1, <3>2
  <2> QED BY <2>2, <2>3 DEF MergeCrawl
<1>4. CASE r.peers = {} /\ ReadPasses(h) # {}
  <2> DEFINE i == Latest(ReadPasses(h))
  <2>1. ReadPasses(g) = ReadPasses(h)
    BY <1>4, ReadPassesAppend
  <2>2. /\ i \in 1 .. n /\ h[i].peers # {}
        /\ DocumentOf(h) =
             [peers |-> h[i].peers, blocks |-> h[i].blocks, dots |-> h[n].dots,
              last_updated |-> i, timed |-> n, stale_since |-> IF i = n THEN None ELSE i,
              crawls_held |-> n - i]
    BY <1>4, DocumentOfRead
  <2>3. DocumentOf(g) =
          [peers |-> h[i].peers, blocks |-> h[i].blocks, dots |-> r.dots,
           last_updated |-> i, timed |-> n + 1,
           stale_since |-> IF i = n + 1 THEN None ELSE i, crawls_held |-> n + 1 - i]
    <3>1. i = Latest(ReadPasses(g)) /\ ReadPasses(g) # {} /\ g[i] = h[i]
      BY <1>1, <1>4, <2>1, <2>2
    <3> HIDE DEF g, n, i
    <3> QED BY <1>1, <3>1, DocumentOfRead
  <2>4. /\ i # n + 1 /\ i # None /\ n - i + 1 = n + 1 - i
        /\ (IF i = n THEN None ELSE i) = None <=> i = n
    BY <1>1, <2>2 DEF None
  <2>5. MergeCrawl(DocumentOf(h), f) = Held(DocumentOf(h), f)
    BY <1>4, <2>2 DEF MergeCrawl, FreshDocument
  <2>6. /\ f.peers = r.peers /\ f.dots = r.dots /\ f.timed = n + 1
    BY DEF FreshDocument
  <2>7. (IF (IF i = n THEN None ELSE i) = None THEN i ELSE (IF i = n THEN None ELSE i)) = i
    BY <2>4
  <2> HIDE DEF i, f, g, n
  <2>8. Held(DocumentOf(h), f) =
          [peers |-> h[i].peers, blocks |-> h[i].blocks, dots |-> r.dots,
           last_updated |-> i, timed |-> n + 1, stale_since |-> i,
           crawls_held |-> n - i + 1]
    BY <2>2, <2>6, <2>7 DEF Held
  <2> QED BY <2>3, <2>4, <2>5, <2>8 DEF f, g, n
<1> QED BY <1>2, <1>3, <1>4

\* A document served after n passes is a document, and its data is no newer
\* than the n-th pass, whose timings it carries.
LEMMA DocumentOfType ==
  ASSUME NEW h \in Seq(CrawlResults), HasLatest(h)
  PROVE  /\ DocumentOf(h) \in Documents
         /\ DocumentOf(h).timed = Len(h)
         /\ DocumentOf(h).last_updated <= Len(h)
<1>1. CASE ReadPasses(h) = {} /\ Len(h) = 0
  <2>1. DocumentOf(h) = EmptyDocument
    BY <1>1, DocumentOfUnread
  <2>2. /\ EmptyDocument \in Documents
        /\ EmptyDocument.timed = 0 /\ EmptyDocument.last_updated = 0
    BY DEF EmptyDocument, Documents, None
  <2> QED BY <1>1, <2>1, <2>2
<1>2. CASE ReadPasses(h) = {} /\ Len(h) # 0
  <2>1. Len(h) \in Nat /\ h[Len(h)] \in CrawlResults
    BY <1>2
  <2>2. DocumentOf(h) = FreshDocument(h[Len(h)], Len(h))
    BY <1>2, DocumentOfUnread
  <2>3. /\ FreshDocument(h[Len(h)], Len(h)).timed = Len(h)
        /\ FreshDocument(h[Len(h)], Len(h)).last_updated = Len(h)
    BY DEF FreshDocument
  <2> QED BY <2>1, <2>2, <2>3, FreshType
<1>3. CASE ReadPasses(h) # {}
  <2> DEFINE i == Latest(ReadPasses(h))
  <2>1. /\ i \in 1 .. Len(h) /\ h[i] \in CrawlResults /\ h[Len(h)] \in CrawlResults
        /\ Len(h) \in Nat
        /\ DocumentOf(h) =
              [peers |-> h[i].peers, blocks |-> h[i].blocks, dots |-> h[Len(h)].dots,
               last_updated |-> i, timed |-> Len(h),
               stale_since |-> IF i = Len(h) THEN None ELSE i,
               crawls_held |-> Len(h) - i]
    BY <1>3, DocumentOfRead
  <2>2. Len(h) - i \in Nat /\ i \in Nat /\ (IF i = Len(h) THEN None ELSE i) \in Nat
    BY <2>1 DEF None
  <2>3. /\ h[i].peers \in SUBSET Peers /\ h[i].blocks \in SUBSET Blocks
        /\ h[Len(h)].dots \in SUBSET Bootstraps
    BY <2>1 DEF CrawlResults
  <2> HIDE DEF i
  <2> QED BY <2>1, <2>2, <2>3 DEF Documents
<1> QED BY <1>1, <1>2, <1>3

-----------------------------------------------------------------------------
(* Type correctness.                                                       *)

\* A step that leaves the readers alone keeps what TypeOK says of them.
ReadersOK ==
  /\ serving \in [Readers -> Endpoints \cup {"idle"}]
  /\ got \in [Readers -> [docs : Seq(Documents), lists : Seq(NodeLists)]]
  /\ \A r \in Readers : IF serving[r] = "idle" THEN got[r] = NothingRead
                                               ELSE ReadsMade(r) <= Len(Reads[serving[r]])

\* The reads of every endpoint: two or three, none of them of an idle reader.
LEMMA ReadsType ==
  /\ "idle" \notin Endpoints
  /\ \A e \in Endpoints : Len(Reads[e]) \in 1 .. 3
BY DEF Endpoints, Reads

\* The cache, the crawler and the handlers start well typed (NodeCache::new).
LEMMA InitType == Init => TypeOK
<1> SUFFICES ASSUME Init PROVE TypeOK
  OBVIOUS
<1>1. EmptyDocument \in Documents
  BY DEF EmptyDocument, Documents, None
<1>2. NothingRead \in [docs : Seq(Documents), lists : Seq(NodeLists)]
  BY DEF NothingRead
<1> QED BY <1>1, <1>2 DEF Init, TypeOK, NodeLists, CrawlerSteps

\* Sums and record updates, in the forms the steps below need.
LEMMA SumNat ==
  ASSUME NEW a \in Nat, NEW b \in Nat
  PROVE  a + b \in Nat
OBVIOUS

\* A reader's record after its documents change.
LEMMA UpdateDocs ==
  ASSUME NEW S, NEW T, NEW x \in [docs : S, lists : T], NEW y
  PROVE  [x EXCEPT !.docs = y] = [docs |-> y, lists |-> x.lists]
OBVIOUS

\* A reader's record after its lists change.
LEMMA UpdateLists ==
  ASSUME NEW S, NEW T, NEW x \in [docs : S, lists : T], NEW y
  PROVE  [x EXCEPT !.lists = y] = [docs |-> x.docs, lists |-> y]
OBVIOUS

\* What a reader has read, and how many reads that is.
LEMMA GotType ==
  ASSUME ReadersOK, NEW r \in Readers
  PROVE  /\ got[r] \in [docs : Seq(Documents), lists : Seq(NodeLists)]
         /\ ReadsMade(r) = Len(got[r].docs) + Len(got[r].lists)
         /\ ReadsMade(r) \in Nat
<1>1. got[r] \in [docs : Seq(Documents), lists : Seq(NodeLists)]
  BY DEF ReadersOK
<1>2. Len(got[r].docs) \in Nat /\ Len(got[r].lists) \in Nat
  BY <1>1
<1>3. ReadsMade(r) = Len(got[r].docs) + Len(got[r].lists)
  BY DEF ReadsMade
<1>4. ReadsMade(r) \in Nat
  BY <1>2, <1>3, SumNat
<1> QED BY <1>1, <1>3, <1>4

WithDoc(g, d) == [docs |-> Append(g.docs, d), lists |-> g.lists]
WithList(g, l) == [docs |-> g.docs, lists |-> Append(g.lists, l)]

\* Reading one more document, or one more list, is one more read made.
LEMMA AppendDoc ==
  ASSUME ReadersOK, NEW r \in Readers, NEW d \in Documents
  PROVE  LET g == WithDoc(got[r], d)
         IN  /\ g \in [docs : Seq(Documents), lists : Seq(NodeLists)]
             /\ Len(g.docs) + Len(g.lists) = ReadsMade(r) + 1
             /\ [got EXCEPT ![r].docs = Append(@, d)] = [got EXCEPT ![r] = g]
<1>1. PICK x \in [docs : Seq(Documents), lists : Seq(NodeLists)] : x = got[r]
  BY GotType
<1> DEFINE a == Append(x.docs, d)
           g == [docs |-> a, lists |-> x.lists]
<1>2. /\ g \in [docs : Seq(Documents), lists : Seq(NodeLists)]
      /\ Len(g.docs) + Len(g.lists) = Len(x.docs) + Len(x.lists) + 1
  OBVIOUS
<1>3. [x EXCEPT !.docs = a] = g
  <2> HIDE DEF a
  <2> QED BY UpdateDocs
<1>4. ReadsMade(r) = Len(x.docs) + Len(x.lists)
  BY <1>1, GotType
<1>5. [got EXCEPT ![r].docs = Append(@, d)] = [got EXCEPT ![r] = g]
  BY <1>1, <1>3
<1>6. g = WithDoc(got[r], d)
  BY <1>1 DEF WithDoc
<1> HIDE DEF g
<1> QED BY <1>2, <1>4, <1>5, <1>6

\* The same for a list.
LEMMA AppendList ==
  ASSUME ReadersOK, NEW r \in Readers, NEW l \in NodeLists
  PROVE  LET g == WithList(got[r], l)
         IN  /\ g \in [docs : Seq(Documents), lists : Seq(NodeLists)]
             /\ Len(g.docs) + Len(g.lists) = ReadsMade(r) + 1
             /\ [got EXCEPT ![r].lists = Append(@, l)] = [got EXCEPT ![r] = g]
<1>1. PICK x \in [docs : Seq(Documents), lists : Seq(NodeLists)] : x = got[r]
  BY GotType
<1> DEFINE a == Append(x.lists, l)
           g == [docs |-> x.docs, lists |-> a]
<1>2. /\ g \in [docs : Seq(Documents), lists : Seq(NodeLists)]
      /\ Len(g.docs) + Len(g.lists) = Len(x.docs) + Len(x.lists) + 1
  OBVIOUS
<1>3. [x EXCEPT !.lists = a] = g
  <2> HIDE DEF a
  <2> QED BY UpdateLists
<1>4. ReadsMade(r) = Len(x.docs) + Len(x.lists)
  BY <1>1, GotType
<1>5. [got EXCEPT ![r].lists = Append(@, l)] = [got EXCEPT ![r] = g]
  BY <1>1, <1>3
<1>6. g = WithList(got[r], l)
  BY <1>1 DEF WithList
<1> HIDE DEF g
<1> QED BY <1>2, <1>4, <1>5, <1>6

\* One read is one more read made.
LEMMA ReadType ==
  ASSUME TypeOK, NEW r \in Readers, NEW what, NextRead(r, what),
         NEW g \in [docs : Seq(Documents), lists : Seq(NodeLists)],
         Len(g.docs) + Len(g.lists) = ReadsMade(r) + 1,
         got' = [got EXCEPT ![r] = g], serving' = serving
  PROVE  ReadersOK'
<1>1. serving[r] \in Endpoints /\ ReadsMade(r) + 1 <= Len(Reads[serving[r]])
  <2>1. ReadsMade(r) \in Nat
    BY GotType DEF TypeOK, ReadersOK
  <2>2. serving[r] \in Endpoints /\ ReadsMade(r) < Len(Reads[serving[r]])
    BY DEF TypeOK, NextRead
  <2> QED BY <2>1, <2>2, ReadsType
<1>2. got' \in [Readers -> [docs : Seq(Documents), lists : Seq(NodeLists)]]
  BY DEF TypeOK
<1>3. ASSUME NEW q \in Readers
      PROVE  IF serving'[q] = "idle" THEN got'[q] = NothingRead
                                     ELSE ReadsMade(q)' <= Len(Reads[serving'[q]])
  <2>1. CASE q = r
    BY <2>1, <1>1, ReadsType DEF TypeOK, ReadsMade
  <2>2. CASE q # r
    BY <2>2 DEF TypeOK, ReadsMade
  <2> QED BY <2>1, <2>2
<1> QED BY <1>2, <1>3 DEF ReadersOK, TypeOK

\* A reader that starts or ends a request has read nothing.
LEMMA RequestType ==
  ASSUME TypeOK, NEW r \in Readers, NEW e \in Endpoints \cup {"idle"},
         serving' = [serving EXCEPT ![r] = e], got' = [got EXCEPT ![r] = NothingRead]
  PROVE  ReadersOK'
<1>1. NothingRead \in [docs : Seq(Documents), lists : Seq(NodeLists)]
      /\ Len(NothingRead.docs) + Len(NothingRead.lists) = 0
  BY DEF NothingRead
<1>2. ASSUME NEW q \in Readers
      PROVE  IF serving'[q] = "idle" THEN got'[q] = NothingRead
                                     ELSE ReadsMade(q)' <= Len(Reads[serving'[q]])
  <2>1. CASE q = r
    BY <2>1, <1>1, ReadsType DEF TypeOK, ReadsMade
  <2>2. CASE q # r
    BY <2>2 DEF TypeOK, ReadsMade
  <2> QED BY <2>1, <2>2
<1> QED BY <1>1, <1>2 DEF ReadersOK, TypeOK

\* Every step of the crawler and of the handlers keeps the types.
LEMMA TypeNext == TypeOK /\ [Next]_vars => TypeOK'
<1> SUFFICES ASSUME TypeOK, [Next]_vars PROVE TypeOK'
  OBVIOUS
<1> DEFINE CacheOK == /\ snapshot \in Documents /\ served \in Documents
                      /\ nodes \in NodeLists /\ pc \in CrawlerSteps
                      /\ result \in CrawlResults /\ crawls \in Seq(CrawlResults)
<1>0. ReadersOK /\ CacheOK
  BY DEF TypeOK, ReadersOK
<1>1. CASE \E r \in CrawlResults : CrawlOnce(r)
  BY <1>1, <1>0 DEF CrawlOnce, TypeOK, CrawlerSteps, ReadersOK, ReadsMade
<1>2. CASE Merge
  <2>1. FreshDocument(result, ThisPass) \in Documents
    BY <1>0, FreshType DEF ThisPass
  <2>2. served' \in Documents
    BY <1>2, <1>0, <2>1, MergeType DEF Merge
  <2> QED BY <1>2, <1>0, <2>2 DEF Merge, TypeOK, CrawlerSteps, ReadersOK, ReadsMade
<1>3. CASE WriteSnapshot
  <2>1. Append(crawls, result) \in Seq(CrawlResults)
    BY <1>0
  <2>2. ReadersOK'
    BY <1>3, <1>0 DEF WriteSnapshot, ReadersOK, ReadsMade
  <2> QED BY <1>3, <1>0, <2>1, <2>2 DEF WriteSnapshot, TypeOK, CrawlerSteps, ReadersOK
<1>4. CASE WriteNodes
  <2>1. NodeEntries(served) \in NodeLists
    BY <1>0, EntriesType
  <2> QED BY <1>4, <1>0, <2>1 DEF WriteNodes, TypeOK, CrawlerSteps, ReadersOK, ReadsMade
<1>5. CASE Wake
  BY <1>5, <1>0 DEF Wake, TypeOK, CrawlerSteps, ReadersOK, ReadsMade
<1>6. ASSUME NEW r \in Readers, Reader(r)
      PROVE  TypeOK'
  <2>1. CacheOK'
    BY <1>0, <1>6 DEF Reader, Request, ReadSnapshot, ReadNodes, Respond, Disconnect
  <2>2. ASSUME NEW e \in Endpoints, Request(r, e)
        PROVE  ReadersOK'
    <3>1. got = [got EXCEPT ![r] = NothingRead]
      BY <2>2 DEF Request, TypeOK
    <3> QED BY <2>2, <3>1, RequestType DEF Request
  <2>3. ASSUME ReadSnapshot(r)
        PROVE  ReadersOK'
    <3> DEFINE g == WithDoc(got[r], snapshot)
    <3>1. /\ g \in [docs : Seq(Documents), lists : Seq(NodeLists)]
          /\ Len(g.docs) + Len(g.lists) = ReadsMade(r) + 1
          /\ [got EXCEPT ![r].docs = Append(@, snapshot)] = [got EXCEPT ![r] = g]
      BY <1>0, AppendDoc
    <3> HIDE DEF g
    <3> QED BY <2>3, <3>1, ReadType DEF ReadSnapshot
  <2>4. ASSUME ReadNodes(r)
        PROVE  ReadersOK'
    <3> DEFINE g == WithList(got[r], nodes)
    <3>1. /\ g \in [docs : Seq(Documents), lists : Seq(NodeLists)]
          /\ Len(g.docs) + Len(g.lists) = ReadsMade(r) + 1
          /\ [got EXCEPT ![r].lists = Append(@, nodes)] = [got EXCEPT ![r] = g]
      BY <1>0, AppendList
    <3> HIDE DEF g
    <3> QED BY <2>4, <3>1, ReadType DEF ReadNodes
  <2>5. ASSUME Respond(r) \/ Disconnect(r)
        PROVE  ReadersOK'
    <3>1. PICK e \in Endpoints \cup {"idle"} : serving' = [serving EXCEPT ![r] = e]
      BY <2>5 DEF Respond, Disconnect, TypeOK
    <3>2. got' = [got EXCEPT ![r] = NothingRead]
      BY <2>5 DEF Respond, Disconnect
    <3> QED BY <3>1, <3>2, RequestType
  <2>6. ReadersOK'
    BY <1>6, <2>2, <2>3, <2>4, <2>5 DEF Reader
  <2> QED BY <2>1, <2>6 DEF TypeOK, ReadersOK
<1>7. CASE UNCHANGED vars
  BY <1>7, <1>0 DEF vars, TypeOK, ReadersOK, ReadsMade
<1> QED BY <1>1, <1>2, <1>3, <1>4, <1>5, <1>6, <1>7 DEF Next, Crawler

\* The variables keep their types, for any constants (type correctness of the
\* cache and its handlers).
THEOREM TypeCorrect == Spec => []TypeOK
BY InitType, TypeNext, PTL DEF Spec

-----------------------------------------------------------------------------
(* What is served.                                                         *)

\* The node list, while publish is between its writes and otherwise, and the
\* document publish has merged and not written yet.
ServedInv ==
  /\ HasLatest(crawls)
  /\ snapshot = DocumentOf(crawls)
  /\ pc = "writing snapshot" => served = DocumentOf(Append(crawls, result))
  /\ pc = "writing nodes" => served = snapshot /\ Len(crawls) > 0
  /\ NodesFollowSnapshot

\* The empty document is what no crawl at all calls for.
LEMMA ServedInit == Init => ServedInv
<1> SUFFICES ASSUME Init PROVE ServedInv
  OBVIOUS
<1>1. crawls \in Seq(CrawlResults) /\ Len(crawls) = 0 /\ ReadPasses(crawls) = {}
  BY DEF Init, ReadPasses
<1>2. DocumentOf(crawls) = EmptyDocument
  BY <1>1, DocumentOfUnread
<1>3. NodeEntries(EmptyDocument) = {}
  BY DEF NodeEntries, EmptyDocument
<1> QED BY <1>1, <1>2, <1>3 DEF Init, ServedInv, HasLatest, NodesFollowSnapshot

\* Cutting a longer sequence back to where a shorter one ended.
LEMMA PrefixOfAppend ==
  ASSUME NEW h \in Seq(CrawlResults), NEW r, NEW k \in 0 .. Len(h)
  PROVE  SubSeq(Append(h, r), 1, k) = SubSeq(h, 1, k)
OBVIOUS

\* Cutting a sequence at its own length leaves it whole.
LEMMA WholePrefix ==
  ASSUME NEW h \in Seq(CrawlResults)
  PROVE  SubSeq(h, 1, Len(h)) = h
OBVIOUS

\* Every step of the crawler and of the handlers keeps the invariant: one step
\* per action, the merge by MergeExtends.
LEMMA ServedNext == TypeOK /\ ServedInv /\ [Next]_vars => ServedInv'
<1> SUFFICES ASSUME TypeOK, ServedInv, [Next]_vars PROVE ServedInv'
  OBVIOUS
<1>0. crawls \in Seq(CrawlResults) /\ result \in CrawlResults /\ Len(crawls) \in Nat
  BY DEF TypeOK
<1>1. CASE \E r \in CrawlResults : CrawlOnce(r)
  BY <1>1 DEF CrawlOnce, ServedInv, NodesFollowSnapshot
<1>2. CASE Merge
  <2>1. served' = DocumentOf(Append(crawls, result))
    BY <1>0, <1>2, MergeExtends DEF Merge, ServedInv, ThisPass
  <2> QED BY <1>2, <2>1 DEF Merge, ServedInv, NodesFollowSnapshot
<1>3. CASE WriteSnapshot
  <2>1. /\ snapshot' = DocumentOf(crawls') /\ served' = snapshot'
        /\ crawls' = Append(crawls, result) /\ pc' = "writing nodes" /\ nodes' = nodes
    BY <1>3 DEF WriteSnapshot, ServedInv
  <2>2. HasLatest(crawls') /\ Len(crawls') = Len(crawls) + 1
    <3>1. HasLatest(crawls)
      BY DEF ServedInv
    <3>2. HasLatest(Append(crawls, result))
      BY <1>0, <3>1, HasLatestAppend
    <3>3. Len(Append(crawls, result)) = Len(crawls) + 1
      BY <1>0
    <3> QED BY <2>1, <3>2, <3>3
  <2>3. SubSeq(crawls', 1, Len(crawls') - 1) = crawls
    <3>1. SubSeq(crawls', 1, Len(crawls)) = crawls
      <4>1. SubSeq(Append(crawls, result), 1, Len(crawls)) = SubSeq(crawls, 1, Len(crawls))
        BY <1>0, PrefixOfAppend
      <4> QED BY <1>0, <2>1, <4>1, WholePrefix
    <3>2. Len(crawls') - 1 = Len(crawls)
      BY <1>0, <2>2
    <3> QED BY <3>1, <3>2
  <2>4. nodes = NodeEntries(DocumentOf(crawls))
    BY <1>3 DEF WriteSnapshot, ServedInv, NodesFollowSnapshot
  <2>5. NodesFollowSnapshot'
    BY <2>1, <2>3, <2>4 DEF NodesFollowSnapshot
  <2>6. pc' = "writing nodes" => served' = snapshot' /\ Len(crawls') > 0
    <3>1. \A n \in Nat : n + 1 > 0
      OBVIOUS
    <3>2. Len(crawls') > 0
      BY <1>0, <2>2, <3>1
    <3> QED BY <2>1, <3>2
  <2> QED BY <2>1, <2>2, <2>5, <2>6 DEF ServedInv
<1>4. CASE WriteNodes
  BY <1>4 DEF WriteNodes, ServedInv, NodesFollowSnapshot
<1>5. CASE Wake
  BY <1>5 DEF Wake, ServedInv, NodesFollowSnapshot
<1>6. CASE \E r \in Readers : Reader(r)
  BY <1>6 DEF Reader, Request, ReadSnapshot, ReadNodes, Respond, Disconnect, ServedInv,
              NodesFollowSnapshot
<1>7. CASE UNCHANGED vars
  BY <1>7 DEF vars, ServedInv, NodesFollowSnapshot
<1> QED BY <1>1, <1>2, <1>3, <1>4, <1>5, <1>6, <1>7 DEF Next, Crawler

\* The invariant holds in every behaviour of the cache.
LEMMA ServedAlways == Spec => []ServedInv
BY TypeCorrect, ServedInit, ServedNext, PTL DEF Spec

\* However many crawls were merged, one at a time, the served document is the
\* one the whole sequence of crawls calls for (publish and merge_crawl).
THEOREM ServedIsLastReadPassAlways == Spec => []ServedIsLastReadPass
<1>1. ServedInv => ServedIsLastReadPass
  BY DEF ServedInv, ServedIsLastReadPass
<1> QED BY <1>1, ServedAlways, PTL

\* The node list is the served document's, or between the two writes of a
\* publish that of the document before it (publish).
THEOREM NodesFollowSnapshotAlways == Spec => []NodesFollowSnapshot
<1>1. ServedInv => NodesFollowSnapshot
  BY DEF ServedInv
<1> QED BY <1>1, ServedAlways, PTL

\* What is served never goes back in time and never changes the data under a
\* time stamp (merge_crawl keeping last_updated over a hold).
THEOREM SameStampAlways == Spec => SameStampSameData
<1> DEFINE Step == [/\ snapshot'.last_updated >= snapshot.last_updated
                    /\ snapshot'.last_updated = snapshot.last_updated =>
                         /\ snapshot'.peers = snapshot.peers
                         /\ snapshot'.blocks = snapshot.blocks]_snapshot
<1>1. TypeOK /\ ServedInv /\ [Next]_vars => Step
  <2> SUFFICES ASSUME TypeOK, ServedInv, [Next]_vars, snapshot' # snapshot PROVE Step
    OBVIOUS
  <2>1. WriteSnapshot
    BY DEF Next, Crawler, CrawlOnce, Merge, WriteNodes, Wake, Reader, Request, ReadSnapshot,
           ReadNodes, Respond, Disconnect, vars
  <2> DEFINE f == FreshDocument(result, Len(crawls) + 1)
  <2>2. /\ crawls \in Seq(CrawlResults) /\ result \in CrawlResults
        /\ HasLatest(crawls) /\ snapshot = DocumentOf(crawls)
    BY DEF TypeOK, ServedInv
  <2>8. Len(crawls) \in Nat
    BY <2>2
  <2>3. snapshot' = MergeCrawl(snapshot, f)
    BY <2>1, <2>2, MergeExtends DEF WriteSnapshot, ServedInv
  <2>4. snapshot.last_updated \in Nat /\ snapshot.last_updated <= Len(crawls)
    BY <2>2, DocumentOfType DEF Documents
  <2>5. f.last_updated = Len(crawls) + 1
    BY DEF FreshDocument
  <2>6. CASE snapshot' = f
    <3>1. snapshot'.last_updated > snapshot.last_updated
      <4> HIDE DEF f
      <4> QED BY <2>8, <2>4, <2>5, <2>6
    <3> QED BY <2>8, <2>4, <2>5, <2>6, <3>1
  <2>7. CASE snapshot' = Held(snapshot, f)
    <3>1. /\ snapshot'.last_updated = snapshot.last_updated
          /\ snapshot'.peers = snapshot.peers /\ snapshot'.blocks = snapshot.blocks
      BY <2>7 DEF Held
    <3> QED BY <2>4, <3>1
  <2> QED BY <2>3, <2>6, <2>7 DEF MergeCrawl
<1> QED BY <1>1, TypeCorrect, ServedAlways, PTL DEF Spec, SameStampSameData

-----------------------------------------------------------------------------
(* What a handler pairs.                                                   *)

\* A list is the one derived after k of the passes h, k being at most one publish
\* behind the pass n and not beyond m.
ListWithin(list, n, m, h) ==
  \E k \in 0 .. Len(h) :
    n <= k + 1 /\ k <= m /\ list = NodeEntries(DocumentOf(SubSeq(h, 1, k)))

\* The reads g of a request for endpoint e: every endpoint but /api/nodes reads
\* the document first; a document is of a published pass; the list is of no
\* earlier publish than the one before the first document's; what is read second
\* is no older than either.
ReadsInv(e, g, h) ==
  /\ g.lists # <<>> => e = "nodes" \/ g.docs # <<>>
  /\ g.docs # <<>> => g.docs[1].timed \in Nat /\ g.docs[1].timed <= Len(h)
  /\ g.docs # <<>> /\ g.lists # <<>> => ListWithin(g.lists[1], g.docs[1].timed, Len(h), h)
  /\ Len(g.docs) >= 2 =>
       /\ g.docs[2].timed \in Nat /\ g.docs[1].timed <= g.docs[2].timed
       /\ g.lists # <<>> => ListWithin(g.lists[1], g.docs[1].timed, g.docs[2].timed, h)

ReaderInv == \A r \in Readers : ReadsInv(serving[r], got[r], crawls)

\* A further publish leaves the reads already made as they were.
LEMMA ReadsInvAppend ==
  ASSUME NEW h \in Seq(CrawlResults), NEW c \in CrawlResults, NEW e, NEW g, ReadsInv(e, g, h)
  PROVE  ReadsInv(e, g, Append(h, c))
<1>1. Len(Append(h, c)) = Len(h) + 1 /\ Len(h) \in Nat
  OBVIOUS
<1>2. ASSUME g.docs # <<>> PROVE g.docs[1].timed \in Nat /\ g.docs[1].timed <= Len(Append(h, c))
  <2>1. g.docs[1].timed \in Nat /\ g.docs[1].timed <= Len(h)
    BY <1>2 DEF ReadsInv
  <2> QED BY <1>1, <2>1
<1>3. ASSUME NEW list, NEW n, NEW m, ListWithin(list, n, m, h)
      PROVE  /\ ListWithin(list, n, m, Append(h, c))
             /\ m = Len(h) => ListWithin(list, n, Len(Append(h, c)), Append(h, c))
  <2>1. PICK k \in 0 .. Len(h) :
          n <= k + 1 /\ k <= m /\ list = NodeEntries(DocumentOf(SubSeq(h, 1, k)))
    BY <1>3 DEF ListWithin
  <2>2. SubSeq(Append(h, c), 1, k) = SubSeq(h, 1, k)
    BY PrefixOfAppend
  <2>3. k \in 0 .. Len(Append(h, c)) /\ k <= Len(Append(h, c))
    BY <1>1
  <2> QED BY <2>1, <2>2, <2>3 DEF ListWithin
<1> QED BY <1>2, <1>3 DEF ReadsInv

\* Whenever a handler reads the list, it is that of the served document or of
\* the one before.
LEMMA ListNow ==
  ASSUME TypeOK, ServedInv, NEW n \in Nat, n <= Len(crawls)
  PROVE  ListWithin(nodes, n, Len(crawls), crawls)
<1>1. crawls \in Seq(CrawlResults)
  BY DEF TypeOK
<1>2. Len(crawls) \in Nat
  BY <1>1
<1>3. CASE pc = "writing nodes"
  <2>1. Len(crawls) > 0 /\ nodes = NodeEntries(DocumentOf(SubSeq(crawls, 1, Len(crawls) - 1)))
    BY <1>3 DEF ServedInv, NodesFollowSnapshot
  <2>2. Len(crawls) - 1 \in 0 .. Len(crawls) /\ n <= (Len(crawls) - 1) + 1 /\ Len(crawls) - 1 <= Len(crawls)
    BY <1>2, <2>1
  <2> QED BY <2>1, <2>2 DEF ListWithin
<1>4. CASE pc # "writing nodes"
  <2>1. nodes = NodeEntries(DocumentOf(crawls))
    BY <1>4 DEF ServedInv, NodesFollowSnapshot
  <2>2. SubSeq(crawls, 1, Len(crawls)) = crawls
    BY <1>1, WholePrefix
  <2>3. Len(crawls) \in 0 .. Len(crawls) /\ n <= Len(crawls) + 1 /\ Len(crawls) <= Len(crawls)
    BY <1>2
  <2> QED BY <2>1, <2>2, <2>3 DEF ListWithin
<1> QED BY <1>3, <1>4

\* The first read of a request that ends in a list is a document, except for
\* /api/nodes; a request reads its first document before anything else, and the
\* list before its second.
LEMMA ReadOrder ==
  ASSUME TypeOK, NEW r \in Readers
  PROVE  /\ NextRead(r, "nodes") => serving[r] = "nodes" \/ got[r].docs # <<>> \/ got[r].lists # <<>>
         /\ NextRead(r, "snapshot") /\ got[r].docs = <<>> => serving[r] # "nodes"
         /\ NextRead(r, "nodes") => Len(got[r].docs) < 2
<1>1. got[r] \in [docs : Seq(Documents), lists : Seq(NodeLists)]
  BY DEF TypeOK
<1>2. serving[r] \in Endpoints \cup {"idle"}
  BY DEF TypeOK
<1>3. ASSUME NextRead(r, "nodes"), serving[r] # "nodes", got[r].docs = <<>>, got[r].lists = <<>>
      PROVE  FALSE
  <2>1. ReadsMade(r) = 0
    BY <1>3 DEF ReadsMade
  <2>2. Reads[serving[r]][1] = "nodes"
    BY <1>3, <2>1 DEF NextRead
  <2> QED BY <1>2, <1>3, <2>2 DEF Endpoints, Reads, NextRead
<1>4. ASSUME NextRead(r, "snapshot"), serving[r] = "nodes"
      PROVE  FALSE
  <2>1. ReadsMade(r) \in Nat
    BY GotType DEF TypeOK, ReadersOK
  <2>2. Reads["nodes"] = <<"nodes">>
    BY DEF Reads
  <2>3. ReadsMade(r) < 1 /\ Reads["nodes"][ReadsMade(r) + 1] = "snapshot"
    BY <1>4, <2>2 DEF NextRead
  <2> QED BY <2>1, <2>2, <2>3
<1>5. ASSUME NextRead(r, "nodes") PROVE Len(got[r].docs) < 2
  <2>1. /\ ReadsMade(r) = Len(got[r].docs) + Len(got[r].lists)
        /\ Len(got[r].docs) \in Nat /\ Len(got[r].lists) \in Nat /\ ReadsMade(r) \in Nat
    <3>1. PICK x \in [docs : Seq(Documents), lists : Seq(NodeLists)] : x = got[r]
      BY <1>1
    <3>2. Len(x.docs) \in Nat /\ Len(x.lists) \in Nat
      OBVIOUS
    <3> QED BY <3>1, <3>2, GotType DEF TypeOK, ReadersOK
  <2>2. ASSUME NEW n \in Nat, n + 1 <= Len(Reads[serving[r]]), Reads[serving[r]][n + 1] = "nodes"
        PROVE  n < 2
    <3>1. CASE serving[r] = "metrics"
      <4>1. Reads["metrics"] = <<"snapshot", "nodes", "snapshot">>
        BY DEF Reads
      <4>2. n + 1 \in 1 .. 3 /\ <<"snapshot", "nodes", "snapshot">>[n + 1] = "nodes"
        BY <2>2, <3>1, <4>1
      <4>3. n + 1 # 3
        BY <4>2
      <4> QED BY <4>2, <4>3
    <3>2. CASE serving[r] # "metrics"
      <4>1. Len(Reads[serving[r]]) \in 1 .. 2
        BY <1>2, <1>5, <3>2 DEF Endpoints, Reads, NextRead
      <4> QED BY <2>2, <4>1
    <3> QED BY <3>1, <3>2
  <2>3. ReadsMade(r) < Len(Reads[serving[r]]) /\ Reads[serving[r]][ReadsMade(r) + 1] = "nodes"
    BY <1>5 DEF NextRead
  <2>4. Len(Reads[serving[r]]) \in Nat
    BY <1>2, <1>5, ReadsType DEF NextRead
  <2>5. ReadsMade(r) < 2
    <3>1. \A m, n \in Nat : n < m => n + 1 <= m
      OBVIOUS
    <3>2. ReadsMade(r) \in Nat /\ ReadsMade(r) + 1 <= Len(Reads[serving[r]])
      BY <2>1, <2>3, <2>4, <3>1
    <3> QED BY <2>2, <2>3, <3>2
  <2> QED
    <3> DEFINE d == Len(got[r].docs)
               l == Len(got[r].lists)
    <3>1. d \in Nat /\ l \in Nat /\ d + l < 2
      BY <2>1, <2>5
    <3> HIDE DEF d, l
    <3>2. d < 2
      BY <3>1
    <3> QED BY <3>2 DEF d
<1> QED BY <1>3, <1>4, <1>5

\* The first elements of a sequence stay when another is appended.
LEMMA FirstOfAppend ==
  ASSUME NEW S, NEW s \in Seq(S), NEW x \in S
  PROVE  /\ Append(s, x) # <<>>
         /\ s = <<>> => Append(s, x)[1] = x
         /\ s # <<>> => Append(s, x)[1] = s[1]
         /\ Len(s) >= 2 => Append(s, x)[2] = s[2]
         /\ Len(s) = 1 => Append(s, x)[2] = x
         /\ Len(Append(s, x)) >= 2 => Len(s) >= 1
         /\ Len(s) >= 1 <=> s # <<>>
         /\ Len(s) \in Nat
OBVIOUS

\* At the start no handler has read anything.
LEMMA ReaderInit == Init => ReaderInv
BY DEF Init, ReaderInv, ReadsInv, NothingRead

\* Every step keeps the reads of every handler in order.
LEMMA ReaderNext == TypeOK /\ ServedInv /\ ReaderInv /\ [Next]_vars => ReaderInv'
<1> SUFFICES ASSUME TypeOK, ServedInv, ReaderInv, [Next]_vars, NEW q \in Readers
             PROVE  ReadsInv(serving[q], got[q], crawls)'
  BY DEF ReaderInv
<1>0. /\ ReadsInv(serving[q], got[q], crawls) /\ ReadersOK
      /\ crawls \in Seq(CrawlResults) /\ result \in CrawlResults
  BY DEF ReaderInv, TypeOK, ReadersOK
<1>1. CASE WriteSnapshot
  BY <1>0, <1>1, ReadsInvAppend DEF WriteSnapshot
<1>2. CASE (\E c \in CrawlResults : CrawlOnce(c)) \/ Merge \/ WriteNodes \/ Wake \/ UNCHANGED vars
  BY <1>0, <1>2 DEF CrawlOnce, Merge, WriteNodes, Wake, vars
<1>3. ASSUME NEW r \in Readers, Reader(r)
      PROVE  ReadsInv(serving[q], got[q], crawls)'
  <2>0. crawls' = crawls /\ serving' \in [Readers -> Endpoints \cup {"idle"}]
    <3>1. crawls' = crawls
      BY <1>3 DEF Reader, Request, ReadSnapshot, ReadNodes, Respond, Disconnect
    <3>2. serving' \in [Readers -> Endpoints \cup {"idle"}]
      BY <1>3 DEF TypeOK, Reader, Request, ReadSnapshot, ReadNodes, Respond, Disconnect
    <3> QED BY <3>1, <3>2
  <2>1. CASE q # r
    <3>1. serving'[q] = serving[q] /\ got'[q] = got[q]
      BY <1>3, <2>1 DEF TypeOK, Reader, Request, ReadSnapshot, ReadNodes, Respond, Disconnect
    <3> QED BY <1>0, <2>0, <3>1
  <2>2. ASSUME q = r, (\E e \in Endpoints : Request(r, e)) \/ Respond(r) \/ Disconnect(r)
        PROVE  ReadsInv(serving[q], got[q], crawls)'
    <3>1. got'[r] = NothingRead
      BY <2>2, ReadsType DEF TypeOK, Request, Respond, Disconnect
    <3> QED BY <2>2, <3>1 DEF ReadsInv, NothingRead
  <2>3. ASSUME q = r, ReadSnapshot(r)
        PROVE  ReadsInv(serving[q], got[q], crawls)'
    <3>1. snapshot \in Documents /\ snapshot.timed = Len(crawls) /\ Len(crawls) \in Nat
      <4>1. HasLatest(crawls) /\ snapshot = DocumentOf(crawls)
        BY DEF ServedInv
      <4>2. Len(crawls) \in Nat
        BY <1>0
      <4> QED BY <1>0, <4>1, <4>2, DocumentOfType
    <3>2. serving'[r] = serving[r] /\ got' = [got EXCEPT ![r] = WithDoc(got[r], snapshot)]
      BY <1>0, <2>3, <3>1, AppendDoc DEF ReadSnapshot
    <3>3. /\ got'[r].docs = Append(got[r].docs, snapshot) /\ got'[r].lists = got[r].lists
          /\ got[r].docs \in Seq(Documents) /\ got[r].lists \in Seq(NodeLists)
      BY <3>2 DEF TypeOK, WithDoc
    <3>4. got[r].docs = <<>> => got[r].lists = <<>>
      BY <1>0, <2>3, ReadOrder DEF ReadSnapshot, ReadsInv
    <3>5. /\ got'[r].docs # <<>>
          /\ got[r].docs = <<>> => got'[r].docs[1] = snapshot
          /\ got[r].docs # <<>> => got'[r].docs[1] = got[r].docs[1]
      BY <3>1, <3>3, FirstOfAppend
    <3>6. CASE got[r].docs = <<>>
      <4>1. ~(Len(got'[r].docs) >= 2)
        BY <3>1, <3>3, <3>6, FirstOfAppend
      <4> QED BY <2>0, <2>3, <3>1, <3>3, <3>4, <3>5, <3>6, <4>1 DEF ReadsInv
    <3>7. CASE got[r].docs # <<>>
      <4>1. \/ Len(got[r].docs) >= 2 /\ got'[r].docs[2] = got[r].docs[2]
            \/ Len(got[r].docs) = 1 /\ got'[r].docs[2] = snapshot
        <5>1. Len(got[r].docs) \in Nat /\ Len(got[r].docs) >= 1
          BY <3>1, <3>3, <3>7, FirstOfAppend
        <5>2. Len(got[r].docs) >= 2 \/ Len(got[r].docs) = 1
          <6>1. \A n \in Nat : n >= 1 => n >= 2 \/ n = 1
            OBVIOUS
          <6> QED BY <5>1, <6>1
        <5> QED BY <3>1, <3>3, <5>2, FirstOfAppend
      <4>2. /\ got'[r].docs[2].timed \in Nat /\ got'[r].docs[1].timed <= got'[r].docs[2].timed
            /\ got[r].lists # <<>> =>
                 ListWithin(got[r].lists[1], got'[r].docs[1].timed, got'[r].docs[2].timed, crawls)
        BY <1>0, <2>3, <3>1, <3>5, <3>7, <4>1 DEF ReadsInv
      <4> QED BY <1>0, <2>0, <2>3, <3>3, <3>5, <3>7, <4>2 DEF ReadsInv
    <3> QED BY <3>6, <3>7
  <2>4. ASSUME q = r, ReadNodes(r)
        PROVE  ReadsInv(serving[q], got[q], crawls)'
    <3>1. nodes \in NodeLists
      BY DEF TypeOK
    <3>2. serving'[r] = serving[r] /\ got' = [got EXCEPT ![r] = WithList(got[r], nodes)]
      BY <1>0, <2>4, <3>1, AppendList DEF ReadNodes
    <3>3. /\ got'[r].lists = Append(got[r].lists, nodes) /\ got'[r].docs = got[r].docs
          /\ got[r].lists \in Seq(NodeLists)
      BY <3>2 DEF TypeOK, WithList
    <3>4. /\ got'[r].lists # <<>>
          /\ got[r].lists = <<>> => got'[r].lists[1] = nodes
          /\ got[r].lists # <<>> => got'[r].lists[1] = got[r].lists[1]
      BY <3>1, <3>3, FirstOfAppend
    <3>5. serving[r] = "nodes" \/ got[r].docs # <<>>
      BY <1>0, <2>4, ReadOrder DEF ReadNodes, ReadsInv
    <3>6. ASSUME got[r].docs # <<>>
          PROVE  ListWithin(got'[r].lists[1], got[r].docs[1].timed, Len(crawls), crawls)
      <4>1. CASE got[r].lists = <<>>
        BY <1>0, <2>4, <3>4, <3>6, <4>1, ListNow DEF ReadsInv
      <4>2. CASE got[r].lists # <<>>
        BY <1>0, <2>4, <3>4, <3>6, <4>2 DEF ReadsInv
      <4> QED BY <4>1, <4>2
    <3>7. ~(Len(got'[r].docs) >= 2)
      BY <2>4, <3>3, GotType, ReadOrder, <1>0 DEF ReadNodes
    <3> QED BY <1>0, <2>0, <2>4, <3>2, <3>3, <3>5, <3>6, <3>7 DEF ReadsInv
  <2> QED BY <1>3, <2>1, <2>2, <2>3, <2>4 DEF Reader
<1> QED BY <1>1, <1>2, <1>3 DEF Next, Crawler

\* However requests and publishes interleave, the reads of a handler are of
\* publishes in order: a list at most one publish behind the document read
\* before it, and not ahead of the one read after it (stats, metrics and
\* handle_live, reading the two locks of NodeCache one after the other).
THEOREM MixedReadsInOrderAlways == Spec => []MixedReadsInOrder
<1>1. TypeOK /\ ReaderInv => MixedReadsInOrder
  <2> SUFFICES ASSUME TypeOK, ReaderInv, NEW r \in Readers
               PROVE  /\ Len(got[r].docs) = 2 => got[r].docs[1].timed <= got[r].docs[2].timed
                      /\ got[r].docs # <<>> /\ got[r].lists # <<>> =>
                           \E k \in 0 .. Len(crawls) :
                             /\ got[r].docs[1].timed <= k + 1
                             /\ Len(got[r].docs) = 2 => k <= got[r].docs[2].timed
                             /\ got[r].lists[1] = NodeEntries(DocumentOf(SubSeq(crawls, 1, k)))
    BY DEF MixedReadsInOrder
  <2>1. ReadsInv(serving[r], got[r], crawls)
    BY DEF ReaderInv
  <2> QED BY <2>1 DEF ReadsInv, ListWithin
<1> QED BY <1>1, TypeCorrect, ServedAlways, ReaderInit, ReaderNext, PTL DEF Spec
=============================================================================
