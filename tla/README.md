# KwaaiNetMap in TLA+

A model of `map-server`, the Rust program behind the KwaaiNet map: it crawls a
Hivemind DHT through bootstrap peers every 60 seconds, keeps the last document
it built, serves it over HTTP and a WebSocket, and probes single peers on
request. The modules are TLA+ only; TLC checks them on small instances and
TLAPS proves every safety property of the passing runs for every instance: what
is decoded, folded and assembled, what is served and shown, by the process as a
whole too. Liveness is model-checked.

Run from this directory:

    tlc -workers 2 -config node_cache.cfg MCNodeCache.tla
    tlapm NodeCacheProofs.tla

## 1. The system

| Part | Source | State it keeps | Operations |
|---|---|---|---|
| Served state | `cache.rs`, `snapshot.rs`, `merge_crawl` in `crawler.rs` | one document and one node list, behind two RwLocks | `publish`, `snapshot`, `nodes`, `stats` |
| Handlers | `routes.rs` | none of their own; what they have read so far | `/api/v1/state`, `/api/nodes`, `/api/stats`, `/metrics`, `/api/live`, `/api/v1/is_reachable` |
| Crawler loop | `run_crawler` | none between passes but `GeoIp` | crawl, publish, sleep 60 s, for ever |
| Crawl pass | `crawl_once` and its helpers, `dht.rs` | locals: bootstrap set, models, folded records, capability records | dial, discover models, collect blocks, read capabilities, ask kad, dial peers, observe, assemble |
| Bootstrap set | `BootstrapSet` | per entry: `dialed`, `answered` | `live`, `record`, `states` |
| Probes | `reachability.rs` | verdict cache, 300 s per entry | `check`, `dial` |
| Placement | `classify`, `observed_addrs`, `locate_row`, `peer_ip_info_for`, `geoip.rs` | location cache and relay DNS cache, for the life of the process | classify, resolve, warm, locate |
| Observer | `observer.rs` (kwaai_p2p swarm) | connections, routing table | external; one swarm shared by crawl and probes |
| Process | `main.rs`, `state.rs` | task handles | start, supervise, exit with the swarm |
| Map page | `docker/kwaainet_health/kwaainet.html` | last state drawn | poll `api/v1/state`, draw |
| v1 health server | `docker/kwaainet_health/*.py`, patches | scripts around a server that is not in the repository | start-up checks |

How they interact. The crawler task is the only writer of the served state; the
handlers are readers in tasks of their own, and meet it at the two locks. The
crawler and the probes share one swarm: both dial through it, and a probe ends
by closing every connection to the peer it asked for. A crawl reads addresses
off the connections its own dials opened, so anything that closes them in
between shows in the document. The document feeds the probes back: a probe
dials the addresses the served document lists.

What is hard here: publishing in two writes while readers take two or three
reads; an arbitrary sequence of full, empty and held passes; bootstraps that
answer, garble or lose any query, hold copies of different age, and are dropped
in the middle of a pass; requests, location pass, peers and idle timeouts all
opening and closing connections of one swarm; verdicts and lookups that are
cached and age; failures half way through a batch of lookups; good records
stored among unreadable ones; a swarm, a crawler and a listener that end
separately.

What makes each part correct:

- Served state: at every moment the document is the one the whole history of
  passes calls for; node list and document agree except within one publish; a
  handler that reads several times reads publishes in order, the list at most one
  behind the first document; time never goes back.
- Crawl pass: the fold over replies loses and invents nothing; an entry that
  failed is not asked again; the dots say who answered; a report is healthy
  exactly if every block has a server shown online, up to results of replies
  beyond the keys asked for; every pass ends.
- Decoding and figures: every announced record counts, whatever it lies among;
  reports, peer rows, contributors and coverage tell one story.
- Crawler loop: what a pass returns is what the cache expects; no pass is
  dropped. A document that lists no peer is replaced by any pass, though it may
  report models, whose servers are then all excluded from the list:
  `merge_crawl` takes `num_peers == 0` for the start (`crawler.rs:1013-1014`).
- Process: a swarm that has ended is replaced by a restart, which starts empty.
- Probes: an answer is never older than the expiry, nor is a peer dialed again
  before it; every request ends.
- Location pass: only a failed dial is reported as an issue.
- Map page: what is on the screen is of one document; one timer runs, or none;
  the page catches up with the server.
- Placement: a pin was looked up or configured; a place that is not labelled as
  a relay's is the peer's own; "direct" needs a dial; lookups are kept.

## 2. Modules

| Module | Models | Theorems |
|---|---|---|
| `Snapshots` | document, `merge_crawl`, `node_entries`, and `DocumentOf`, the reference that says from a whole sequence of passes what ought to be served | |
| `NodeCache` | publishing through two locks, every handler's reads in order | |
| `NodeCacheProofs` | proofs about `NodeCache` | five, section 5 |
| `BootstrapSet` | `BootstrapSet` of `crawler.rs`, as operators on its entries | |
| `CrawlPass` | `crawl_once`: every query, retry, fold and fallback up to the assembled snapshot | |
| `Lists` | filter, find and loops over lists whose values keep their places | |
| `Records` | the decoders of `dht.rs` and `servers_in`, over abstract msgpack | |
| `Assembly` | from the bytes of the replies to reports, rows, contributors and the figures of `stats` | |
| `MapServer` | composes `CrawlPass` and `NodeCache` into `run_crawler`, under the process of `main.rs` | |
| `Probes` | the verdict cache, concurrent probes and the location pass on one swarm | |
| `Placement` | `classify`, `GeoIp`, `locate_row`, `peer_ip_info_for` over many passes | |
| `Page` | the map page polling the document: overlapping fetches, refresh controls, tabs | |
| `CrawlPassProofs`, `MapServerProofs`, `AssemblyProofs`, `ProbesProofs`, `PlacementProofs`, `PageProofs` | proofs about the module each is named after | 29, section 5 |
| `ListsProofs` | lemmas about `Lists` the proofs of `Assembly` and `Placement` rest on | |
| `MC*` | instances for TLC | |

`MapServer` uses `NodeCache` through INSTANCE, with the measured result of
`CrawlPass` as the input of `publish`, and is shown to implement it: `NodeCache`
is the abstract writer, whose input is any crawl. `Probes` and `Placement` stand
beside them: what they share with the crawl is the swarm, which each models as
far as it needs it. `Page` is a client of `/api/v1/state`; all it needs of the
server is the order in which documents are published.

### NodeCache

`snapshot` and `nodes` are the two RwLocks. `publish` is three steps, as its
comment says that its read-then-write is not atomic: `Merge` (read and
`merge_crawl`), `WriteSnapshot`, `WriteNodes`. Each lock is held for the copy of
one `Arc`, so one access is one step. `Reads` gives the order in which each
handler reads; `got` is what it holds. `crawls` is a history variable: the
results published so far. A document keeps its peers, covered blocks, dots and
stamps; a time is the number of the pass that took it. `num_peers` is the number
of peers, as `build_snapshot` computes it.

### CrawlPass and BootstrapSet

`step` is the program counter of `crawl_once`, `asking` the entries left of the
`live()` copy the current loop iterates over, which is captured before the loop
as in the code. `rpc_find` is `Answers` or `Fails` after `rpc_find_inner`'s
paths: `Unaddressed` (no peer id in the address), `Garbled` (does not decode, no
retry), `LostOnce` (redial and call again), `LostAgain`. What a bootstrap answers
is any registry, any record under any key, any capability record. A query asks
for every key of a model at once, and the reply's results are taken in order,
one per key: that they come in the order of the keys is trusted, as in the code
(`crawler.rs:296-297`). How many come is not: `collect_model` enumerates the
results and not its keys (437-441), so a reply may hold more of them than the
model has keys. They fill the `Places` of a model, its `BlockKeys` and the first
`MaxResults` places whatever their number; a record in a place beyond the keys
is folded and counted like any other, and what that does to a report is
`HealthyUpToSurplus`. A reply with fewer results is one whose last places are
empty. `heard`,
`answered` and `failed` are history variables; properties are stated against
them, never against the folded state alone. Records keep their peer, block and
whether they are online; names, versions, throughputs and row layout are left
out. That a value decodes is the environment's choice here. `PeerIds` are
the subkeys that parse as a peer id; the others stand in records but are neither
dialed (`connect_discovered_peers` reports them as errors) nor known to kad.

### Records and Assembly

A msgpack value is a tuple of its kind and content, and bytes are named by the
value `read_value` finds in them, so decoding is the walk of `dht.rs` over
tuples: tags, lengths, kinds, first or last pair of a name. `Some(x)` is `{x}`.
A list is a function on the places of its values, in order; `filter` and
`flat_map` leave the rest at their places (`Lists`), so no definition here is
recursive except over places. Only the order of the values is ever used.
`Assembly` reads one result per place of a reply, places beyond the keys
included, and keeps beside it, in `told`, what those
who stored it announced: the writer's side of the format is in `MCAssembly`. A
regular value may name itself by the empty id, which `servers_in` takes as it
takes any other, unlike an empty subkey.
Properties compare what the server makes of the bytes with `told`.
`ReadRegistry`, `ReadBlock` and `ReadCapability` are the three loops over
results, `BuildSnapshot` is `build_snapshot` with `top_contributors`, `Stats` is
`NodeCache::stats` with and without `TOTAL_BLOCKS`. Whose reply it is, retries
and merging the replies of several bootstraps under one key are `CrawlPass`'s;
the last step leads nowhere, since only one pass is looked at. Peers are
numbers in the order of their ids; throughputs are whole numbers; `coverage` is
rounded down to a percent. The order of equal throughputs in the list comes from
a `HashMap` and is any (`Rankings`).

### MapServer

`Crawl` runs the pass, `Return` hands its snapshot to `publish`, `Publish` is
the cache's steps, `NextCrawl` ends the sleep. `Bounded` only lets TLC stutter
where the bound on passes ends a behaviour. Readers are left out: they never
touch the crawl, and `NodeCache` has them.

`process`, `swarm` and `crawler` are the process and its two tasks. `Start` is
`observer::start`, `SpawnCrawler` the `tokio::spawn` of `main`, `Bind` the
listener: by then the crawler may have published. `SwarmEnds` may happen at any
time after `Start`; the crawler then goes on with errors (`Unheard`) until
`SelectSwarm`. `CrawlPanics` is the one panic the input of a pass can cause:
`short_peer_id` cuts a subkey inside a character. It ends the crawler and
nothing else. `Exit` leaves none of the state, as nothing is persisted; the
restart policy of `docker-compose.map.yml` is what makes `Start` happen again.
A `Start` whose swarm cannot be spawned ends the process at once
(`observer.rs`): it goes from down to down, which is a stutter and no action.

### Probes

Each client is one request at a time through `check`: `Hit`, or `Miss` and then
one dial after another (`AlreadyConnected`, `Accepted`, `Refused`), `HangUp` and
`Store`. `AlreadyConnected` is `connect_peer` answering Ok from the swarm's own
connection record (described at `crawler.rs:338-341`), so an answer ok may rest
on a connection the peer opened. `HangUp` closes whatever connection there is. `StartPass`, `DialTarget` and `ListPeers` are the
location pass of the crawl; `Inbound` and `Closed` are the network. `stored`
and `reached` are history variables.

### Placement

An address is reduced to what `geoip.rs` reads in it: its IP, whether it is a
circuit, the DNS name and peer id of its relay. A place is named by the IP whose
location it is, so "whose place is shown" is a comparison of IPs. A pass is
`List` (`observed_addrs`), `Resolve` (`resolve_relays`), `Warm`, `Fetched` or
`FetchFailed` (batches), `Build`. `geo` and `dns` live across passes. That the
provider answers about the addresses it was asked for, and no other, is assumed
of it: `warm` keeps each answer under the address the answer names
(`geoip.rs:143`).
`enabled` is `GEOIP_ENABLED`, `pins` the entries of `GEOIP_STATIC_FILE`, or none
when it cannot be read; both are fixed for the life of the process. The `(0,0)`
test of `locate_row` is left out: the model has no coordinates. A row may be
pinned, labelled as its relay's, at the egress address of a relay that itself
asked not to be placed by it: `known` places every observed peer by the
addresses it was seen on. That is the code's behaviour, and no property here.

### Page

A fetch is `Tick` (sent), `Answer` (the server reads its document), then `Arrive`
or `Fail`; two may be out at once, since the timer does not wait for a reply.
`Arrive` is the whole `then` handler: `currentData`, dots and the active tab. A
draw that throws half way, which the handler's `catch` only logs, is left out.
`Activate` and `Redraw` are the two halves of `activateTab`, the second delayed
by 100 ms for the topology. `Start` and `Stop` are the timer functions, called
by the handlers `Toggle` and `ChooseInterval`. What a view shows is not
modelled, only which document it was drawn from. `networkInitialized` and the
guards on missing elements are left out: the page declares the elements, and
both branches draw.

## 3. Runs

| Run | Instance | Distinct states | Shows |
|---|---|---|---|
| `node_cache` | one peer, block, bootstrap and client; 3 passes | 69 567 | what is served, through holds and recoveries, and what a reply may mix |
| `crawl_pass` | 2 bootstraps, one of them configured twice, and an address without a peer; 2 servers; models of up to 2 blocks, replies of 2 results whatever the model; 2 capability registries | 901 832 | folds, drops, dots and reports, whatever is answered or lost |
| `map_server` | 2 bootstraps, 2 servers, 1 of them excluded, 1 announcer whose subkey is no peer id, 1 block, 2 passes per process, any number of restarts | 291 247 | the pass is a correct writer of the cache; what is served, in every process; every pass is shown; an ended swarm is replaced |
| `figures` | 5 peers, 1 of them excluded and 1 the empty id; registered models of 1 and 2 blocks and a fallback, replies of 2 results whatever the model; 2 capability registries; 12 results | 413 614 | what the decoders, the folds, the reports and the figures make of the stored bytes |
| `probes` | 1 peer, 1 name that is no peer id, 2 clients, 1 known address, expiry 2, clock to 3 | 43 848 | verdicts and issues with probes, location pass and network on one swarm |
| `placement` | 2 nodes, one relaying for the other, up to 2 connections each, room for 2 lookups, lookups on or off, pins loaded or not | 406 224 | what a place and a label mean, over any number of passes |
| `page` | 2 fetches, 2 documents, 2 timer ids, 2 delayed redraws | 7 833 | what is on the screen, the timer, and catching up |
| `stats_torn`, `healthy_block`, `repeated_bootstrap`, `coverage`, `frozen` | as the passing run of the same module, with as many results as keys | stop at the violation | the disagreements of section 6 |

Bounds and why they are enough:

- Three passes give every pattern of the hold: fresh, held, held again or
  recovered, and empty from the start. The proofs lift the bound.
- One peer, block and bootstrap already make each part of a document present or
  absent. Readers share nothing with each other, so a second one adds nothing.
- Two bootstraps and two blocks are what stale copies need: an old record of one
  against a new one of the other, under the same key or under another.
  `MaxBlocks` is 2 and registrations declare 0 or 3 blocks, so that both ends of
  the clamp apply; the fallback model has one block, and is the registered one.
- `MaxResults` 2 gives every model of one block one surplus result, and those of
  two none: a surplus that stands in for a missing block, or makes a complete
  model broken, next to models without one. It is 0 in `map_server`, where the
  cache does not tell what made a report, and in the runs that show a
  disagreement, which must not owe it to surplus results.
- One of the two servers of `map_server` is excluded, so that a document with
  reports and no peers is served, and replaced by an empty pass.
- An address configured before and after another is asked twice in one loop over
  the entries, which is all that a repetition can do.
- Two requests for one peer are what overlap needs; with an expiry of 2 and a
  clock to 3 a verdict is made, used, and expires.
- Two connections per peer give every mixture of two ways; one peer may relay
  for the other by number, by name or by its peer id. `CacheLimit` 2 is reached,
  but with two public addresses only by a cache that has them all: what is kept
  is shown of failed batches and later passes, hardly of the ceiling.
- Models of one block and of two, and ranges that start below 0 or end beyond
  the model, are what the bitmap of `stats` can get wrong; three peers with
  servers, two of them shown, are what cutting the contributors needs. The
  replies hold every kind of entry that must be passed over, before and after
  good ones, both forms of a subkey and all result types.
- A swarm that ends before, while and after the first pass, and before or after
  the bind, needs no second process in the bound: after `Exit` the state is that
  of `MapInit`.
- Two fetches are what it takes for one reply to overtake another, two documents
  what it takes to see it; a timer is replaced by a second one, which needs two
  ids.

`CHECK_DEADLOCK` is switched off in `figures` and `coverage` alone, where the
pass ends with its figures computed.

Every property has a wrong variant of the code beside it in the modules
("Wrong variant" comments): an operator or action with one plausible mistake,
for which TLC finds the property violated when it replaces the right one.

## 4. Fairness

- `NodeCache!FairSpec`: weak fairness of the crawler's next step, and of the
  reads and response of a request already begun. Both are tokio tasks; the locks
  are held for a pointer copy. A client owes nothing: no fairness on requests or
  disconnects.
- `MapServer!MapFairSpec`: weak fairness of the crawler task while it lives (its
  panic is one of its steps), of starting a process that is down (the restart
  policy), of the steps of `main` up to the bind, which may fail, and of
  `select!` seeing that the swarm ended. Nothing makes the swarm end, the
  listener fail or the container stop.
- `CrawlPass!FairSpec`: weak fairness of the pass as one task. Dials have
  timeouts in this code. Queries (`call_unary_handler`) have none here: that each
  ends in an answer or an error is assumed of the swarm. If it did not, the
  crawl would stall for good; the hazard list says so.
- `Probes!FairSpec`: weak fairness of each probe and of the location pass; every
  dial has a timeout there. None on clients, on peers or on the clock.
- `Page!FairSpec`: a running timer ticks, a delay ends, a fetch ends: weak
  fairness of each. That not every fetch of a page that keeps asking fails is
  strong fairness of answering and of arriving, assumed of the network: without
  it no page could promise to catch up.

## 5. Proofs

`NodeCacheProofs`, for any peers, blocks, bootstraps, readers and number of
passes, from `MaxPasses \in Nat` alone:

| Theorem | Says |
|---|---|
| `TypeCorrect` | `[]TypeOK` |
| `ServedIsLastReadPassAlways` | the document is the one the whole sequence of passes calls for |
| `NodesFollowSnapshotAlways` | the node list follows it, one publish behind at most |
| `SameStampAlways` | time does not go back, and one stamp means one content |
| `MixedReadsInOrderAlways` | a handler reads publishes in order: the list at most one behind the first document, and a document read again no older than either |

The argument. `MergeExtends` is the heart: merging `DocumentOf(h)` with the next
pass gives `DocumentOf` of the longer sequence, by cases on whether the pass
read a peer and whether any before it did. `DocumentOf` names the latest pass
that read a peer by a CHOOSE; that there is one cannot be had from the
sequence without induction, so the invariant carries it (`HasLatest`), each
publish extends it (`HasLatestAppend`), and this is the strengthening that makes
`ServedIsLastReadPass` inductive. `ServedInv` adds what the crawler's local
holds before each write, and the node list. `ReaderInv` adds the reads: their
order, and that a list read after a document is that of some publish from the one
before the document's on, and not of a later one than what is read next; appended
passes leave the prefixes it speaks of alone (`ReadsInvAppend`).

`CrawlPassProofs`, for any bootstraps, peers, models, replies and losses, from
`ConfigAssumption` and `CrawlAssumption`:

| Theorem | Says |
|---|---|
| `TypeCorrect` | `[]TypeOK`: counts are clamped, nothing is folded outside the places of a reply, which may be more than the model has keys |
| `FoldMatchesHeardAlways` | an entry is the union of every copy heard, online if any copy was |
| `HealthyUpToSurplusAlways` | a report is healthy exactly if as many of its keys are missed as surplus places are covered; so if none is missed, where no reply has a surplus |
| `ReportsNeedAnAnswerAlways` | with all dots offline no model is reported |
| `FirstEntrySpeaksAlways` | the first entry of an address is online exactly if the address answered, and is not asked once it failed; the others stay offline |
| `DotsAreEvidenceAlways` | of distinct addresses, a dot is online exactly if its address answered |
| `FailedNotAskedAgainAlways` | of distinct addresses, one that failed is asked nothing more in the pass |

The argument. `TypeOK` is not inductive: a reply is folded into the entries of
the model being collected, and that they exist rests on where the pass is. `Shape`
says what is still empty at which step, and `TypeInv` is the two together.
`FoldMeans` says what one fold does to a peer, whatever the order within a reply;
from it `NextFold` follows reply by reply. `Least`, by which the loops and the
folds go in order, is a CHOOSE: that it is there needs the well-foundedness of
the naturals (`LeastIn`). For `HealthyUpToSurplus`, `build_snapshot` compares
numbers: what it counts are the places where a server shown online was named
(`CoveredIs`, from `FoldMatchesHeard`), and two finite sets are of one size
exactly if each has as many members the other lacks (`SameSize`).
`ReportsNeedAnAnswer` needs `HeardFrom`: a record was
heard only if an entry is marked, and no failure takes a mark back.
`FirstEntrySpeaks` is strengthened to `Evidence`: the first entry of an address
that failed is neither live nor left in the loop. It holds of any configuration.
The last two assume `Distinct`, that no address is configured twice, and follow
since every entry is then the first of its address (`AllFirst`). Without it they
do not hold, as `record` marks and drops the first entry only: a bootstrap that
`BOOTSTRAP_PEERS` lists twice is asked again through its second entry after it
failed, though the comment on `live` says it "is dropped" (`crawler.rs:264-266`).
The run `repeated_bootstrap` shows it.

`MapServerProofs`, in addition from `MapServerAssumption`:

| Theorem | Says |
|---|---|
| `CrawlerImplementsNodeCache` | every step of the process is one `NodeCache` allows for, or leaves the cache alone, or starts it anew |
| `ServedInEveryProcessAlways` | in every process the document is the one its passes call for, and the node list follows it |
| `DotsOfLatestPassAlways` | for distinct addresses, the dots served are those that answered the pass |

`PassSteps` is what carries the invariants of a pass over to the process: a step
of the process is a step of the pass, on a swarm that has ended too, or none, or
its `Init`. `MeasuredType` is the assumption `NodeCache` makes of a crawl, which
here is a result: what is published has blocks only if it has a dot. `Publishes`
says that a pass does not change while it is being published. So what
`NodeCacheProofs` shows of any writer holds of this one: `ServedInEveryProcess`
takes its inductive invariant over (`CacheProofs`, an instance of that module) and
adds that a new process establishes it again.

`AssemblyProofs`, from `AssemblyAssumption` and `RepliesAssumption`, for any
peers, models, blocks and replies:

| Theorem | Says |
|---|---|
| `TypeCorrect` | `[]TypeOK` |
| `DictionaryIsRead` | `servers_in` finds in a dictionary exactly the servers its entries announce, whatever unreadable entries they lie among |
| `RecordIsRead` | `decode_server_info` reads every announced record as it was told, whatever fields and pairs follow it |
| `EveryRecordCountsAlways` | every announced record is in the report of its model, under its block and its peer |
| `PeersMatchReportsAlways` | rows and reports agree on who serves what |
| `CoverageIsClaimedAlways` | each block counted as covered is one some announced span claims |
| `TopAreBestAlways` | no peer left out of the contributors has a larger throughput than one shown, and each stands with what it announced |

The argument. Every list is folded by a function over places (`Folded`);
`LoopExists` shows that this function is what its equation says, and `Induct`
is induction over the places, so that what a fold computes is proved for lists
of any length: `FoldAllIs` gives the servers folded under a block, `InsertedIs`
the registry, `RankingIs` the contributors. `AssemblyInv` is `Typed` (the
variables have their types, which need the fold's), `Fresh` (nothing is folded
before the registry is read), `Published` (what `build_snapshot` made is still
that of the folded state) and `Counted` (the figures are those of the reports).
It is inductive, and the three theorems without records follow from it. For
those about records the invariant is also `AllKept`: every server told of so far
is in the fold, under its block, and online if it was told online. That no later
record hides one is `FoldKeeps`.

Two of them assume `WellTold`, an assumption on what was stored and not on the
server: every reply is a dictionary whose entries announce one record each or
say nothing, or a regular value that names its peer, or one the server drops,
and `says` is what those who stored them announced. `ReplyIsRead` shows that the
server makes of such a reply what it says. Without an assumption of this kind
nothing links the bytes to what they were meant to say. The replies of the runs
are of these kinds.

| Module | Theorem | Says |
|---|---|---|
| `ProbesProofs` | `TypeCorrect` | `[]TypeOK` |
| | `AnswersBackedAlways` | no cached answer is older than the expiry |
| | `NoProbeBeforeExpiryAlways` | no name is probed again before any verdict on it expires |
| | `IssuesOnlyFailedDialsAlways` | a peer the pass reached is not an issue |
| `PageProofs` | `TypeCorrect` | `[]TypeOK` |
| | `OneTimerIfCheckedAlways` | one timer runs, or none |
| | `ScreenIsOneDocumentAlways` | dots and active tab are of one document |
| `PlacementProofs` | `TypeCorrect` | `[]TypeOK` |
| | `PinsAreSomewhere` | a location the page can pin was looked up or configured |
| | `PlacesAreOwn` | a place that is not labelled as a relay's is the peer's own |
| | `DirectMeansDialed` | "direct" is shown only of a peer reached on an address of its own |
| | `LookupsAreKeptAlways` | what the provider said is kept |

The strengthenings are `CacheIsLatest` (the cache has the latest verdict on each
name, so that overlapping requests cannot hide a younger one), `DialsEndOnce` and
`Screen` (a page without a document has drawn nothing). For `Placement` it is
`PlacementInv`: what is observed is the classification of the connections there
are (`Observes`), the rows are those computed from it and the lookups (`Shows`),
nothing is looked up unless lookups are on (`LooksUpIfEnabled`), and only what was
never answered is asked for (`AsksForUnknown`). What the rows say is then a
question about operators: `ClassifyIs` says which connection a peer is
classified by, `LocateIs` and `LocateRowIs` from which address it is placed.

All assumptions on constants (`MaxPassesAssumption`, `ConfigAssumption`,
`CrawlAssumption`, `MapServerAssumption`, `AssemblyAssumption`,
`RepliesAssumption`, `PlacementAssumption`, `ProbesAssumption`, `PageAssumption`)
are evaluated by TLC in the runs. `Distinct` holds in all of them
but those of `CrawlPass`.
`WellTold` quantifies over entries of any form, which TLC cannot enumerate.

Model-checked only: the liveness properties (`EveryPassIsServed`,
`RequestsAnswered`, `PassesComplete`, `EveryPassShown`, `ProbesEnd`,
`SwarmReplaced`, `PassesEnd`, `CatchesUp`), which are beyond the prover: it has no
rules for fairness and ENABLED. No safety property of a passing run is.

## 6. Where the code and its comments disagree

1. `stats_torn`: figures are said to be "over the current snapshot"
   (`cache.rs:81`), but read two locks that `publish` writes one after the other.
2. `healthy_block`: a model is "healthy when every block has at least one online
   server" (`snapshot.rs:162`), but a peer keeps every block it was named under,
   also those where its record was a tombstone, if some other record is online.
3. `repeated_bootstrap`: "a bootstrap that has already failed a query this pass
   is dropped" (`crawler.rs:264-266`), but `record` marks the first entry with the
   address (`crawler.rs:276`): one that `BOOTSTRAP_PEERS` lists twice is asked
   again after it failed.
4. `coverage`: the metric is "Block coverage of the largest model"
   (`routes.rs:102`), but `stats` marks the ranges of every model's servers in
   one bitmap (`cache.rs:103-117`): blocks of a smaller model, and ranges beyond
   its end, count for the largest.
5. `frozen`: "serving on would hand out a frozen snapshot indefinitely. Exit
   instead" (`main.rs:129-131`), but only the swarm is watched: when the crawler
   task panics (`short_peer_id`, `snapshot.rs:284`), the process serves on.

## 7. Not modelled, and the plan

Not modelled: what the page's views show (rows, sorting, pages of the table,
pins), and controls a browser restores on reload; the v1 scripts and patches
around programs outside the repository; build and deployment files; the byte
format of msgpack and the text of multiaddrs; serialisation of the document;
names, versions and wording; the environment variables `main` reads, and the
panic of `GeoIp::from_env` if no HTTP client can be built (`geoip.rs:99`).
kwaai_p2p and the provider of locations are external: modelled by what the code
sees of them.

Left out of modules that are otherwise complete, each where section 2 says it:
answers of the location provider about addresses it was not asked for, a draw of
the page that throws half way, a process that ends before its swarm is spawned,
the `(0,0)` test of `locate_row`.

Next: the table of the page, its filter, sorting and the page number it keeps.
