------------------------------ MODULE Assembly ------------------------------
(***************************************************************************)
(* What becomes of the bytes a crawl pass reads: the values under the      *)
(* registry, block and capability keys are decoded and folded (crawler.rs: *)
(* discover_models, collect_model, collect_capability), the snapshot is    *)
(* assembled from them (build_snapshot, top_contributors), and the figures *)
(* of /api/stats and /metrics are computed from the snapshot (cache.rs,    *)
(* NodeCache::stats).  Which bootstrap answers is CrawlPass's subject and  *)
(* where a peer is Placement's: here one result is read in each place of a *)
(* reply, which has a place per key asked for, and may have more.          *)
(***************************************************************************)
EXTENDS Records, FiniteSets, SequencesExt

CONSTANTS
  Peers,             \* peers records may name, numbered in the order of their ids
  Excluded,          \* the observer and the bootstraps
  Connected,         \* peers that may be found speaking /kwaai/kad
  RegistryReplies,   \* values the registry key may hold
  BlockReplies,      \* FindResults there may be in a place of a reply
  CapabilityReplies, \* values a capability key may hold
  CapabilityKeys,    \* number of capability registries
  Fallback,          \* FALLBACK_PREFIXES, with FALLBACK_BLOCKS
  MaxBlocks,         \* MAX_BLOCKS
  MaxResults,        \* results a reply may hold however few keys were asked for
  Shown,             \* top_contributors are truncated to this many
  Overrides,         \* what TOTAL_BLOCKS may be set to
  DefaultTotal       \* the total without an override or a model

Unset == -1

\* A reply carries, besides its bytes, what those who stored it announced.
ASSUME AssemblyAssumption ==
  /\ Peers \subseteq Nat /\ IsFiniteSet(Peers) /\ Excluded \cup Connected \subseteq Peers
  /\ Overrides \subseteq Nat /\ CapabilityKeys \in Nat \ {0} /\ Shown \in Nat \ {0}
  /\ MaxBlocks \in Nat \ {0} /\ MaxResults \in Nat /\ DefaultTotal \in Nat
  /\ IsFiniteSet(DOMAIN Fallback) /\ Fallback \in [DOMAIN Fallback -> 1 .. MaxBlocks]
  /\ DOMAIN Fallback \subseteq Nat

VARIABLES
  step,       \* "registry", "blocks", "capability", "assemble", "published" or "counted"
  models,     \* prefix -> num_blocks
  unread,     \* results <<prefix, place>> still to read
  perModel,   \* prefix -> peer -> PeerModelEntry
  capKey,     \* the capability registry being read
  capability, \* peer -> record
  reports,    \* model_reports: prefix -> report
  peers,      \* the peer rows
  top,        \* top_contributors
  stats,      \* NetworkStats
  told        \* history: <<prefix, place, peer, info>> announced in the places read

vars == <<step, models, unread, perModel, capKey, capability, reports, peers, top, stats, told>>

Nothing == [x \in {} |-> {}]
NoStats == [total |-> 0, covered |-> {}, coverage |-> 0, nodes |-> 0, tokens |-> 0, active |-> 0]

Init ==
  /\ step = "registry"
  /\ models = Nothing /\ unread = {} /\ perModel = Nothing
  /\ capKey = 1 /\ capability = Nothing
  /\ reports = Nothing /\ peers = Nothing /\ top = <<>> /\ stats = NoStats
  /\ told = {}

-----------------------------------------------------------------------------
(* Reading.                                                                *)

\* Wrong variant: no lower bound.
ClampAbove(n) == IF n > MaxBlocks THEN MaxBlocks ELSE n

Clamp(n) == IF n < 1 THEN 1 ELSE IF n > MaxBlocks THEN MaxBlocks ELSE n

\* out.entry(key).or_insert(value)
OrInsert(out, key, value) ==
  [k \in DOMAIN out \cup {key} |-> IF k \in DOMAIN out THEN out[k] ELSE value]

\* Each of a list of <<key, value>>: the first with a key stays.
Inserted(out, pairs) == Folded(LAMBDA o, pair : OrInsert(o, pair[1], pair[2]), out, pairs)

\* The first to declare a model says how many blocks it has, within bounds.
Found(regs) == Inserted(Nothing, [i \in DOMAIN regs |-> <<regs[i][1], Clamp(regs[i][2])>>])

\* The places of the results for n block keys: one per key, in order, is what
\* the bootstrap is trusted to send; the loop takes however many there are.
Places(n) == 0 .. n - 1 \cup 0 .. MaxResults - 1

ReadRegistry(reply) ==
  /\ step = "registry"
  /\ LET found == Found(DecodeModelRegistry(reply.bytes))
     IN  models' = IF DOMAIN found = {} THEN Fallback ELSE found
  /\ unread' = UNION {{m} \X Places(models'[m]) : m \in DOMAIN models'}
  /\ perModel' = [m \in DOMAIN models' |-> Nothing]
  /\ step' = "blocks"
  /\ UNCHANGED <<capKey, capability, reports, peers, top, stats, told>>

\* Models in the BTreeMap's order, results in the order they came.
Key == CHOOSE k \in unread :
         \A j \in unread : k[1] < j[1] \/ (k[1] = j[1] /\ k[2] <= j[2])

\* One server of a reply: its block is added, and it replaces the record kept
\* so far if it is online.
Fold(out, block, server) ==
  LET old == OrInsert(out, server[1], [blocks |-> {}, info |-> server[2]])
  IN  [old EXCEPT ![server[1]] =
         [blocks |-> @.blocks \cup {block},
          info   |-> IF server[2].state = "online" THEN server[2] ELSE @.info]]

FoldAll(out, block, servers) == Folded(LAMBDA o, server : Fold(o, block, server), out, servers)

ReadBlock(reply) ==
  /\ step = "blocks" /\ unread # {}
  /\ perModel' = [perModel EXCEPT ![Key[1]] =
                    FoldAll(@, Key[2], ServersIn(reply.type, reply.bytes))]
  /\ told' = told \cup {<<Key[1], Key[2], said[1], said[2]>> : said \in reply.says}
  /\ unread' = unread \ {Key}
  /\ step' = IF unread' = {} THEN "capability" ELSE "blocks"
  /\ UNCHANGED <<models, capKey, capability, reports, peers, top, stats>>

\* A capability value that is no server record still names its peer.
Undecoded == [state |-> "unknown", throughput |-> 0, start |-> 0, end |-> 0, names |-> {}]
CapabilityInfo(bytes) ==
  CHOOSE info \in IF DecodeServerInfo(bytes) = {} THEN {Undecoded} ELSE DecodeServerInfo(bytes) : TRUE

Announced(entries) == [i \in DOMAIN entries |-> <<entries[i][1], CapabilityInfo(entries[i][2])>>]

\* The peers and numbers in the replies are those of the model.
ASSUME RepliesAssumption ==
  /\ \A reply \in RegistryReplies : ListOf(DecodeModelRegistry(reply.bytes), Nat \X Int)
  /\ \A reply \in BlockReplies :
       /\ ListOf(ServersIn(reply.type, reply.bytes), Peers \X ServerInfo)
       /\ reply.says \subseteq Peers \X ServerInfo
  /\ \A reply \in CapabilityReplies :
       ListOf(Announced(DictionaryEntries(reply.bytes)), Peers \X ServerInfo)

ReadCapability(reply) ==
  /\ step = "capability"
  /\ capability' = Inserted(capability, Announced(DictionaryEntries(reply.bytes)))
  /\ capKey' = capKey + 1
  /\ step' = IF capKey = CapabilityKeys THEN "assemble" ELSE "capability"
  /\ UNCHANGED <<models, unread, perModel, reports, peers, top, stats, told>>

-----------------------------------------------------------------------------
(* build_snapshot.                                                         *)

Least(S) == CHOOSE i \in S : \A j \in S : i <= j

ModelsOf(p) == {m \in DOMAIN models : p \in DOMAIN perModel[m]}
OnlineIn(p) == {m \in ModelsOf(p) : perModel[m][p].info.state = "online"}
BlockPeers == {p \in Peers : ModelsOf(p) # {}}

\* A report's rows show the kept record of each server, its declared range
\* included; a model nobody has a record under is left out.
Report(m) ==
  LET covered == UNION {perModel[m][p].blocks :
                          p \in {q \in DOMAIN perModel[m] : perModel[m][q].info.state = "online"}}
  IN  [num_blocks |-> models[m], healthy |-> Cardinality(covered) = models[m],
       rows |-> [p \in DOMAIN perModel[m] |-> perModel[m][p].info]]

Reports == [m \in {n \in DOMAIN models : DOMAIN perModel[n] # {}} |-> Report(m)]

\* Wrong variant: the first model that names the peer.
FirstModelOf(p) == Least(ModelsOf(p))

\* block_of: the first model that names the peer online, else the first.
BlockModel(p) == IF OnlineIn(p) # {} THEN Least(OnlineIn(p)) ELSE Least(ModelsOf(p))

\* Its block record, else its registry record, else nothing but a connection.
PeerRow(p) ==
  IF p \in BlockPeers
  THEN LET info == perModel[BlockModel(p)][p].info
       IN  [state |-> info.state, throughput |-> info.throughput, model |-> {BlockModel(p)},
            span |-> <<info.start, info.end>>]
  ELSE IF p \in DOMAIN capability
  THEN [state |-> capability[p].state, throughput |-> capability[p].throughput, model |-> {},
        span |-> <<>>]
  ELSE [state |-> "unannounced", throughput |-> 0, model |-> {}, span |-> <<>>]

\* Most servers first, in the order of the models where the numbers are equal.
Before(m, n) ==
  LET rows(k) == Cardinality(DOMAIN perModel[k])
  IN  rows(m) > rows(n) \/ (rows(m) = rows(n) /\ m <= n)

\* Wrong variant: a later report replaces the candidate.
LastCandidate(p) ==
  LET m == CHOOSE k \in ModelsOf(p) : \A n \in ModelsOf(p) : Before(n, k)
      info == perModel[m][p].info
  IN  [peer |-> p, throughput |-> info.throughput, blocks |-> info.end - info.start + 1]

\* A peer's candidate: of its rows with the most throughput, the first report's.
Candidate(p) ==
  LET most == {m \in ModelsOf(p) : \A n \in ModelsOf(p) :
                 perModel[m][p].info.throughput >= perModel[n][p].info.throughput}
      info == perModel[CHOOSE m \in most : \A n \in most : Before(m, n)][p].info
  IN  [peer |-> p, throughput |-> info.throughput, blocks |-> info.end - info.start + 1]

\* Candidates by throughput; those with the same come in the order a HashMap
\* gives them, which is any.
Rankings ==
  {r \in SetToSeqs(BlockPeers) :
     \A i, j \in DOMAIN r : i < j => Candidate(r[i]).throughput >= Candidate(r[j]).throughput}

BuildSnapshot(speaking, ranking) ==
  /\ step = "assemble"
  /\ reports' = Reports
  /\ peers' = [p \in (BlockPeers \cup DOMAIN capability \cup speaking) \ Excluded |-> PeerRow(p)]
  /\ top' = [i \in 1 .. Min({Shown, Len(ranking)}) |-> Candidate(ranking[i])]
  /\ step' = "published"
  /\ UNCHANGED <<models, unread, perModel, capKey, capability, stats, told>>

-----------------------------------------------------------------------------
(* NodeCache::stats, over the published snapshot and its node list.        *)

\* What coverage is measured against.
Total(override) ==
  IF override # Unset THEN override
  ELSE LET largest == {reports[m].num_blocks : m \in DOMAIN reports}
       IN  IF largest # {} /\ Max(largest) > 0 THEN Max(largest) ELSE DefaultTotal

AtLeast0(n) == IF n < 0 THEN 0 ELSE n

\* Wrong variant: the end is taken for the last block.
ClosedRange(info, total) == AtLeast0(info.start) .. Min({AtLeast0(info.end), total - 1})

\* The slots one row marks: half-open, within the bitmap.
Slots(info, total) == AtLeast0(info.start) .. Min({AtLeast0(info.end), total}) - 1

\* The rows of online servers, as <<model, peer>>.
OnlineRows == {r \in (DOMAIN reports) \X Peers :
                 r[2] \in DOMAIN reports[r[1]].rows /\ reports[r[1]].rows[r[2]].state = "online"}

Covered(total) == UNION {Slots(reports[r[1]].rows[r[2]], total) : r \in OnlineRows}

Stats(override) ==
  /\ step = "published"
  /\ LET total == Total(override)
         covered == Covered(total)
     IN  stats' =
           [total    |-> total,
            covered  |-> covered,
            coverage |-> IF total = 0 THEN 0 ELSE (100 * Cardinality(covered)) \div total,
            nodes    |-> Cardinality(DOMAIN peers),
            tokens   |-> MapThenSumSet(LAMBDA p : peers[p].throughput, DOMAIN peers),
            active   |-> Cardinality({p \in DOMAIN peers : peers[p].throughput > 0})]
  /\ step' = "counted"
  /\ UNCHANGED <<models, unread, perModel, capKey, capability, reports, peers, top, told>>

Next ==
  \/ \E reply \in RegistryReplies : ReadRegistry(reply)
  \/ \E reply \in BlockReplies : ReadBlock(reply)
  \/ \E reply \in CapabilityReplies : ReadCapability(reply)
  \/ step = "assemble" /\ \E speaking \in SUBSET Connected, ranking \in Rankings :
       BuildSnapshot(speaking, ranking)
  \/ \E override \in Overrides \cup {Unset} : Stats(override)

Spec == Init /\ [][Next]_vars

-----------------------------------------------------------------------------
Steps == {"registry", "blocks", "capability", "assemble", "published", "counted"}

\* The type invariant: every model has a block, and nothing is told of others.
TypeOK ==
  /\ step \in Steps
  /\ \A m \in DOMAIN models : models[m] \in 1 .. MaxBlocks
  /\ DOMAIN perModel = DOMAIN models
  /\ unread \subseteq UNION {{m} \X Places(models[m]) : m \in DOMAIN models}
  /\ capKey \in 1 .. CapabilityKeys + 1 /\ DOMAIN capability \subseteq Peers
  /\ DOMAIN reports \subseteq DOMAIN models /\ DOMAIN peers \subseteq Peers \ Excluded
  /\ Len(top) <= Shown /\ stats.total \in Nat /\ stats.coverage \in 0 .. 100
  /\ \A h \in told : h[1] \in DOMAIN models /\ h[3] \in Peers

Told(m, p) == {h \in told : h[1] = m /\ h[3] = p}

\* No record is lost or made up, in whatever form it was stored and whatever
\* unreadable entries, values and result types it was stored among: a model
\* has the peers that announced themselves in some result for its keys, each
\* with the places of those results as blocks, and the record kept is one it
\* announced, online if any was.
EveryRecordCounts ==
  \A m \in DOMAIN perModel :
    /\ DOMAIN perModel[m] = {p \in Peers : Told(m, p) # {}}
    /\ \A p \in DOMAIN perModel[m] :
         /\ perModel[m][p].blocks = {h[2] : h \in Told(m, p)}
         /\ perModel[m][p].info \in {h[4] : h \in Told(m, p)}
         /\ perModel[m][p].info.state = "online" <=> \E h \in Told(m, p) : h[4].state = "online"

\* The peer list and the model reports tell one story: a peer with a row in
\* some report is online exactly if one of its rows is, and its state, model,
\* range and throughput are those of one row (block_of picks the pair).
PeersMatchReports ==
  \A p \in DOMAIN peers :
    LET having == {m \in DOMAIN reports : p \in DOMAIN reports[m].rows}
    IN  having # {} =>
          /\ peers[p].state = "online" <=> \E m \in having : reports[m].rows[p].state = "online"
          /\ \E m \in having :
               LET row == reports[m].rows[p]
               IN  peers[p] = [state |-> row.state, throughput |-> row.throughput,
                               model |-> {m}, span |-> <<row.start, row.end>>]

Claims(info, b) == info.start <= b /\ b < info.end

\* Coverage counts what was announced and no more: every slot counted is in
\* the half-open range of some online record, and the range of a server's only
\* record under a model, cut to the bitmap, is counted in full (stats).
CoverageIsClaimed ==
  step = "counted" =>
    /\ stats.covered \subseteq 0 .. stats.total - 1
    /\ \A b \in stats.covered : \E h \in told : h[4].state = "online" /\ Claims(h[4], b)
    /\ \A h \in told : {g[4] : g \in Told(h[1], h[3])} = {h[4]} /\ h[4].state = "online" =>
         \A b \in 0 .. stats.total - 1 : Claims(h[4], b) => b \in stats.covered

\* The contributors are distinct peers, each shown with the most it announces
\* under any model, and nobody left out has more than one shown.
TopAreBest ==
  step \in {"published", "counted"} =>
    LET rows(p) == {reports[m].rows[p].throughput :
                      m \in {n \in DOMAIN reports : p \in DOMAIN reports[n].rows}}
        ranked == {top[i].peer : i \in DOMAIN top}
    IN  /\ Cardinality(ranked) = Len(top)
        /\ \A i \in DOMAIN top : top[i].throughput = Max(rows(top[i].peer))
        /\ \A p \in Peers \ ranked : rows(p) # {} =>
             Len(top) = Shown /\ \A i \in DOMAIN top : Max(rows(p)) <= top[i].throughput

\* What /metrics says of kwaainet_block_coverage_percent, with TOTAL_BLOCKS
\* unset: "Block coverage of the largest model."  A block counted is in the
\* range of an online server of a model of that size.
CoverageOfLargest ==
  step = "counted" /\ stats.total = Max({models[m] : m \in DOMAIN models}) =>
    \A b \in stats.covered : \E h \in told :
      models[h[1]] = stats.total /\ h[4].state = "online" /\ Claims(h[4], b)
=============================================================================
