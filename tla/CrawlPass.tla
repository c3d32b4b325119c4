------------------------------ MODULE CrawlPass ------------------------------
(***************************************************************************)
(* The crawl pass of map-server (crawl_once and what it calls, crawler.rs):*)
(* dial the bootstraps, ask them for the model registry, for every block   *)
(* key of every model and for the capability registries, dial the peers    *)
(* this found and those kad knows, and assemble what was read.             *)
(*                                                                         *)
(* The bootstraps and the DHT are the environment: each may answer, answer *)
(* with bytes that do not decode, or lose the call, at any query; what it  *)
(* answers is any content it may store, stale replicas included, and more  *)
(* results than it was asked for.                                          *)
(***************************************************************************)
EXTENDS BootstrapSet, Integers, FiniteSets

CONSTANTS
  Peers,            \* subkeys a record may be stored under: node ids and what is none
  PeerIds,          \* those that parse as a peer id: a peer kad knows or a dial reaches
  Servers,          \* those that may have a record under a block key
  Announcers,       \* those that may have a record under a capability key
  Excluded,         \* the observer itself and the bootstraps
  States,           \* what a decoded record may announce
  Registered,       \* model prefixes a registry may hold
  RegisteredBlocks, \* num_blocks a registration may declare
  FallbackPrefixes, \* FALLBACK_PREFIXES
  FallbackBlocks,   \* FALLBACK_BLOCKS
  MaxBlocks,        \* MAX_BLOCKS
  CapabilityKeys,   \* number of capability registries
  MaxResults        \* results a reply may hold however few keys were asked for

\* Prefixes are numbered in the order the registry's BTreeMap keeps them.
Prefixes == Registered \cup FallbackPrefixes
Absent == "absent"

ASSUME CrawlAssumption ==
  /\ Servers \cup Announcers \cup PeerIds \subseteq Peers /\ Excluded \subseteq PeerIds
  /\ "online" \in States /\ Absent \notin States
  /\ Prefixes \subseteq Nat /\ FallbackPrefixes # {}
  /\ RegisteredBlocks \subseteq Int
  /\ FallbackBlocks \in Nat \ {0} /\ MaxBlocks \in Nat \ {0}
  /\ CapabilityKeys \in Nat \ {0} /\ MaxResults \in Nat

VARIABLES
  step,       \* where crawl_once is
  entries,    \* BootstrapSet
  asking,     \* entries left in the current loop over live()
  attempt,    \* rpc_find_inner: first call, or the retry after a redial
  found,      \* discover_models' local: prefix -> num_blocks
  models,     \* the models of this pass: prefix -> num_blocks
  collecting, \* prefixes still to collect
  perModel,   \* prefix -> peer -> folded entry
  capKey,     \* the capability registry being read
  capability, \* peer -> state of its capability record
  discovered, \* peers to dial
  dialErrors, \* peers whose dial failed
  result,     \* the assembled snapshot
  heard,      \* history: <<prefix, place, peer, state>> records answered
  answered,   \* history: addresses that answered a query this pass
  failed      \* history: addresses that failed a query this pass

vars == <<step, entries, asking, attempt, found, models, collecting, perModel, capKey,
          capability, discovered, dialErrors, result, heard, answered, failed>>

reading == <<found, models, collecting, perModel, capKey, capability, heard>>

NoEntry == [blocks |-> {}, state |-> Absent]
NoReports == [p \in {} |-> {}]
NothingRead == [peers |-> {}, reports |-> NoReports, issues |-> {}, dots |-> {}]

\* What a pass starts from: everything it keeps is a local of crawl_once.
Init ==
  /\ step = "dial"
  /\ entries = NewEntries /\ asking = Entries /\ attempt = 1
  /\ found = NoReports /\ models = NoReports /\ collecting = {}
  /\ perModel = NoReports
  /\ capKey = 1 /\ capability = [p \in Peers |-> Absent]
  /\ discovered = {} /\ dialErrors = {}
  /\ result = NothingRead
  /\ heard = {} /\ answered = {} /\ failed = {}

-----------------------------------------------------------------------------
(* Bootstraps, dialed and asked in the configured order.                   *)

Least(S) == CHOOSE i \in S : \A j \in S : i <= j

Asked == Config[Least(asking)]

\* One initial dial, within BOOTSTRAP_DIAL_TIMEOUT or not.
Dial(ok) ==
  /\ step = "dial" /\ asking # {}
  /\ entries' = [entries EXCEPT ![Least(asking)].dialed = ok /\ Asked \in WithPeerId]
  /\ asking' = asking \ {Least(asking)}
  /\ UNCHANGED <<step, attempt, reading, discovered, dialErrors, result, answered, failed>>

\* No bootstrap dialable: the pass publishes an empty snapshot.
NoneDialable ==
  /\ step = "dial" /\ asking = {} /\ ~HasDialable(entries)
  /\ step' = "publish"
  /\ result' = [NothingRead EXCEPT !.dots = Online(entries)]
  /\ UNCHANGED <<entries, asking, attempt, reading, discovered, dialErrors, answered, failed>>

Dialed ==
  /\ step = "dial" /\ asking = {} /\ HasDialable(entries)
  /\ step' = "discover"
  /\ asking' = Live(entries)
  /\ UNCHANGED <<entries, attempt, reading, discovered, dialErrors, result, answered, failed>>

Asking == step \in {"discover", "collect", "capability"} /\ asking # {}

\* rpc_find recorded an answer; the caller folds it (below).
Answers ==
  /\ Asking /\ Asked \in Queryable
  /\ entries' = Record(entries, Asked, TRUE)
  /\ answered' = answered \cup {Asked}
  /\ attempt' = 1
  /\ UNCHANGED <<step, discovered, dialErrors, result, failed>>

\* Wrong variant: the loop asks the same bootstrap again.
FailsAndRepeats ==
  /\ entries' = Record(entries, Asked, FALSE)
  /\ failed' = failed \cup {Asked}
  /\ attempt' = 1
  /\ UNCHANGED <<step, asking, reading, discovered, dialErrors, result, answered>>

\* rpc_find recorded a failure and the loop goes on with the next bootstrap.
Fails ==
  /\ entries' = Record(entries, Asked, FALSE)
  /\ failed' = failed \cup {Asked}
  /\ asking' = asking \ {Least(asking)}
  /\ attempt' = 1
  /\ UNCHANGED <<step, reading, discovered, dialErrors, result, answered>>

\* The address names no peer to send the query to.
Unaddressed == Asking /\ Asked \notin Queryable /\ Fails

\* The reply does not decode; that is not retried.
Garbled == Asking /\ Asked \in Queryable /\ Fails

\* The first call is lost: redial, whatever comes of it, and call again.
LostOnce ==
  /\ Asking /\ Asked \in Queryable /\ attempt = 1
  /\ attempt' = 2
  /\ UNCHANGED <<step, entries, asking, reading, discovered, dialErrors, result, answered, failed>>

LostAgain == Asking /\ Asked \in Queryable /\ attempt = 2 /\ Fails

-----------------------------------------------------------------------------
(* discover_models                                                         *)

\* Wrong variant: no lower bound.
ClampAbove(n) == IF n > MaxBlocks THEN MaxBlocks ELSE n

Clamp(n) == IF n < 1 THEN 1 ELSE IF n > MaxBlocks THEN MaxBlocks ELSE n

\* A decoded registry: some prefixes and their declared block counts.
Registries == UNION {[S -> RegisteredBlocks] : S \in SUBSET Registered}

\* The first registry with a model in it ends the loop.
AnswerRegistry(registry) ==
  /\ step = "discover" /\ Answers
  /\ found' = [m \in DOMAIN registry |-> Clamp(registry[m])]
  /\ asking' = IF DOMAIN registry # {} THEN {} ELSE asking \ {Least(asking)}
  /\ UNCHANGED <<models, collecting, perModel, capKey, capability, heard>>

Fallback == [m \in FallbackPrefixes |-> FallbackBlocks]

Discovered ==
  /\ step = "discover" /\ asking = {}
  /\ models' = IF DOMAIN found = {} THEN Fallback ELSE found
  /\ collecting' = DOMAIN models'
  /\ perModel' = [m \in DOMAIN models' |-> [p \in Servers |-> NoEntry]]
  /\ step' = "collect" /\ found' = NoReports
  /\ asking' = Live(entries)
  /\ UNCHANGED <<entries, attempt, capKey, capability, discovered, dialErrors,
                 result, heard, answered, failed>>

-----------------------------------------------------------------------------
(* collect_model                                                           *)

Model == Least(collecting)
BlockKeys(m) == 0 .. models[m] - 1

\* The places of the results in a reply.  One result per key, in order, is what
\* the bootstrap is trusted to send; the loop takes however many there are.
Places(m) == BlockKeys(m) \cup 0 .. MaxResults - 1

\* One reply: in each place, the records of some servers, or of none where the
\* result is empty or the reply is shorter.
BlockReplies(m) == [Places(m) -> [Servers -> States \cup {Absent}]]

\* Wrong variant: the first record seen stays, online or not.
FoldFirst(entry, reply, p) ==
  LET named == {b \in DOMAIN reply : reply[b][p] # Absent}
  IN  IF named = {} THEN entry
      ELSE [blocks |-> entry.blocks \cup named,
            state  |-> IF entry.state # Absent THEN entry.state ELSE reply[Least(named)][p]]

\* A peer's entry with one reply folded in, block by block: every block it is
\* named under is added; its record is the first seen until an online one
\* replaces it.
Fold(entry, reply, p) ==
  LET named == {b \in DOMAIN reply : reply[b][p] # Absent}
  IN  IF named = {} THEN entry
      ELSE [blocks |-> entry.blocks \cup named,
            state  |-> IF \E b \in named : reply[b][p] = "online" THEN "online"
                       ELSE IF entry.state # Absent THEN entry.state
                       ELSE reply[Least(named)][p]]

Records(m, reply) ==
  {<<m, b, p, reply[b][p]>> : b \in DOMAIN reply, p \in Servers}

AnswerBlocks(reply) ==
  /\ step = "collect" /\ Answers
  /\ perModel' = [perModel EXCEPT ![Model] = [p \in Servers |-> Fold(@[p], reply, p)]]
  /\ heard' = heard \cup {h \in Records(Model, reply) : h[4] # Absent}
  /\ asking' = asking \ {Least(asking)}
  /\ UNCHANGED <<found, models, collecting, capKey, capability>>

\* The next model's loop starts from the bootstraps still live.
Collected ==
  /\ step = "collect" /\ asking = {}
  /\ collecting' = collecting \ {Model}
  /\ step' = IF collecting' = {} THEN "capability" ELSE "collect"
  /\ asking' = Live(entries)
  /\ UNCHANGED <<entries, attempt, found, models, perModel, capKey, capability, discovered,
                 dialErrors, result, heard, answered, failed>>

-----------------------------------------------------------------------------
(* collect_capability, once per capability registry                        *)

\* A record there may not decode as a server record: it counts as "unknown".
CapabilityReplies == [Announcers -> States \cup {Absent, "unknown"}]

AnswerCapability(reply) ==
  /\ step = "capability" /\ Answers
  /\ capability' = [p \in Peers |-> IF p \in Announcers /\ capability[p] = Absent
                                    THEN reply[p] ELSE capability[p]]
  /\ asking' = asking \ {Least(asking)}
  /\ UNCHANGED <<found, models, collecting, perModel, capKey, heard>>

CapabilityRead ==
  /\ step = "capability" /\ asking = {}
  /\ capKey' = capKey + 1
  /\ step' = IF capKey' > CapabilityKeys THEN "connect" ELSE "capability"
  /\ asking' = IF capKey' > CapabilityKeys THEN {} ELSE Live(entries)
  /\ UNCHANGED <<entries, attempt, found, models, collecting, perModel, capability, discovered,
                 dialErrors, result, heard, answered, failed>>

-----------------------------------------------------------------------------
(* Dialing what was discovered, observing, assembling.                     *)

BlockPeers == {p \in Servers : \E m \in DOMAIN models : perModel[m][p].state # Absent}
CapabilityPeers == {p \in Peers : capability[p] # Absent}

\* network_snapshot: whoever kad knows, or nobody if the call fails.
KadKnows(known) ==
  /\ step = "connect"
  /\ discovered' = (BlockPeers \cup CapabilityPeers \cup known) \ Excluded
  /\ step' = "dial peers"
  /\ UNCHANGED <<entries, asking, attempt, reading, dialErrors, result, answered, failed>>

\* connect_discovered_peers: the dials run together; only which failed is kept.
\* What is no peer id makes no address to dial.
DialPeers(errors) ==
  /\ step = "dial peers" /\ discovered \ PeerIds \subseteq errors
  /\ dialErrors' = errors /\ discovered' = {}
  /\ step' = "observe"
  /\ UNCHANGED <<entries, asking, attempt, reading, result, answered, failed>>

OnlineServers(m) == {p \in Servers : perModel[m][p].state = "online"}
\* Wrong variant: a block is covered by any record.
CoveredByAny(m) == UNION {perModel[m][p].blocks : p \in Servers}
Covered(m) == UNION {perModel[m][p].blocks : p \in OnlineServers(m)}
Rows(m) == {p \in Servers : perModel[m][p].state # Absent}

Report(m) ==
  [rows |-> Rows(m), online |-> OnlineServers(m), covered |-> Covered(m),
   healthy |-> Cardinality(Covered(m)) = models[m]]

\* observed_addrs and build_snapshot: `speaking` are the connected peers that
\* identify found speaking /kwaai/kad.  A model nobody has a record under is
\* left out.
Observe(speaking) ==
  /\ step = "observe"
  /\ result' =
       [peers   |-> (BlockPeers \cup CapabilityPeers \cup speaking) \ Excluded,
        reports |-> [m \in {n \in DOMAIN models : Rows(n) # {}} |-> Report(m)],
        issues  |-> {p \in dialErrors : \E m \in DOMAIN models : p \in OnlineServers(m)},
        dots    |-> Online(entries)]
  /\ step' = "publish"
  /\ UNCHANGED <<entries, asking, attempt, reading, discovered, dialErrors, answered, failed>>

\* Nothing of a pass outlives it: all of it is locals of crawl_once.
Afresh ==
  /\ step' = "dial"
  /\ entries' = NewEntries /\ asking' = Entries /\ attempt' = 1
  /\ found' = NoReports /\ models' = NoReports /\ collecting' = {}
  /\ perModel' = NoReports
  /\ capKey' = 1 /\ capability' = [p \in Peers |-> Absent]
  /\ discovered' = {} /\ dialErrors' = {}
  /\ result' = NothingRead
  /\ heard' = {} /\ answered' = {} /\ failed' = {}

\* The snapshot is handed over; after the sleep the next pass starts afresh.
NextPass == step = "publish" /\ Afresh

-----------------------------------------------------------------------------
Next ==
  \/ \E ok \in BOOLEAN : Dial(ok)
  \/ NoneDialable \/ Dialed
  \/ Unaddressed \/ Garbled \/ LostOnce \/ LostAgain
  \/ \E registry \in Registries : AnswerRegistry(registry)
  \/ Discovered
  \/ step = "collect" /\ \E reply \in BlockReplies(Model) : AnswerBlocks(reply)
  \/ Collected
  \/ \E reply \in CapabilityReplies : AnswerCapability(reply)
  \/ CapabilityRead
  \/ \E known \in SUBSET PeerIds : KadKnows(known)
  \/ \E errors \in SUBSET discovered : DialPeers(errors)
  \/ \E speaking \in SUBSET PeerIds : Observe(speaking)
  \/ NextPass

Spec == Init /\ [][Next]_vars

\* The crawler is one task that the runtime keeps polling; every dial it waits
\* for has a timeout in this code, and every query ends in an answer or an
\* error because the swarm bounds its requests.
FairSpec == Spec /\ WF_vars(Next)

-----------------------------------------------------------------------------
Steps == {"dial", "discover", "collect", "capability", "connect", "dial peers", "observe",
          "publish"}

\* The type invariant.
TypeOK ==
  /\ step \in Steps
  /\ entries \in [Entries -> Entry] /\ asking \subseteq Entries /\ attempt \in {1, 2}
  /\ DOMAIN found \subseteq Registered /\ \A m \in DOMAIN found : found[m] \in 1 .. MaxBlocks
  /\ DOMAIN models \subseteq Prefixes /\ \A m \in DOMAIN models : models[m] \in Nat \ {0}
  /\ collecting \subseteq DOMAIN models
  /\ step \notin {"dial", "discover"} => DOMAIN perModel = DOMAIN models
  /\ \A m \in DOMAIN perModel :
       \A p \in Servers : /\ perModel[m][p].blocks \subseteq Places(m)
                          /\ perModel[m][p].state \in States \cup {Absent}
  /\ capKey \in 1 .. CapabilityKeys + 1
  /\ capability \in [Peers -> States \cup {Absent, "unknown"}]
  /\ discovered \cup dialErrors \subseteq Peers \ Excluded
  /\ result.peers \cup result.issues \subseteq Peers /\ result.dots \subseteq Entries
  /\ answered \cup failed \subseteq Address

\* However many bootstraps answered, in whatever order and with whatever stale
\* copies, the fold over their replies is the union of what they hold: a peer
\* has the places it was named in, and is online exactly if some copy of its
\* record says so (collect_model).
FoldMatchesHeard ==
  \A m \in DOMAIN perModel : \A p \in Servers :
    LET entry == perModel[m][p]
    IN  /\ entry.blocks = {b \in Places(m) : \E s \in States : <<m, b, p, s>> \in heard}
        /\ entry.state = "online" <=> \E b \in Places(m) : <<m, b, p, "online">> \in heard
        /\ entry.state # Absent => \E b \in entry.blocks : <<m, b, p, entry.state>> \in heard

\* Where an address is configured more than once, its first entry speaks for it:
\* that entry's dot is online exactly if the address answered, through whichever
\* entry it was asked, and once the address has failed, that entry is not asked;
\* the dot of a later entry stays offline, whatever it answers (record, live).
FirstEntrySpeaks ==
  \A i \in Entries :
    LET first == \A j \in Entries : Config[j] = Config[i] => i <= j
    IN  /\ entries[i].answered <=> first /\ Config[i] \in answered
        /\ Asking /\ i = Least(asking) => ~(first /\ Config[i] \in failed)

\* "A bootstrap that has already failed a query this pass is dropped: every later
\* query would cost the same dial timeout to learn the same thing" (live): no
\* address that failed is asked again in the pass.  So of addresses configured
\* once each; `record` drops the first entry of an address and leaves the others.
FailedNotAskedAgain == Asking => Asked \notin failed

\* The dot of a bootstrap is online exactly if its address answered a query of
\* this pass, whatever its dials did and whatever failed later: so of addresses
\* configured once each (bootstrap_states).
DotsAreEvidence == \A i \in Entries : entries[i].answered <=> Config[i] \in answered

\* Some record in this place of a reply names a server of which some record of
\* the model, in this place or another, says that it is online.
ShownOnline(m, b) ==
  \E p \in Servers : /\ \E s \in States : <<m, b, p, s>> \in heard
                     /\ \E c \in Places(m) : <<m, c, p, "online">> \in heard

\* A report is healthy exactly if as many of its keys are missed by every online
\* server as there are places beyond its keys where one was named: where no reply
\* holds more results than keys asked for, exactly if no key is missed; a surplus
\* result can stand in for a missing block, and make a complete model broken
\* (build_snapshot compares counts).
HealthyUpToSurplus ==
  \A m \in DOMAIN result.reports :
    result.reports[m].healthy <=>
      Cardinality({b \in BlockKeys(m) : ~ShownOnline(m, b)})
        = Cardinality({b \in Places(m) \ BlockKeys(m) : ShownOnline(m, b)})

\* A pass whose dots are all offline has no model report to show: what the
\* dots say about the pass and what its reports say cannot disagree.
ReportsNeedAnAnswer == result.dots = {} => DOMAIN result.reports = {}

\* Whatever fails, every pass comes to a snapshot to publish.
PassesComplete == []<>(step = "publish")

\* What snapshot.rs says of a model's state: "`healthy` when every block has at
\* least one online server".
EveryHealthyBlockOnline ==
  \A m \in DOMAIN result.reports : result.reports[m].healthy =>
    \A b \in BlockKeys(m) : \E p \in Servers : <<m, b, p, "online">> \in heard
=============================================================================
