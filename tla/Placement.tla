------------------------------ MODULE Placement ------------------------------
(***************************************************************************)
(* How the crawl says where a peer is and how it was reached: the          *)
(* connections the observer holds are listed and classified (crawler.rs:   *)
(* observed_addrs, classify), relay names and public addresses are looked  *)
(* up (geoip.rs: resolve_relays, warm), and each row is placed by its own  *)
(* address, by its relay's, or by the pin of a peer that relays for it     *)
(* (locate, locate_row, peer_ip_info_for).                                 *)
(*                                                                         *)
(* A place is named by the IP whose location it is; what the provider says *)
(* of an IP, a DNS answer and the connections are the environment.         *)
(***************************************************************************)
EXTENDS Naturals, Sequences, FiniteSets, Lists

CONSTANTS
  Peers,         \* peers the observer may be connected to
  Ips,           \* IPs an address may carry
  Public,        \* those worth asking the provider about
  Statics,       \* those GEOIP_STATIC_FILE pins
  RelayNames,    \* DNS names a relay may be addressed by
  Connections,   \* peer -> the connections it may have with the observer
  MaxConns,      \* bound on the connections of one peer
  CacheLimit     \* CACHE_LIMIT

None == "none"

\* A multiaddr.  In a circuit address ip, or name, and relay are those of the
\* relay: the part before /p2p-circuit.
Address == [ip : Ips \cup {None}, circuit : BOOLEAN, name : RelayNames \cup {None},
            relay : Peers \cup {None}]

\* A bare /p2p/<id>, and no listener.
NoAddress == [ip |-> None, circuit |-> FALSE, name |-> None, relay |-> None]

\* via: the observer's circuit listener, when the connection came in relayed.
Conn == [addr : Address, outbound : BOOLEAN, via : Address, dcutr : BOOLEAN]

ASSUME PlacementAssumption ==
  /\ Public \cup Statics \subseteq Ips /\ None \notin Ips \cup RelayNames \cup Peers
  /\ \A p \in Peers : Connections[p] \subseteq Conn
  /\ \A p \in Peers : \A c \in Connections[p] : c.via = NoAddress \/ c.via.circuit
  /\ MaxConns \in Nat /\ CacheLimit \in Nat

VARIABLES
  enabled,    \* GEOIP_ENABLED: lookups are made
  pins,       \* the static locations loaded: Statics, or none if the file is unusable
  stage,      \* where the pass is
  conns,      \* peer -> its connections, as list_peers reports them
  needsRelay, \* peers whose record says using_relay
  geo,        \* GeoIp.cache: public IP -> what the provider said, or "absent"
  dns,        \* GeoIp.dns: relay name -> public IP, or None
  asking,     \* IPs, or relay names, the pass still has to look up
  observed,   \* peer -> how it was reached, by which addresses
  rows        \* peer -> peer_ip_info

setting == <<enabled, pins>>
vars == <<setting, stage, conns, needsRelay, geo, dns, asking, observed, rows>>

-----------------------------------------------------------------------------
(* classify                                                                *)

AddrsAt(cs, places) == [i \in places |-> cs[i].addr]

IsCircuit(c) == c.addr.circuit \/ c.via # NoAddress

\* An inbound relayed connection is listed by the circuit it came through.
CircuitOf(c) == IF c.via # NoAddress THEN c.via ELSE c.addr

\* Wrong variant: the direction is not looked at.
PlainAnyWay(c) == ~IsCircuit(c)

Plain(c) == c.outbound /\ ~IsCircuit(c)

Punched(c) == c.dcutr

Classify(cs) ==
  LET punched == Where(cs, Punched)
      direct  == Where(cs, Plain)
      relayed == Where(cs, IsCircuit)
  IN  IF punched # {} THEN [how |-> "punched", addrs |-> AddrsAt(cs, punched)]
      ELSE IF direct # {} THEN [how |-> "direct", addrs |-> AddrsAt(cs, direct)]
      ELSE IF relayed # {}
           THEN [how |-> "relayed", addrs |-> [i \in relayed |-> CircuitOf(cs[i])]]
      ELSE [how |-> "inbound", addrs |-> AddrsAt(cs, DOMAIN cs)]

\* A peer without a connection is not observed.
NotObserved == [how |-> None, addrs |-> <<>>]

-----------------------------------------------------------------------------
(* locate, locate_row, peer_ip_info_for                                    *)

Unknown == [status |-> "fail", place |-> None, relayed |-> FALSE]
ViaRelay == [status |-> "fail", place |-> None, relayed |-> TRUE]
PlacedAt(ip) == [status |-> "success", place |-> ip, relayed |-> FALSE]

\* Wrong variant: the relay's location is taken whatever its status, as v1 did.
ViaRelayAnywhere(loc) == [loc EXCEPT !.relayed = TRUE, !.status = "success"]

ViaRelayAt(loc) == IF loc.status # "success" THEN ViaRelay ELSE [loc EXCEPT !.relayed = TRUE]

Cached(ip) == IF geo[ip] = "success" THEN PlacedAt(ip) ELSE Unknown

PinnedOwn(a) == ~a.circuit /\ a.ip \in pins
PinnedRelay(a) == a.circuit /\ a.ip \in pins
PublicOwn(a) == ~a.circuit /\ a.ip \in Public
PublicRelay(a) == a.circuit /\ a.ip \in Public
NamedRelay(a) == a.circuit /\ a.name # None /\ dns[a.name] # None
Circuit(a) == a.circuit

RelayIp(addrs) ==
  LET numbered == Where(addrs, PublicRelay)
      named == Where(addrs, NamedRelay)
  IN  IF numbered # {} THEN FirstOf(addrs, numbered).ip
      ELSE IF named # {} THEN dns[FirstOf(addrs, named).name] ELSE None

Locate(addrs) ==
  LET pinned == Where(addrs, PinnedOwn)
      relayPinned == Where(addrs, PinnedRelay)
      own == Where(addrs, PublicOwn)
  IN  IF pinned # {} THEN PlacedAt(FirstOf(addrs, pinned).ip)
      ELSE IF relayPinned # {} THEN ViaRelayAt(PlacedAt(FirstOf(addrs, relayPinned).ip))
      ELSE IF own # {} THEN Cached(FirstOf(addrs, own).ip)
      ELSE IF RelayIp(addrs) # None THEN ViaRelayAt(Cached(RelayIp(addrs)))
      ELSE IF Where(addrs, Circuit) # {} THEN ViaRelay ELSE Unknown

\* `known` in build_snapshot: where each observed peer is.
Known(p) == Locate(observed[p].addrs)

\* A relayed peer nothing else places borrows the pin of a relay that is a peer.
LocateRow(addrs) ==
  LET LentBy(a) == a.circuit /\ a.relay # None /\ observed[a.relay].how # None
                   /\ Known(a.relay).status = "success"
      lent == Where(addrs, LentBy)
  IN  IF Locate(addrs).status = "success" \/ Where(addrs, Circuit) = {} \/ lent = {}
      THEN Locate(addrs)
      ELSE ViaRelayAt(Known(FirstOf(addrs, lent).relay))

\* Wrong variant: every observed peer is placed by the addresses it was seen on.
RowOfAddresses(p) == [location |-> LocateRow(observed[p].addrs), addrs |-> observed[p].addrs,
                      how |-> observed[p].how]

\* A peer that says it needs a relay is not placed by the address it dials from.
RowOf(p) ==
  IF observed[p].how = "inbound" /\ p \in needsRelay
  THEN [location |-> ViaRelay, addrs |-> <<>>, how |-> "relayed"]
  ELSE [location |-> LocateRow(observed[p].addrs), addrs |-> observed[p].addrs,
        how |-> observed[p].how]

NoRows == [p \in Peers |-> [location |-> Unknown, addrs |-> <<>>, how |-> None]]

-----------------------------------------------------------------------------
Init ==
  /\ enabled \in BOOLEAN /\ pins \in {Statics, {}}
  /\ stage = "dialing"
  /\ conns = [p \in Peers |-> <<>>]
  /\ needsRelay \in SUBSET Peers
  /\ geo = [ip \in Public |-> "absent"]
  /\ dns = [n \in RelayNames |-> None]
  /\ asking = {}
  /\ observed = [p \in Peers |-> NotObserved]
  /\ rows = NoRows

\* A connection is opened, by either side, or closes, until the listing.
Open(p, c) ==
  /\ stage = "dialing" /\ Len(conns[p]) < MaxConns
  /\ conns' = [conns EXCEPT ![p] = Append(@, c)]
  /\ UNCHANGED <<setting, stage, needsRelay, geo, dns, asking, observed, rows>>

Close(p) ==
  /\ stage = "dialing" /\ conns[p] # <<>>
  /\ conns' = [conns EXCEPT ![p] = Tail(@)]
  /\ UNCHANGED <<setting, stage, needsRelay, geo, dns, asking, observed, rows>>

Listed == UNION {{observed[p].addrs[i] : i \in DOMAIN observed[p].addrs} : p \in Peers}

RelaysNamed == {a.name : a \in {b \in Listed : b.circuit /\ b.name # None}}

\* Wrong variant: addresses without a name are looked up too.
ListNameless ==
  /\ stage = "dialing"
  /\ observed' = [p \in Peers |-> IF conns[p] = <<>> THEN NotObserved ELSE Classify(conns[p])]
  /\ asking' = IF enabled THEN {a.name : a \in {b \in Listed' : b.circuit}} ELSE {}
  /\ stage' = "resolving"
  /\ UNCHANGED <<setting, conns, needsRelay, geo, dns, rows>>

\* observed_addrs; then the relay names no earlier pass resolved are looked up,
\* unless lookups are off.
List ==
  /\ stage = "dialing"
  /\ observed' = [p \in Peers |-> IF conns[p] = <<>> THEN NotObserved ELSE Classify(conns[p])]
  /\ asking' = IF enabled THEN RelaysNamed' \cap {n \in RelayNames : dns[n] = None} ELSE {}
  /\ stage' = "resolving"
  /\ UNCHANGED <<setting, conns, needsRelay, geo, dns, rows>>

\* One lookup: a public IP, or none, and then it is tried again next pass.
Resolve(n, ip) ==
  /\ stage = "resolving" /\ n \in asking
  /\ dns' = [dns EXCEPT ![n] = ip]
  /\ asking' = asking \ {n}
  /\ UNCHANGED <<setting, stage, conns, needsRelay, geo, observed, rows>>

CachedIps == {ip \in Public : geo[ip] # "absent"}

ToWarm == ({a.ip : a \in Listed} \cup {dns[n] : n \in RelaysNamed}) \cap Public

\* Wrong variant: known IPs are asked about again.
WarmAll ==
  /\ stage = "resolving" /\ asking = {}
  /\ asking' = IF ~enabled \/ Cardinality(CachedIps) >= CacheLimit THEN {} ELSE ToWarm
  /\ stage' = "warming"
  /\ UNCHANGED <<setting, conns, needsRelay, geo, dns, observed, rows>>

\* warm: the uncached IPs, unless lookups are off or the cache has reached its
\* ceiling.
Warm ==
  /\ stage = "resolving" /\ asking = {}
  /\ asking' = IF ~enabled \/ Cardinality(CachedIps) >= CacheLimit THEN {}
               ELSE ToWarm \ CachedIps
  /\ stage' = "warming"
  /\ UNCHANGED <<setting, conns, needsRelay, geo, dns, observed, rows>>

\* One batch is answered, as the provider pleases; it may leave an IP out.  That
\* it answers about the IPs asked for and no other is assumed of the provider:
\* warm keeps an answer under whatever IP the answer names.
Fetched(batch, said) ==
  /\ stage = "warming" /\ batch # {} /\ batch \subseteq asking
  /\ geo' = [ip \in Public |-> IF ip \in batch THEN said[ip] ELSE geo[ip]]
  /\ asking' = asking \ batch
  /\ UNCHANGED <<setting, stage, conns, needsRelay, dns, observed, rows>>

\* A batch fails: it and those after it are left for the next pass.
FetchFailed ==
  /\ stage = "warming" /\ asking # {}
  /\ asking' = {}
  /\ UNCHANGED <<setting, stage, conns, needsRelay, geo, dns, observed, rows>>

\* build_snapshot's rows.
Build ==
  /\ stage = "warming" /\ asking = {}
  /\ rows' = [p \in Peers |-> RowOf(p)]
  /\ stage' = "built"
  /\ UNCHANGED <<setting, conns, needsRelay, geo, dns, asking, observed>>

\* The next pass: records and connections may differ, lookups are kept.
NextPass(needing) ==
  /\ stage = "built"
  /\ stage' = "dialing"
  /\ needsRelay' = needing
  /\ observed' = [p \in Peers |-> NotObserved]
  /\ rows' = NoRows
  /\ UNCHANGED <<setting, conns, geo, dns, asking>>

Next ==
  \/ \E p \in Peers : (\E c \in Connections[p] : Open(p, c)) \/ Close(p)
  \/ List
  \/ \E n \in RelayNames, ip \in Public \cup {None} : Resolve(n, ip)
  \/ Warm
  \/ \E batch \in SUBSET asking : \E said \in [batch -> {"absent", "success", "fail"}] :
       stage = "warming" /\ Fetched(batch, said)
  \/ FetchFailed
  \/ Build
  \/ \E needing \in SUBSET Peers : NextPass(needing)

Spec == Init /\ [][Next]_vars

-----------------------------------------------------------------------------
Location == [status : {"success", "fail"}, place : Ips \cup {None}, relayed : BOOLEAN]
Ways == {"punched", "direct", "relayed", "inbound", None}

\* The type invariant.
TypeOK ==
  /\ enabled \in BOOLEAN /\ pins \subseteq Ips
  /\ stage \in {"dialing", "resolving", "warming", "built"}
  /\ \A p \in Peers : conns[p] \in Seq(Connections[p]) /\ Len(conns[p]) <= MaxConns
  /\ needsRelay \subseteq Peers
  /\ geo \in [Public -> {"absent", "success", "fail"}]
  /\ dns \in [RelayNames -> Public \cup {None}]
  /\ asking \subseteq Public \cup RelayNames
  /\ \A p \in Peers : observed[p].how \in Ways /\ rows[p].how \in Ways /\ rows[p].location \in Location

\* A pin is somebody's: what is shown as located was looked up or pinned by the
\* operator, never the (0,0) a failed or missing lookup leaves (via_relay_at:
\* "rather than claiming (0,0) was looked up"); and with lookups off every place
\* is the operator's (from_env).
SuccessIsSomewhere ==
  \A p \in Peers : rows[p].location.status = "success" =>
    LET ip == rows[p].location.place
    IN  ip \in pins \/ (enabled /\ ip \in Public /\ geo[ip] = "success")

\* A place not labelled "Via relay" is the peer's own: the IP of a plain
\* connection it has, and not one it only dialed from while saying that it
\* needs a relay (peer_ip_info_for, locate).
OwnPlaceIsOwn ==
  \A p \in Peers :
    rows[p].location.status = "success" /\ ~rows[p].location.relayed =>
      \E i \in DOMAIN conns[p] :
        /\ conns[p][i].addr.ip = rows[p].location.place /\ ~conns[p][i].addr.circuit
        /\ p \in needsRelay => conns[p][i].outbound \/ conns[p][i].dcutr

\* "direct" needs a dial: a peer that only ever dialed the observer is never
\* listed as dialable, and a relayed one is listed by circuits alone, however
\* its connections are ordered and mixed (classify).
DirectWasDialed ==
  \A p \in Peers :
    /\ rows[p].how = "direct" => \E i \in DOMAIN conns[p] :
         conns[p][i].outbound /\ ~conns[p][i].addr.circuit /\ conns[p][i].via = NoAddress
    /\ rows[p].how = "relayed" => \A i \in DOMAIN rows[p].addrs : rows[p].addrs[i].circuit

\* Lookups survive the passes: no pass asks again for what an earlier one was
\* told, and no failed batch or full cache takes a pin back (warm).
LookupsAreKept == [][\A ip \in Public : geo[ip] # "absent" => geo'[ip] = geo[ip]]_geo
=============================================================================
