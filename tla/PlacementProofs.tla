---------------------------- MODULE PlacementProofs ----------------------------
(***************************************************************************)
(* Proofs about Placement, for any peers, addresses, connections, answers  *)
(* and pins, over any number of passes.                                    *)
(*                                                                         *)
(* What is shown of a peer is a function of what the pass listed and of    *)
(* the lookups; PlacementInv says which, and everything the map promises   *)
(* about a row is then a fact about that function.                         *)
(***************************************************************************)
EXTENDS Placement, ListsProofs

-----------------------------------------------------------------------------
(* The inductive invariant                                                 *)

\* What each variable holds, but for observed and rows, which the two below say
\* in full.
Typed ==
  /\ enabled \in BOOLEAN /\ pins \subseteq Ips
  /\ stage \in {"dialing", "resolving", "warming", "built"}
  /\ conns \in [Peers -> Seq(Conn)]
  /\ \A p \in Peers : conns[p] \in Seq(Connections[p]) /\ Len(conns[p]) <= MaxConns
  /\ needsRelay \subseteq Peers
  /\ geo \in [Public -> {"absent", "success", "fail"}]
  /\ dns \in [RelayNames -> Public \cup {None}]
  /\ asking \subseteq Public \cup RelayNames

\* From the listing on, what was observed of a peer is its connections classified.
Observes ==
  observed = [p \in Peers |-> IF stage = "dialing" \/ conns[p] = <<>> THEN NotObserved
                              ELSE Classify(conns[p])]

\* The rows are those of the lookups and the listing of the pass they were built in.
Shows == rows = IF stage = "built" THEN [p \in Peers |-> RowOf(p)] ELSE NoRows

\* Only what is asked for gets an answer, and nothing is asked with lookups off.
LooksUpIfEnabled ==
  /\ \A ip \in Public : geo[ip] # "absent" => enabled
  /\ stage = "warming" /\ asking # {} => enabled

\* What the pass still asks the provider about is what no pass was told yet: it
\* is asked for what is not cached, and each answer takes it off the list.
AsksForUnknown == stage = "warming" => \A ip \in asking : ip \in Public /\ geo[ip] = "absent"

\* After the lookups nothing is left to ask.
AsksNothing == stage \in {"dialing", "built"} => asking = {}

PlacementInv == Typed /\ Observes /\ Shows /\ LooksUpIfEnabled /\ AsksForUnknown /\ AsksNothing
-----------------------------------------------------------------------------
(* The operators                                                           *)

\* A list of addresses that keeps its places.
AddrList(addrs) == DOMAIN addrs \subseteq Nat /\ \A i \in DOMAIN addrs : addrs[i] \in Address

\* Connections classify to one of the ways, by addresses of theirs.
LEMMA ClassifyTyped ==
  ASSUME NEW cs \in Seq(Conn)
  PROVE  /\ Classify(cs).how \in Ways /\ Classify(cs).how # None
         /\ AddrList(Classify(cs).addrs)
<1>1. DOMAIN cs \subseteq Nat /\ \A i \in DOMAIN cs : cs[i] \in Conn
  OBVIOUS
<1>2. \A i \in DOMAIN cs : cs[i].addr \in Address /\ CircuitOf(cs[i]) \in Address
  BY <1>1 DEF Conn, CircuitOf
<1> QED BY <1>1, <1>2 DEF Classify, Where, AddrsAt, AddrList, Ways, None

\* The addresses are those of connections at the same place, punched, dialed on
\* plain addresses, or circuits all of them; and only without any such are they
\* those a peer dialed from.
LEMMA ClassifyIs ==
  ASSUME NEW cs \in Seq(Conn), \A i \in DOMAIN cs : cs[i].via = NoAddress \/ cs[i].via.circuit,
         NEW i \in DOMAIN Classify(cs).addrs
  PROVE  /\ i \in DOMAIN cs
         /\ Classify(cs).how = "punched" => cs[i].dcutr /\ Classify(cs).addrs[i] = cs[i].addr
         /\ Classify(cs).how = "direct" => Plain(cs[i]) /\ Classify(cs).addrs[i] = cs[i].addr
         /\ Classify(cs).how = "relayed" => Classify(cs).addrs[i].circuit
         /\ Classify(cs).how = "inbound" => Classify(cs).addrs[i] = cs[i].addr
<1> DEFINE punched == Where(cs, Punched)
           direct == Where(cs, Plain)
           relayed == Where(cs, IsCircuit)
<1>1. CASE punched # {}
  BY <1>1 DEF Classify, Where, AddrsAt, Punched
<1>2. CASE punched = {} /\ direct # {}
  <2>1. Classify(cs) = [how |-> "direct", addrs |-> AddrsAt(cs, direct)]
    BY <1>2 DEF Classify
  <2> QED BY <2>1 DEF Where, AddrsAt
<1>3. CASE punched = {} /\ direct = {} /\ relayed # {}
  <2>1. Classify(cs) = [how |-> "relayed", addrs |-> [j \in relayed |-> CircuitOf(cs[j])]]
    BY <1>3 DEF Classify
  <2>2. i \in DOMAIN cs /\ IsCircuit(cs[i])
    BY <2>1 DEF Where
  <2> QED BY <2>1, <2>2 DEF CircuitOf, IsCircuit
<1>4. CASE punched = {} /\ direct = {} /\ relayed = {}
  <2>1. Classify(cs) = [how |-> "inbound", addrs |-> AddrsAt(cs, DOMAIN cs)]
    BY <1>4 DEF Classify
  <2> QED BY <2>1 DEF AddrsAt
<1>5. \/ punched # {}
      \/ punched = {} /\ direct # {}
      \/ punched = {} /\ direct = {} /\ relayed # {}
      \/ punched = {} /\ direct = {} /\ relayed = {}
  <2> HIDE DEF punched, direct, relayed
  <2> QED OBVIOUS
<1> QED BY <1>1, <1>2, <1>3, <1>4, <1>5

\* A peer is called dialable for a connection that was dialed.
LEMMA DirectHasOne ==
  ASSUME NEW cs, Classify(cs).how = "direct"
  PROVE  \E i \in DOMAIN cs : Plain(cs[i])
<1> DEFINE direct == Where(cs, Plain)
<1>1. direct # {}
  BY DEF Classify
<1> QED BY <1>1 DEF Where

\* A location that is a success is a pin or an answer of the provider, and one
\* that is not a relay's is at an address of the list's own.
WellPlaced(loc, addrs) ==
  /\ loc \in Location
  /\ loc.status = "success" =>
       loc.place \in pins \/ (loc.place \in Public /\ geo[loc.place] = "success")
  /\ loc.status = "success" /\ ~loc.relayed =>
       \E i \in DOMAIN addrs : ~addrs[i].circuit /\ addrs[i].ip = loc.place

\* Where a list of addresses is placed.
LEMMA LocateIs ==
  ASSUME Typed, NEW addrs, AddrList(addrs)
  PROVE  WellPlaced(Locate(addrs), addrs)
<1> DEFINE pinned == Where(addrs, PinnedOwn)
           relayPinned == Where(addrs, PinnedRelay)
           own == Where(addrs, PublicOwn)
           hop == RelayIp(addrs)
<1>0. Public \subseteq Ips /\ None \notin Ips /\ pins \subseteq Ips
  BY PlacementAssumption DEF Typed
<1>1. \A S \in SUBSET DOMAIN addrs : S # {} => Min(S) \in S
  BY MinIsThere DEF AddrList
<1>2. Unknown \in Location /\ ViaRelay \in Location
  BY DEF Unknown, ViaRelay, Location
<1>3. CASE pinned # {}
  <2>1. Min(Where(addrs, PinnedOwn)) \in Where(addrs, PinnedOwn)
    BY <1>1, <1>3 DEF Where
  <2> QED BY <1>0, <1>3, <2>1 DEF Locate, Where, FirstOf, PinnedOwn, PlacedAt, Location, WellPlaced
<1>4. CASE pinned = {} /\ relayPinned # {}
  <2>1. Min(Where(addrs, PinnedRelay)) \in Where(addrs, PinnedRelay)
    BY <1>1, <1>4 DEF Where
  <2>2. FirstOf(addrs, Where(addrs, PinnedRelay)).ip \in pins
    BY <2>1 DEF Where, FirstOf, PinnedRelay
  <2> QED BY <1>0, <1>4, <2>2 DEF Locate, PlacedAt, ViaRelayAt, Location, WellPlaced
<1>5. CASE pinned = {} /\ relayPinned = {} /\ own # {}
  <2>1. Min(Where(addrs, PublicOwn)) \in Where(addrs, PublicOwn)
    BY <1>1, <1>5 DEF Where
  <2>2. Locate(addrs) = Cached(FirstOf(addrs, Where(addrs, PublicOwn)).ip)
    BY <1>5 DEF Locate
  <2> QED BY <1>0, <1>2, <2>1, <2>2 DEF Where, FirstOf, PublicOwn, Cached, PlacedAt, Location, Unknown, WellPlaced
<1>6. CASE /\ pinned = {} /\ relayPinned = {} /\ own = {}
           /\ hop # None
  <2>1. RelayIp(addrs) \in Public
    <3>1. CASE Where(addrs, PublicRelay) # {}
      <4>1. Min(Where(addrs, PublicRelay)) \in Where(addrs, PublicRelay)
        BY <1>1, <3>1 DEF Where
      <4> QED BY <3>1, <4>1 DEF RelayIp, Where, FirstOf, PublicRelay
    <3>2. CASE Where(addrs, PublicRelay) = {} /\ Where(addrs, NamedRelay) # {}
      <4>1. Min(Where(addrs, NamedRelay)) \in Where(addrs, NamedRelay)
        BY <1>1, <3>2 DEF Where
      <4>2. FirstOf(addrs, Where(addrs, NamedRelay)) \in Address /\ FirstOf(addrs, Where(addrs, NamedRelay)).name # None
        BY <4>1 DEF Where, FirstOf, NamedRelay, AddrList
      <4>3. FirstOf(addrs, Where(addrs, NamedRelay)).name \in RelayNames
        BY <4>2 DEF Address
      <4> QED BY <1>6, <3>2, <4>3 DEF RelayIp, Typed
    <3> QED BY <1>6, <3>1, <3>2 DEF RelayIp
  <2>2. Locate(addrs) = ViaRelayAt(Cached(RelayIp(addrs)))
    BY <1>6 DEF Locate
  <2> HIDE DEF RelayIp, Locate
  <2> QED BY <1>0, <1>2, <2>1, <2>2 DEF Cached, PlacedAt, Unknown, ViaRelay, ViaRelayAt, Location, WellPlaced
<1>7. CASE /\ pinned = {} /\ relayPinned = {} /\ own = {}
           /\ hop = None
  <2>1. Locate(addrs) = ViaRelay \/ Locate(addrs) = Unknown
    BY <1>7 DEF Locate
  <2>2. ViaRelay.status # "success" /\ Unknown.status # "success"
    BY DEF ViaRelay, Unknown
  <2>3. WellPlaced(ViaRelay, addrs) /\ WellPlaced(Unknown, addrs)
    BY <1>2, <2>2 DEF WellPlaced
  <2> QED BY <2>1, <2>3
<1> HIDE DEF pinned, relayPinned, own, hop
<1> QED BY <1>3, <1>4, <1>5, <1>6, <1>7

\* Every list of observed addresses is one, in every stage.
LEMMA ObservedTyped ==
  ASSUME Typed, Observes, NEW p \in Peers
  PROVE  observed[p].how \in Ways /\ AddrList(observed[p].addrs)
<1>1. conns[p] \in Seq(Conn)
  BY DEF Typed
<1>2. NotObserved.how \in Ways /\ AddrList(NotObserved.addrs)
  BY DEF NotObserved, Ways, AddrList
<1> QED BY <1>1, <1>2, ClassifyTyped DEF Observes

\* The same of a row: what it borrows from a relay keeps the label.
LEMMA LocateRowIs ==
  ASSUME Typed, Observes, NEW addrs, AddrList(addrs)
  PROVE  WellPlaced(LocateRow(addrs), addrs)
<1> DEFINE LentBy(a) == a.circuit /\ a.relay # None /\ observed[a.relay].how # None
                        /\ Known(a.relay).status = "success"
           lent == {i \in DOMAIN addrs : LentBy(addrs[i])}
<1>1. CASE LocateRow(addrs) = Locate(addrs)
  BY <1>1, LocateIs
<1>2. CASE lent # {} /\ LocateRow(addrs) = ViaRelayAt(Known(FirstOf(addrs, lent).relay))
  <2>1. Min(lent) \in lent
    BY <1>2, MinIsThere DEF AddrList
  <2> DEFINE r == FirstOf(addrs, lent).relay
  <2>2. r \in Peers /\ Known(r).status = "success"
    BY <2>1 DEF FirstOf, AddrList, Address
  <2>3. /\ Known(r) \in Location
        /\ Known(r).place \in pins \/ (Known(r).place \in Public /\ geo[Known(r).place] = "success")
    BY <2>2, ObservedTyped, LocateIs DEF Known, WellPlaced
  <2>4. LocateRow(addrs) = [Known(r) EXCEPT !.relayed = TRUE]
    BY <1>2, <2>2 DEF ViaRelayAt
  <2> HIDE DEF r
  <2> QED BY <2>3, <2>4 DEF Location, WellPlaced
<1> QED BY <1>1, <1>2 DEF LocateRow, Where
-----------------------------------------------------------------------------
(* The steps                                                               *)

LEMMA InitInv == Init => PlacementInv
<1> SUFFICES ASSUME Init PROVE PlacementInv
  OBVIOUS
<1>1. Typed
  BY PlacementAssumption DEF Init, Typed
<1>2. Observes /\ Shows /\ LooksUpIfEnabled /\ AsksForUnknown /\ AsksNothing
  BY DEF Init, Observes, Shows, LooksUpIfEnabled, AsksForUnknown, AsksNothing
<1> QED BY <1>1, <1>2 DEF PlacementInv

LEMMA NextTyped == Typed /\ [Next]_vars => Typed'
<1> SUFFICES ASSUME Typed, [Next]_vars PROVE Typed'
  OBVIOUS
<1> USE DEF Typed
<1>1. ASSUME NEW p \in Peers, NEW c \in Connections[p], Open(p, c) PROVE Typed'
  <2>1. Connections[p] \subseteq Conn
    BY PlacementAssumption
  <2>2. /\ Append(conns[p], c) \in Seq(Connections[p]) /\ Append(conns[p], c) \in Seq(Conn)
        /\ Len(Append(conns[p], c)) <= MaxConns
    BY <1>1, <2>1, PlacementAssumption DEF Open
  <2>3. conns' = [conns EXCEPT ![p] = Append(conns[p], c)]
    BY <1>1 DEF Open
  <2> QED BY <1>1, <2>2, <2>3 DEF Open, setting
<1>2. ASSUME NEW p \in Peers, Close(p) PROVE Typed'
  <2>1. /\ Tail(conns[p]) \in Seq(Connections[p]) /\ Tail(conns[p]) \in Seq(Conn)
        /\ Len(Tail(conns[p])) <= MaxConns
    BY <1>2, PlacementAssumption DEF Close
  <2>2. conns' = [conns EXCEPT ![p] = Tail(conns[p])]
    BY <1>2 DEF Close
  <2> QED BY <1>2, <2>1, <2>2 DEF Close, setting
<1>3. CASE List
  BY <1>3 DEF List, setting
<1>4. ASSUME NEW n \in RelayNames, NEW ip \in Public \cup {None}, Resolve(n, ip) PROVE Typed'
  BY <1>4 DEF Resolve, setting
<1>5. CASE Warm
  BY <1>5 DEF Warm, ToWarm, setting
<1>6. ASSUME NEW batch \in SUBSET asking, NEW said \in [batch -> {"absent", "success", "fail"}],
             Fetched(batch, said)
      PROVE  Typed'
  <2>1. \A ip \in Public : (IF ip \in batch THEN said[ip] ELSE geo[ip]) \in {"absent", "success", "fail"}
    OBVIOUS
  <2>2. geo' \in [Public -> {"absent", "success", "fail"}]
    BY <1>6, <2>1 DEF Fetched
  <2> QED BY <1>6, <2>2 DEF Fetched, setting
<1>7. CASE FetchFailed
  BY <1>7 DEF FetchFailed, setting
<1>8. CASE Build
  BY <1>8 DEF Build, setting
<1>9. ASSUME NEW needing \in SUBSET Peers, NextPass(needing) PROVE Typed'
  BY <1>9 DEF NextPass, setting
<1>10. CASE UNCHANGED vars
  BY <1>10 DEF vars, setting
<1> QED BY <1>1, <1>2, <1>3, <1>4, <1>5, <1>6, <1>7, <1>8, <1>9, <1>10 DEF Next

\* Connections change only before the listing, and what was observed then is
\* forgotten with the pass.
LEMMA NextObserves == Observes /\ [Next]_vars => Observes'
<1> SUFFICES ASSUME Observes, [Next]_vars PROVE Observes'
  OBVIOUS
<1> USE DEF Observes
<1>1. ASSUME NEW p \in Peers, NEW c, Open(p, c) \/ Close(p) PROVE Observes'
  BY <1>1 DEF Open, Close
<1>2. CASE List
  BY <1>2 DEF List
<1>3. ASSUME NEW n, NEW ip, NEW batch, NEW said, Resolve(n, ip) \/ Warm \/ Fetched(batch, said) \/ FetchFailed \/ Build
      PROVE  Observes'
  BY <1>3 DEF Resolve, Warm, Fetched, FetchFailed, Build
<1>4. ASSUME NEW needing, NextPass(needing) PROVE Observes'
  BY <1>4 DEF NextPass
<1>5. CASE UNCHANGED vars
  BY <1>5 DEF vars
<1> QED BY <1>1, <1>2, <1>3, <1>4, <1>5 DEF Next

\* A row is a function of the settings, the records, the lookups and the listing.
LEMMA RowsSame ==
  ASSUME UNCHANGED <<pins, needsRelay, geo, dns, observed>>, NEW p
  PROVE  RowOf(p)' = RowOf(p)
<1>1. ASSUME NEW addrs PROVE Locate(addrs)' = Locate(addrs)
  <2>1. /\ Where(addrs, PinnedOwn)' = Where(addrs, PinnedOwn)
        /\ Where(addrs, PinnedRelay)' = Where(addrs, PinnedRelay)
        /\ Where(addrs, PublicOwn)' = Where(addrs, PublicOwn)
        /\ Where(addrs, PublicRelay)' = Where(addrs, PublicRelay)
        /\ Where(addrs, NamedRelay)' = Where(addrs, NamedRelay)
        /\ Where(addrs, Circuit)' = Where(addrs, Circuit)
    BY DEF Where, PinnedOwn, PinnedRelay, PublicOwn, PublicRelay, NamedRelay, Circuit
  <2>2. \A ip : Cached(ip)' = Cached(ip)
    BY DEF Cached
  <2>3. RelayIp(addrs)' = RelayIp(addrs)
    BY <2>1 DEF RelayIp, FirstOf
  <2> QED BY <2>1, <2>2, <2>3 DEF Locate, FirstOf
<1> QED BY <1>1 DEF RowOf, LocateRow, Known, Where, Circuit

\* Rows appear with the build, of what does not change until the next pass.
LEMMA NextShows == Shows /\ [Next]_vars => Shows'
<1> SUFFICES ASSUME Shows, [Next]_vars PROVE Shows'
  OBVIOUS
<1>1. ASSUME NEW p, NEW c, Open(p, c) \/ Close(p) \/ List PROVE Shows'
  BY <1>1 DEF Shows, Open, Close, List
<1>2. ASSUME NEW n, NEW ip, NEW batch, NEW said, Resolve(n, ip) \/ Warm \/ Fetched(batch, said) \/ FetchFailed
      PROVE  Shows'
  BY <1>2 DEF Shows, Resolve, Warm, Fetched, FetchFailed
<1>3. CASE Build
  <2>1. stage' = "built" /\ rows' = [p \in Peers |-> RowOf(p)]
    BY <1>3 DEF Build
  <2>2. UNCHANGED <<pins, needsRelay, geo, dns, observed>>
    BY <1>3 DEF Build, setting
  <2>3. ASSUME NEW p \in Peers PROVE RowOf(p)' = RowOf(p)
    BY <2>2, RowsSame
  <2> HIDE DEF Build
  <2> QED BY <2>1, <2>3 DEF Shows
<1>4. ASSUME NEW needing, NextPass(needing) PROVE Shows'
  BY <1>4 DEF Shows, NextPass
<1>5. CASE UNCHANGED vars
  <2>1. UNCHANGED <<pins, stage, needsRelay, geo, dns, observed, rows>>
    BY <1>5 DEF vars, setting
  <2>2. ASSUME NEW p \in Peers PROVE RowOf(p)' = RowOf(p)
    BY <2>1, RowsSame
  <2> QED BY <2>1, <2>2 DEF Shows
<1> QED BY <1>1, <1>2, <1>3, <1>4, <1>5 DEF Next

LEMMA NextAsks ==
  Typed /\ LooksUpIfEnabled /\ AsksForUnknown /\ AsksNothing /\ [Next]_vars
    => (LooksUpIfEnabled /\ AsksForUnknown /\ AsksNothing)'
<1> SUFFICES ASSUME Typed, LooksUpIfEnabled, AsksForUnknown, AsksNothing, [Next]_vars
             PROVE  (LooksUpIfEnabled /\ AsksForUnknown /\ AsksNothing)'
  OBVIOUS
<1> USE DEF LooksUpIfEnabled, AsksForUnknown, AsksNothing, setting
<1>1. CASE Warm
  BY <1>1 DEF Warm, ToWarm, CachedIps
<1>2. ASSUME NEW batch, NEW said, Fetched(batch, said)
      PROVE  (LooksUpIfEnabled /\ AsksForUnknown /\ AsksNothing)'
  <2>1. enabled /\ enabled' = enabled /\ stage = "warming" /\ stage' = stage /\ asking' = asking \ batch
    BY <1>2 DEF Fetched
  <2>2. \A ip \in Public : geo'[ip] = IF ip \in batch THEN said[ip] ELSE geo[ip]
    BY <1>2 DEF Fetched
  <2> QED BY <2>1, <2>2
<1>3. CASE FetchFailed
  BY <1>3 DEF FetchFailed
<1>4. CASE UNCHANGED vars
  BY <1>4 DEF vars
<1>5. ASSUME NEW p \in Peers, (\E c \in Connections[p] : Open(p, c)) \/ Close(p)
      PROVE  (LooksUpIfEnabled /\ AsksForUnknown /\ AsksNothing)'
  BY <1>5 DEF Open, Close
<1>6. ASSUME NEW n, NEW ip, Resolve(n, ip)
      PROVE  (LooksUpIfEnabled /\ AsksForUnknown /\ AsksNothing)'
  BY <1>6 DEF Resolve
<1>7. ASSUME NEW needing, List \/ Build \/ NextPass(needing)
      PROVE  (LooksUpIfEnabled /\ AsksForUnknown /\ AsksNothing)'
  BY <1>7 DEF List, Build, NextPass
<1> QED BY <1>1, <1>2, <1>3, <1>4, <1>5, <1>6, <1>7 DEF Next

LEMMA AlwaysInv == Spec => []PlacementInv
<1>1. PlacementInv /\ [Next]_vars => PlacementInv'
  BY NextTyped, NextObserves, NextShows, NextAsks DEF PlacementInv
<1> QED BY <1>1, InitInv, PTL DEF Spec

-----------------------------------------------------------------------------
(* What the map shows                                                      *)

\* Types: whatever was listed and looked up, nothing but public addresses and
\* relay names is ever asked for, and every row has a way and a location
\* (observed_addrs, resolve_relays, warm, peer_ip_info_for).
THEOREM TypeCorrect == Spec => []TypeOK
<1>1. PlacementInv => TypeOK
  <2> SUFFICES ASSUME PlacementInv PROVE TypeOK
    OBVIOUS
  <2> USE DEF PlacementInv
  <2>1. ASSUME NEW p \in Peers
        PROVE  observed[p].how \in Ways /\ rows[p].how \in Ways /\ rows[p].location \in Location
    <3>1. observed[p].how \in Ways
      BY ObservedTyped
    <3>2. CASE stage # "built"
      BY <3>1, <3>2 DEF Shows, NoRows, Unknown, Location, Ways
    <3>3. CASE stage = "built"
      <4>1. LocateRow(observed[p].addrs) \in Location
        BY ObservedTyped, LocateRowIs DEF WellPlaced
      <4>2. ViaRelay \in Location /\ "relayed" \in Ways
        BY DEF ViaRelay, Location, Ways
      <4> QED BY <3>1, <3>3, <4>1, <4>2 DEF Shows, RowOf
    <3> QED BY <3>1, <3>2, <3>3
  <2> QED BY <2>1 DEF TypeOK, Typed
<1> QED BY <1>1, AlwaysInv, PTL

\* A pin is somebody's, over any number of passes: a row located with success is
\* at an address the operator pinned, or at a public one the provider located
\* while lookups were on; a relay that is not located lends nothing
\* (via_relay_at, static_for, cached, locate_row).
THEOREM PinsAreSomewhere == Spec => []SuccessIsSomewhere
<1>1. PlacementInv => SuccessIsSomewhere
  <2> SUFFICES ASSUME PlacementInv, NEW p \in Peers, rows[p].location.status = "success"
               PROVE  rows[p].location.place \in pins
                        \/ (enabled /\ rows[p].location.place \in Public
                            /\ geo[rows[p].location.place] = "success")
    BY DEF SuccessIsSomewhere
  <2> USE DEF PlacementInv
  <2>1. stage = "built" /\ rows[p].location = LocateRow(observed[p].addrs)
    BY DEF Shows, NoRows, Unknown, RowOf, ViaRelay
  <2>2. rows[p].location.place \in pins
          \/ (rows[p].location.place \in Public /\ geo[rows[p].location.place] = "success")
    BY <2>1, ObservedTyped, LocateRowIs DEF WellPlaced
  <2> QED BY <2>2 DEF LooksUpIfEnabled
<1> QED BY <1>1, AlwaysInv, PTL

\* A place not labelled as a relay's is at the address of a plain connection the
\* peer has, and, for a peer that says it needs a relay, of one that was dialed
\* or punched (classify, locate, peer_ip_info_for).
THEOREM PlacesAreOwn == Spec => []OwnPlaceIsOwn
<1>1. PlacementInv => OwnPlaceIsOwn
  <2> SUFFICES ASSUME PlacementInv, NEW p \in Peers,
                      rows[p].location.status = "success", ~rows[p].location.relayed
               PROVE  \E i \in DOMAIN conns[p] :
                        /\ conns[p][i].addr.ip = rows[p].location.place /\ ~conns[p][i].addr.circuit
                        /\ p \in needsRelay => conns[p][i].outbound \/ conns[p][i].dcutr
    BY DEF OwnPlaceIsOwn
  <2> USE DEF PlacementInv
  <2>1. /\ stage = "built" /\ rows[p].location = LocateRow(observed[p].addrs)
        /\ ~(observed[p].how = "inbound" /\ p \in needsRelay)
    BY DEF Shows, NoRows, Unknown, RowOf, ViaRelay
  <2>2. PICK i \in DOMAIN observed[p].addrs :
          ~observed[p].addrs[i].circuit /\ observed[p].addrs[i].ip = rows[p].location.place
    BY <2>1, ObservedTyped, LocateRowIs DEF WellPlaced
  <2>3. conns[p] # <<>> /\ observed[p] = Classify(conns[p])
    BY <2>1, <2>2 DEF Observes, NotObserved
  <2>4. conns[p] \in Seq(Conn) /\ \A j \in DOMAIN conns[p] : conns[p][j].via = NoAddress \/ conns[p][j].via.circuit
    BY PlacementAssumption DEF Typed
  <2>5. Classify(conns[p]).how \in {"punched", "direct", "relayed", "inbound"}
    BY <2>4, ClassifyTyped DEF Ways
  <2>6. /\ i \in DOMAIN conns[p] /\ observed[p].addrs[i] = conns[p][i].addr
        /\ observed[p].how = "inbound" \/ conns[p][i].outbound \/ conns[p][i].dcutr
    BY <2>2, <2>3, <2>4, <2>5, ClassifyIs DEF Plain
  <2> QED BY <2>1, <2>2, <2>6
<1> QED BY <1>1, AlwaysInv, PTL

\* Only a peer the observer dialed on a plain address is listed as dialable, and
\* one listed as relayed is listed by circuits alone (classify).
THEOREM DirectMeansDialed == Spec => []DirectWasDialed
<1>1. PlacementInv => DirectWasDialed
  <2> SUFFICES ASSUME PlacementInv, NEW p \in Peers
               PROVE  /\ rows[p].how = "direct" => \E i \in DOMAIN conns[p] :
                           conns[p][i].outbound /\ ~conns[p][i].addr.circuit /\ conns[p][i].via = NoAddress
                      /\ rows[p].how = "relayed" =>
                           \A i \in DOMAIN rows[p].addrs : rows[p].addrs[i].circuit
    BY DEF DirectWasDialed
  <2> USE DEF PlacementInv
  <2>1. CASE rows[p].how = None
    BY <2>1 DEF None
  <2>2. CASE rows[p].how = "relayed" /\ rows[p].addrs = <<>>
    BY <2>2
  <2>3. CASE rows[p].how # None /\ ~(rows[p].how = "relayed" /\ rows[p].addrs = <<>>)
    <3>1. rows[p].how = observed[p].how /\ rows[p].addrs = observed[p].addrs /\ stage = "built"
      BY <2>3 DEF Shows, NoRows, RowOf
    <3>2. conns[p] # <<>> /\ observed[p] = Classify(conns[p])
      BY <2>3, <3>1 DEF Observes, NotObserved
    <3>3. conns[p] \in Seq(Conn) /\ \A j \in DOMAIN conns[p] : conns[p][j].via = NoAddress \/ conns[p][j].via.circuit
      BY PlacementAssumption DEF Typed
    <3>4. rows[p].how = "direct" => \E i \in DOMAIN conns[p] : Plain(conns[p][i])
      BY <3>1, <3>2, DirectHasOne
    <3>5. rows[p].how = "relayed" => \A i \in DOMAIN rows[p].addrs : rows[p].addrs[i].circuit
      BY <3>1, <3>2, <3>3, ClassifyIs
    <3> QED BY <3>4, <3>5 DEF Plain, IsCircuit
  <2> QED BY <2>1, <2>2, <2>3
<1> QED BY <1>1, AlwaysInv, PTL

\* What the provider said of an address is kept over every pass, failed batches
\* and a full cache included: only what it has not said anything of is asked for,
\* and only what is asked for is overwritten (warm).
THEOREM LookupsAreKeptAlways == Spec => LookupsAreKept
<1> DEFINE Keeps == \A ip \in Public : geo[ip] # "absent" => geo'[ip] = geo[ip]
<1>1. PlacementInv /\ [Next]_vars => [Keeps]_geo
  <2> SUFFICES ASSUME AsksForUnknown, [Next]_vars, geo' # geo,
                      NEW ip \in Public, geo[ip] # "absent"
               PROVE  geo'[ip] = geo[ip]
    BY DEF PlacementInv
  <2>1. PICK batch, said : Fetched(batch, said)
    BY DEF Next, vars, Open, Close, List, Resolve, Warm, FetchFailed, Build, NextPass
  <2> QED BY <2>1 DEF Fetched, AsksForUnknown
<1> QED BY <1>1, AlwaysInv, PTL DEF Spec, LookupsAreKept
=============================================================================
