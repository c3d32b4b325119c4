----------------------------- MODULE ProbesProofs -----------------------------
(***************************************************************************)
(* Proofs about Probes, for any peers, clients, addresses and expiry.      *)
(***************************************************************************)
EXTENDS Probes, TLAPS

-----------------------------------------------------------------------------
(* Type correctness.                                                       *)

LEMMA InitType == Init => TypeOK
<1>1. Nobody \in Names
  BY ProbesAssumption DEF Nobody
<1> QED
  BY <1>1, ProbesAssumption DEF Init, TypeOK, NoVerdict, Phases

\* A verdict stored now is as old as the clock.
LEMMA StoreType ==
  ASSUME TypeOK, NEW c \in Clients, Store(c)
  PROVE  /\ cache' \in [Names -> [ok : BOOLEAN, at : 0 .. clock]]
         /\ stored' \in [Names -> [BOOLEAN -> 0 .. clock]]
<1>1. asked[c] \in Names /\ ok[c] \in BOOLEAN /\ clock \in 0 .. clock
  BY ProbesAssumption DEF TypeOK
<1>2. [ok |-> ok[c], at |-> clock] \in [ok : BOOLEAN, at : 0 .. clock]
  BY <1>1
<1>3. cache' \in [Names -> [ok : BOOLEAN, at : 0 .. clock]]
  BY <1>1, <1>2 DEF Store, TypeOK
<1>4. stored' = [stored EXCEPT ![asked[c]] = [stored[asked[c]] EXCEPT ![ok[c]] = clock]]
  BY DEF Store
<1>5. [stored[asked[c]] EXCEPT ![ok[c]] = clock] \in [BOOLEAN -> 0 .. clock]
  BY <1>1 DEF TypeOK
<1>6. stored' \in [Names -> [BOOLEAN -> 0 .. clock]]
  BY <1>1, <1>4, <1>5 DEF TypeOK
<1> QED BY <1>3, <1>6

\* A later clock bounds what an earlier one did.
LEMMA TickType ==
  ASSUME TypeOK, Tick
  PROVE  /\ clock' \in 1 .. MaxTime
         /\ cache' \in [Names -> [ok : BOOLEAN, at : 0 .. clock']]
         /\ stored' \in [Names -> [BOOLEAN -> 0 .. clock']]
<1>1. clock' \in 1 .. MaxTime /\ \A t \in 0 .. clock : t \in 0 .. clock'
  BY ProbesAssumption DEF Tick, TypeOK
<1>2. cache' = cache /\ stored' = stored
  BY DEF Tick
<1>3. \A n \in Names : cache[n] \in [ok : BOOLEAN, at : 0 .. clock']
  <2> SUFFICES ASSUME NEW n \in Names PROVE cache[n] \in [ok : BOOLEAN, at : 0 .. clock']
    OBVIOUS
  <2>1. cache[n] \in [ok : BOOLEAN, at : 0 .. clock]
    BY DEF TypeOK
  <2> QED BY <1>1, <2>1
<1>4. \A n \in Names : stored[n] \in [BOOLEAN -> 0 .. clock']
  <2> SUFFICES ASSUME NEW n \in Names PROVE stored[n] \in [BOOLEAN -> 0 .. clock']
    OBVIOUS
  <2>1. stored[n] \in [BOOLEAN -> 0 .. clock]
    BY DEF TypeOK
  <2>2. 0 .. clock \subseteq 0 .. clock'
    BY <1>1
  <2> HIDE DEF TypeOK
  <2> QED BY <2>1, <2>2, Zenon
<1> QED BY <1>1, <1>2, <1>3, <1>4 DEF TypeOK

LEMMA NextType == TypeOK /\ [Next]_vars => TypeOK'
<1> SUFFICES ASSUME TypeOK, [Next]_vars PROVE TypeOK'
  OBVIOUS
<1> USE DEF probe, location
<1>1. CASE UNCHANGED vars
  BY <1>1 DEF vars, TypeOK
<1>2. ASSUME NEW c \in Clients, NEW n \in Names, Hit(c, n) PROVE TypeOK'
  BY <1>1, <1>2 DEF Hit
<1>3. ASSUME NEW c \in Clients, NEW n \in Names, NEW addrs \in 0 .. MaxAddrs, Miss(c, n, addrs)
      PROVE  TypeOK'
  <2>1. MaxAddrs \in Nat /\ addrs + 1 \in 0 .. MaxAddrs + 1 /\ addrs + 1 > 0 /\ 0 \in 0 .. MaxAddrs + 1
    BY ProbesAssumption
  <2>2. left' \in [Clients -> 0 .. MaxAddrs + 1] /\ phase' \in [Clients -> Phases]
        /\ asked' \in [Clients -> Names]
    BY <1>3, <2>1 DEF Miss, TypeOK, Phases
  <2>3. \A d \in Clients : phase'[d] = "dialing" => asked'[d] \in Ids /\ left'[d] > 0
    BY <1>3, <2>1 DEF Miss, TypeOK, Phases
  <2> QED BY <1>3, <2>2, <2>3 DEF Miss, TypeOK
<1>4. ASSUME NEW c \in Clients, AlreadyConnected(c) \/ Accepted(c) \/ HangUp(c) PROVE TypeOK'
  BY <1>4 DEF AlreadyConnected, Accepted, HangUp, TypeOK, Phases
<1>5. ASSUME NEW c \in Clients, Refused(c) PROVE TypeOK'
  <2>1. left[c] \in 0 .. MaxAddrs + 1 /\ left[c] > 0 /\ MaxAddrs \in Nat
    BY <1>5, ProbesAssumption DEF Refused, TypeOK
  <2>2. left[c] - 1 \in 0 .. MaxAddrs + 1 /\ (left[c] # 1 => left[c] - 1 > 0)
    BY <2>1
  <2>3. left' \in [Clients -> 0 .. MaxAddrs + 1] /\ phase' \in [Clients -> Phases]
    BY <1>5, <2>2 DEF Refused, TypeOK, Phases
  <2>4. \A d \in Clients : phase'[d] = "dialing" => asked[d] \in Ids /\ left'[d] > 0
    BY <1>5, <2>2 DEF Refused, TypeOK
  <2> QED BY <1>5, <2>3, <2>4 DEF Refused, TypeOK
<1>6. ASSUME NEW c \in Clients, Store(c) PROVE TypeOK'
  <2>1. Nobody \in Names
    BY ProbesAssumption DEF Nobody
  <2>2. /\ cache' \in [Names -> [ok : BOOLEAN, at : 0 .. clock]]
        /\ stored' \in [Names -> [BOOLEAN -> 0 .. clock]]
    BY <1>6, StoreType
  <2>3. 0 \in 0 .. MaxAddrs + 1
    BY ProbesAssumption
  <2>4. phase' \in [Clients -> Phases] /\ asked' \in [Clients -> Names]
        /\ left' \in [Clients -> 0 .. MaxAddrs + 1] /\ ok' \in [Clients -> BOOLEAN]
    BY <1>6, <2>1, <2>3 DEF Store, Reply, TypeOK, Phases
  <2>5. \A d \in Clients : phase'[d] = "dialing" => asked'[d] \in Ids /\ left'[d] > 0
    BY <1>6 DEF Store, Reply, TypeOK
  <2>6. /\ clock' = clock /\ conns' = conns
        /\ pass' = pass /\ todo' = todo /\ errors' = errors /\ issues' = issues /\ reached' = reached
    BY <1>6 DEF Store
  <2> QED BY <2>2, <2>4, <2>5, <2>6 DEF TypeOK
<1>7. ASSUME NEW targets \in SUBSET Ids, StartPass(targets) PROVE TypeOK'
  BY <1>7 DEF StartPass, TypeOK
<1>8. ASSUME NEW p \in Ids, NEW success \in BOOLEAN, DialTarget(p, success) PROVE TypeOK'
  BY <1>8 DEF DialTarget, TypeOK
<1>9. CASE ListPeers
  BY <1>9 DEF ListPeers, TypeOK
<1>10. ASSUME NEW p \in Ids, Inbound(p) \/ Closed(p) PROVE TypeOK'
  BY <1>10 DEF Inbound, Closed, TypeOK
<1>11. CASE Tick
  BY <1>11, TickType DEF Tick, TypeOK
<1> QED
  BY <1>1, <1>2, <1>3, <1>4, <1>5, <1>6, <1>7, <1>8, <1>9, <1>10, <1>11 DEF Next, Probe, Locate

\* Types hold for any clients, and a probe that dials has a candidate left
\* (Probes!TypeOK).
THEOREM TypeCorrect == Spec => []TypeOK
BY InitType, NextType, PTL DEF Spec

-----------------------------------------------------------------------------
(* The verdict cache.                                                      *)

\* The cache has, for each name, the latest verdict any request reached: the
\* strengthening that makes AnswersBacked inductive.
CacheIsLatest ==
  \A n \in Names :
    /\ stored[n][cache[n].ok] = cache[n].at
    /\ \A v \in BOOLEAN : stored[n][v] <= cache[n].at

LEMMA InitCache == Init => CacheIsLatest
<1> SUFFICES ASSUME Init, NEW n \in Names
             PROVE  /\ stored[n][cache[n].ok] = cache[n].at
                    /\ \A v \in BOOLEAN : stored[n][v] <= cache[n].at
  BY DEF CacheIsLatest
<1>1. cache[n].ok = FALSE /\ cache[n].at = 0 /\ stored[n] = [v \in BOOLEAN |-> 0]
  BY DEF Init, NoVerdict
<1>2. \A v \in BOOLEAN : stored[n][v] = 0
  BY <1>1, Zenon
<1>3. FALSE \in BOOLEAN /\ 0 <= 0
  OBVIOUS
<1> QED BY <1>1, <1>2, <1>3

\* Only storing a verdict changes either, and it changes both.
LEMMA NextCache == TypeOK /\ CacheIsLatest /\ [Next]_vars => CacheIsLatest'
<1> SUFFICES ASSUME TypeOK, CacheIsLatest, [Next]_vars PROVE CacheIsLatest'
  OBVIOUS
<1>1. CASE UNCHANGED <<cache, stored>>
  BY <1>1 DEF CacheIsLatest
<1>2. ASSUME NEW c \in Clients, Store(c) PROVE CacheIsLatest'
  <2>1. asked[c] \in Names /\ ok[c] \in BOOLEAN
    BY DEF TypeOK
  <2>2. /\ cache'[asked[c]] = [ok |-> ok[c], at |-> clock]
        /\ \A n \in Names \ {asked[c]} : cache'[n] = cache[n] /\ stored'[n] = stored[n]
    BY <1>2, <2>1 DEF Store, TypeOK
  <2>3. stored'[asked[c]] = [stored[asked[c]] EXCEPT ![ok[c]] = clock]
    BY <1>2, <2>1 DEF Store, TypeOK
  <2>4. /\ stored'[asked[c]][ok[c]] = clock
        /\ \A v \in BOOLEAN : stored'[asked[c]][v] = clock \/ stored'[asked[c]][v] = stored[asked[c]][v]
    BY <2>1, <2>3 DEF TypeOK
  <2>5. \A v \in BOOLEAN : stored[asked[c]][v] <= clock
    BY <2>1, ProbesAssumption DEF TypeOK
  <2>6. clock <= clock
    BY DEF TypeOK
  <2>7. /\ stored'[asked[c]][cache'[asked[c]].ok] = cache'[asked[c]].at
        /\ \A v \in BOOLEAN : stored'[asked[c]][v] <= cache'[asked[c]].at
    BY <2>2, <2>4, <2>5, <2>6
  <2> QED BY <2>2, <2>7 DEF CacheIsLatest
<1>3. [Next]_vars => UNCHANGED <<cache, stored>> \/ \E c \in Clients : Store(c)
  BY DEF Next, vars, Hit, Miss, Probe, AlreadyConnected, Accepted, Refused, HangUp, StartPass,
         Locate, DialTarget, ListPeers, Inbound, Closed, Tick
<1> QED BY <1>1, <1>2, <1>3

\* An answer from the cache was reached within the expiry, whichever request
\* stored it (check).
THEOREM AnswersBackedAlways == Spec => []AnswersBacked
<1>1. TypeOK /\ CacheIsLatest => AnswersBacked
  BY DEF TypeOK, CacheIsLatest, AnswersBacked, Fresh
<1> QED BY <1>1, InitCache, NextCache, TypeCorrect, PTL DEF Spec

\* No name is probed again within the expiry of any verdict on it, success or
\* failure, whichever request reached it (check).
THEOREM NoProbeBeforeExpiryAlways == Spec => NoProbeBeforeExpiry
<1> DEFINE Waits == \A c \in Clients : phase[c] = "idle" /\ phase'[c] # "idle" =>
                      \A v \in BOOLEAN : LET at == stored[asked'[c]][v] IN at # 0 => clock - at >= TTL
<1>1. ASSUME TypeOK, CacheIsLatest, [Next]_vars PROVE [Waits]_vars
  <2>1. ASSUME NEW c \in Clients, phase[c] = "idle", phase'[c] # "idle"
        PROVE  \E n \in Names, addrs \in 0 .. MaxAddrs : Miss(c, n, addrs)
    <3>1. phase' # phase
      BY <2>1
    <3>2. ASSUME NEW d \in Clients, Probe(d) PROVE FALSE
      <4>1. phase[d] # "idle" /\ \A e \in Clients \ {d} : phase'[e] = phase[e]
        BY <1>1, <3>2 DEF TypeOK, Probe, AlreadyConnected, Accepted, Refused, HangUp, Store, Reply
      <4> QED BY <2>1, <4>1
    <3>3. ASSUME NEW d \in Clients, NEW n \in Names, NEW addrs \in 0 .. MaxAddrs, Miss(d, n, addrs)
          PROVE  d = c
      BY <1>1, <2>1, <3>3 DEF TypeOK, Miss
    <3> QED
      BY <1>1, <3>1, <3>2, <3>3
      DEF Next, vars, probe, Hit, StartPass, Locate, DialTarget, ListPeers, Inbound, Closed, Tick
  <2>2. ASSUME NEW c \in Clients, NEW n \in Names, NEW addrs \in 0 .. MaxAddrs, Miss(c, n, addrs),
               NEW v \in BOOLEAN, stored[n][v] # 0
        PROVE  asked'[c] = n /\ clock - stored[n][v] >= TTL
    <3>1. asked'[c] = n /\ ~Fresh(n)
      BY <1>1, <2>2 DEF Miss, TypeOK
    <3>2. stored[n][v] \in Nat /\ cache[n].at \in Nat /\ clock \in Nat /\ TTL \in Nat
      BY <1>1, ProbesAssumption DEF TypeOK
    <3>3. stored[n][v] <= cache[n].at
      BY <1>1 DEF CacheIsLatest
    <3> QED BY <2>2, <3>1, <3>2, <3>3 DEF Fresh
  <2> SUFFICES ASSUME NEW c \in Clients, phase[c] = "idle", phase'[c] # "idle",
                      NEW v \in BOOLEAN, stored[asked'[c]][v] # 0
               PROVE  clock - stored[asked'[c]][v] >= TTL
    OBVIOUS
  <2>3. PICK n \in Names, addrs \in 0 .. MaxAddrs : Miss(c, n, addrs)
    BY <2>1
  <2>4. asked'[c] = n
    BY <1>1, <2>3 DEF Miss, TypeOK
  <2> QED BY <2>2, <2>3, <2>4
<1>2. TypeOK /\ CacheIsLatest /\ [Next]_vars => [Waits]_vars
  BY <1>1
<1> QED BY <1>2, InitCache, NextCache, TypeCorrect, PTL DEF Spec, NoProbeBeforeExpiry

-----------------------------------------------------------------------------
(* The location pass.                                                      *)

\* A peer's dial ends once: it is still to do, failed, or reached.
DialsEndOnce ==
  /\ todo \cap (errors \cup reached) = {} /\ errors \cap reached = {}
  /\ issues \subseteq errors

LEMMA NextDials == DialsEndOnce /\ [Next]_vars => DialsEndOnce'
<1> SUFFICES ASSUME DialsEndOnce, [Next]_vars PROVE DialsEndOnce'
  OBVIOUS
<1>1. CASE UNCHANGED location
  BY <1>1 DEF location, DialsEndOnce
<1>2. ASSUME NEW targets, StartPass(targets) PROVE DialsEndOnce'
  BY <1>2 DEF StartPass, DialsEndOnce
<1>3. ASSUME NEW p, NEW success \in BOOLEAN, DialTarget(p, success) PROVE DialsEndOnce'
  BY <1>3 DEF DialTarget, DialsEndOnce
<1>4. CASE ListPeers
  BY <1>4 DEF ListPeers, DialsEndOnce
<1>5. \/ UNCHANGED location
      \/ \E targets \in SUBSET Ids : StartPass(targets)
      \/ \E p \in Ids, success \in BOOLEAN : DialTarget(p, success)
      \/ ListPeers
  BY DEF Next, vars, Hit, Miss, Probe, AlreadyConnected, Accepted, Refused, HangUp, Store, Locate,
         Inbound, Closed, Tick, location
<1> QED BY <1>1, <1>2, <1>3, <1>4, <1>5

\* No peer the pass reached is an issue, whoever closed its connection before
\* the listing (connect_discovered_peers).
THEOREM IssuesOnlyFailedDialsAlways == Spec => []IssuesOnlyFailedDials
<1>1. Init => DialsEndOnce
  BY DEF Init, DialsEndOnce
<1>2. DialsEndOnce => IssuesOnlyFailedDials
  BY DEF DialsEndOnce, IssuesOnlyFailedDials
<1> QED BY <1>1, <1>2, NextDials, PTL DEF Spec
=============================================================================
