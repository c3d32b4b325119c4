---------------------------- MODULE AssemblyProofs ----------------------------
(***************************************************************************)
(* Proofs about Assembly, for registries, records and models of any number *)
(* and size: what the folds over the decoded lists compute, that no record *)
(* is lost between a block key and the reports, and that the peer list, the*)
(* contributors and the coverage are those of the reports.                 *)
(***************************************************************************)
EXTENDS Assembly, ListsProofs

-----------------------------------------------------------------------------
(* The folds.                                                              *)

\* What is kept of the servers of one model: peer -> PeerModelEntry.
ModelEntry == [blocks : SUBSET Int, info : ServerInfo]
Outs == UNION {[D -> ModelEntry] : D \in SUBSET Peers}

Server == Peers \X ServerInfo

\* One server is added, and the others are left alone.
LEMMA FoldIs ==
  ASSUME NEW out \in Outs, NEW b \in Int, NEW server \in Server
  PROVE  LET p == server[1]
             new == Fold(out, b, server)
         IN  /\ new \in Outs
             /\ DOMAIN new = DOMAIN out \cup {p}
             /\ \A q \in DOMAIN out : q # p => new[q] = out[q]
             /\ new[p].blocks = (IF p \in DOMAIN out THEN out[p].blocks ELSE {}) \cup {b}
             /\ new[p].info = IF server[2].state = "online" \/ p \notin DOMAIN out THEN server[2]
                              ELSE out[p].info
<1> DEFINE p == server[1]
           s == server[2]
           old == OrInsert(out, p, [blocks |-> {}, info |-> s])
           D == DOMAIN out \cup {p}
<1>1. /\ p \in Peers /\ s \in ServerInfo
      /\ DOMAIN out \subseteq Peers /\ out \in [DOMAIN out -> ModelEntry]
  BY DEF Server, Outs
<1>2. old = [k \in D |-> IF k \in DOMAIN out THEN out[k] ELSE [blocks |-> {}, info |-> s]]
  BY DEF OrInsert
<1>3. [blocks |-> {}, info |-> s] \in ModelEntry
  BY <1>1 DEF ModelEntry
<1>4. old \in [D -> ModelEntry]
  BY <1>1, <1>2, <1>3
<1> DEFINE entry == [blocks |-> old[p].blocks \cup {b},
                     info   |-> IF s.state = "online" THEN s ELSE old[p].info]
<1>5. Fold(out, b, server) = [old EXCEPT ![p] = entry]
  BY DEF Fold
<1>6. old[p] \in ModelEntry
  BY <1>4
<1> HIDE DEF old
<1>7. entry \in ModelEntry
  BY <1>1, <1>6 DEF ModelEntry
<1>8. /\ Fold(out, b, server) \in [D -> ModelEntry]
      /\ Fold(out, b, server)[p] = entry
      /\ \A q \in DOMAIN out : q # p => Fold(out, b, server)[q] = old[q]
  BY <1>4, <1>5, <1>7
<1>9. Fold(out, b, server) \in Outs /\ DOMAIN Fold(out, b, server) = D
  BY <1>1, <1>8 DEF Outs
<1>10. \A q \in DOMAIN out : old[q] = out[q]
  BY <1>2
<1>11. p \notin DOMAIN out => old[p] = [blocks |-> {}, info |-> s]
  BY <1>2
<1> QED BY <1>8, <1>9, <1>10, <1>11

\* What has been made of out after the servers at the places I of a reply.
FoldedTo(new, out, b, servers, I) ==
  /\ new \in Outs
  /\ \A p : p \in DOMAIN new <=> p \in DOMAIN out \/ \E i \in I : servers[i][1] = p
  /\ \A p \in DOMAIN new :
       /\ \A c : c \in new[p].blocks <=>
                   (p \in DOMAIN out /\ c \in out[p].blocks) \/ (c = b /\ \E i \in I : servers[i][1] = p)
       /\ (p \in DOMAIN out /\ new[p].info = out[p].info)
            \/ \E i \in I : servers[i][1] = p /\ servers[i][2] = new[p].info
       /\ new[p].info.state = "online" <=>
            (p \in DOMAIN out /\ out[p].info.state = "online")
              \/ \E i \in I : servers[i][1] = p /\ servers[i][2].state = "online"

LEMMA FoldedStep ==
  ASSUME NEW out \in Outs, NEW b \in Int, NEW servers, NEW k, servers[k] \in Server,
         NEW I, NEW J, \A i : i \in J <=> i \in I \/ i = k,
         NEW old, FoldedTo(old, out, b, servers, I)
  PROVE  FoldedTo(Fold(old, b, servers[k]), out, b, servers, J)
<1> DEFINE p == servers[k][1]
           s == servers[k][2]
           new == Fold(old, b, servers[k])
<1>1. old \in Outs
  BY DEF FoldedTo
<1>2. /\ new \in Outs
      /\ DOMAIN new = DOMAIN old \cup {p}
      /\ \A q \in DOMAIN old : q # p => new[q] = old[q]
      /\ new[p].blocks = (IF p \in DOMAIN old THEN old[p].blocks ELSE {}) \cup {b}
      /\ new[p].info = IF s.state = "online" \/ p \notin DOMAIN old THEN s ELSE old[p].info
  BY <1>1, FoldIs
<1>3. /\ \A q : q \in DOMAIN old <=> q \in DOMAIN out \/ \E i \in I : servers[i][1] = q
      /\ \A q \in DOMAIN old :
           /\ \A c : c \in old[q].blocks <=>
                       (q \in DOMAIN out /\ c \in out[q].blocks) \/ (c = b /\ \E i \in I : servers[i][1] = q)
           /\ (q \in DOMAIN out /\ old[q].info = out[q].info)
                \/ \E i \in I : servers[i][1] = q /\ servers[i][2] = old[q].info
           /\ old[q].info.state = "online" <=>
                (q \in DOMAIN out /\ out[q].info.state = "online")
                  \/ \E i \in I : servers[i][1] = q /\ servers[i][2].state = "online"
  BY DEF FoldedTo
<1> HIDE DEF new
<1>4. \A q : q \in DOMAIN new <=> q \in DOMAIN out \/ \E i \in J : servers[i][1] = q
  BY <1>2, <1>3
<1>5. ASSUME NEW q \in DOMAIN new
      PROVE  /\ \A c : c \in new[q].blocks <=>
                         (q \in DOMAIN out /\ c \in out[q].blocks) \/ (c = b /\ \E i \in J : servers[i][1] = q)
             /\ (q \in DOMAIN out /\ new[q].info = out[q].info)
                  \/ \E i \in J : servers[i][1] = q /\ servers[i][2] = new[q].info
             /\ new[q].info.state = "online" <=>
                  (q \in DOMAIN out /\ out[q].info.state = "online")
                    \/ \E i \in J : servers[i][1] = q /\ servers[i][2].state = "online"
  <2>1. CASE q # p
    <3>1. q \in DOMAIN old /\ new[q] = old[q]
      BY <1>2, <2>1
    <3>2. \A i \in J : servers[i][1] = q => i \in I
      BY <2>1
    <3> QED BY <1>3, <3>1, <3>2
  <2>2. CASE q = p
    <3>1. \A c : c \in new[p].blocks <=>
                   (p \in DOMAIN out /\ c \in out[p].blocks) \/ (c = b /\ \E i \in J : servers[i][1] = p)
      BY <1>2, <1>3
    <3>2. (p \in DOMAIN out /\ new[p].info = out[p].info)
             \/ \E i \in J : servers[i][1] = p /\ servers[i][2] = new[p].info
      BY <1>2, <1>3
    <3>3. new[p].info.state = "online" <=>
             (p \in DOMAIN out /\ out[p].info.state = "online")
               \/ \E i \in J : servers[i][1] = p /\ servers[i][2].state = "online"
      <4>1. CASE s.state = "online"
        BY <1>2, <4>1
      <4>2. CASE s.state # "online" /\ p \in DOMAIN old
        BY <1>2, <1>3, <4>2
      <4>3. CASE s.state # "online" /\ p \notin DOMAIN old
        BY <1>2, <1>3, <4>3
      <4> QED BY <4>1, <4>2, <4>3
    <3> QED BY <2>2, <3>1, <3>2, <3>3
  <2> QED BY <2>1, <2>2
<1> QED BY <1>2, <1>4, <1>5 DEF FoldedTo, new

\* The servers of one reply are all folded, and nothing else is.
LEMMA FoldAllIs ==
  ASSUME NEW out \in Outs, NEW b \in Int, NEW servers, ListOf(servers, Server)
  PROVE  FoldedTo(FoldAll(out, b, servers), out, b, servers, DOMAIN servers)
<1> DEFINE n == LastPlace(servers)
           after[i \in 0 .. n] ==
             IF i = 0 THEN out
             ELSE IF i \in DOMAIN servers THEN Fold(after[i - 1], b, servers[i]) ELSE after[i - 1]
<1>1. n \in Nat /\ DOMAIN servers \subseteq 1 .. n /\ \A i \in DOMAIN servers : servers[i] \in Server
  BY LastPlaceBounds DEF ListOf
<1>2. FoldAll(out, b, servers) = after[n]
  BY DEF FoldAll, Folded
<1> HIDE DEF n
<1>3. after = [i \in 0 .. n |->
                 IF i = 0 THEN out
                 ELSE IF i \in DOMAIN servers THEN Fold(after[i - 1], b, servers[i]) ELSE after[i - 1]]
  <2> DEFINE go == [x \in Outs \X (1 .. n) |->
                        IF x[2] \in DOMAIN servers THEN Fold(x[1], b, servers[x[2]]) ELSE x[1]]
  <2>1. Rounds(go, Outs, n)
    <3>1. \A x \in Outs \X (1 .. n) :
            (IF x[2] \in DOMAIN servers THEN Fold(x[1], b, servers[x[2]]) ELSE x[1]) \in Outs
      BY <1>1, FoldIs
    <3> QED BY <3>1 DEF Rounds
  <2>2. PICK f : Runs(f, n, Outs, out, go)
    <3> HIDE DEF go
    <3> QED BY <1>1, <2>1, LoopExists
  <2>3. \A i \in 1 .. n : f[i] = IF i \in DOMAIN servers THEN Fold(f[i - 1], b, servers[i]) ELSE f[i - 1]
    <3> SUFFICES ASSUME NEW i \in 1 .. n
                 PROVE  f[i] = IF i \in DOMAIN servers THEN Fold(f[i - 1], b, servers[i]) ELSE f[i - 1]
      OBVIOUS
    <3>1. f[i - 1] \in Outs
      BY <1>1, <2>2 DEF Runs
    <3> QED BY <2>2, <3>1 DEF Runs
  <2>4. f = [i \in 0 .. n |->
               IF i = 0 THEN out
               ELSE IF i \in DOMAIN servers THEN Fold(f[i - 1], b, servers[i]) ELSE f[i - 1]]
    BY <1>1, <2>2, <2>3 DEF Runs
  <2> QED BY <2>4 DEF after
<1> HIDE DEF after
<1>8. /\ after[0] = out
      /\ \A i \in 1 .. n :
           after[i] = IF i \in DOMAIN servers THEN Fold(after[i - 1], b, servers[i]) ELSE after[i - 1]
  BY <1>1, <1>3
<1> DEFINE Upto(i) == {j \in DOMAIN servers : j <= i}
           T == {i \in 0 .. n : FoldedTo(after[i], out, b, servers, Upto(i))}
<1>4. 0 \in T
  <2>1. after[0] = out /\ Upto(0) = {}
    BY <1>1, <1>8
  <2> QED BY <2>1, <1>1 DEF FoldedTo
<1>5. ASSUME NEW i \in 1 .. n, i - 1 \in T PROVE i \in T
  <2>1. FoldedTo(after[i - 1], out, b, servers, Upto(i - 1))
    BY <1>5
  <2>2. CASE i \in DOMAIN servers
    <3>1. after[i] = Fold(after[i - 1], b, servers[i])
      BY <1>8, <2>2
    <3>2. \A j : j \in Upto(i) <=> j \in Upto(i - 1) \/ j = i
      BY <1>1, <2>2
    <3> HIDE DEF Upto
    <3>3. FoldedTo(after[i], out, b, servers, Upto(i))
      BY <1>1, <2>1, <2>2, <3>1, <3>2, FoldedStep
    <3> QED BY <3>3
  <2>3. CASE i \notin DOMAIN servers
    <3>1. after[i] = after[i - 1]
      BY <1>8, <2>3
    <3>2. Upto(i) = Upto(i - 1)
      BY <1>1, <2>3
    <3> HIDE DEF Upto
    <3> QED BY <2>1, <3>1, <3>2
  <2> QED BY <2>2, <2>3
<1>6. n \in T
  <2> HIDE DEF T
  <2> QED BY <1>1, <1>4, <1>5, Induct
<1>7. Upto(n) = DOMAIN servers
  BY <1>1
<1> HIDE DEF Upto
<1> QED BY <1>2, <1>6, <1>7

\* Maps with finitely many of the keys.
MapsOf(Keys, V) == UNION {[D -> V] : D \in {E \in SUBSET Keys : IsFiniteSet(E)}}

LEMMA OrInsertIs ==
  ASSUME NEW Keys, NEW V, NEW out \in MapsOf(Keys, V), NEW k \in Keys, NEW v \in V
  PROVE  OrInsert(out, k, v) \in MapsOf(Keys, V)
<1>1. DOMAIN out \subseteq Keys /\ IsFiniteSet(DOMAIN out) /\ out \in [DOMAIN out -> V]
  BY DEF MapsOf
<1>2. IsFiniteSet(DOMAIN out \cup {k})
  BY <1>1, FS_AddElement
<1>3. OrInsert(out, k, v) \in [DOMAIN out \cup {k} -> V]
  BY <1>1 DEF OrInsert
<1> QED BY <1>1, <1>2, <1>3 DEF MapsOf

\* Keys and values inserted stay among those given.
LEMMA InsertedIs ==
  ASSUME NEW Keys, NEW V, NEW out \in MapsOf(Keys, V), NEW pairs, ListOf(pairs, Keys \X V)
  PROVE  Inserted(out, pairs) \in MapsOf(Keys, V)
<1> DEFINE n == LastPlace(pairs)
           Maps == MapsOf(Keys, V)
           after[i \in 0 .. n] ==
             IF i = 0 THEN out
             ELSE IF i \in DOMAIN pairs THEN OrInsert(after[i - 1], pairs[i][1], pairs[i][2]) ELSE after[i - 1]
<1>1. /\ n \in Nat /\ DOMAIN pairs \subseteq 1 .. n
      /\ \A i \in DOMAIN pairs : pairs[i][1] \in Keys /\ pairs[i][2] \in V
  BY LastPlaceBounds DEF ListOf
<1>2. Inserted(out, pairs) = after[n]
  BY DEF Inserted, Folded
<1>3. \A o \in Maps : \A i \in DOMAIN pairs : OrInsert(o, pairs[i][1], pairs[i][2]) \in Maps
  BY <1>1, OrInsertIs
<1>4. out \in Maps
  OBVIOUS
<1> HIDE DEF n, Maps
<1>5. after = [i \in 0 .. n |->
                 IF i = 0 THEN out
                 ELSE IF i \in DOMAIN pairs THEN OrInsert(after[i - 1], pairs[i][1], pairs[i][2]) ELSE after[i - 1]]
  <2> DEFINE go == [x \in Maps \X (1 .. n) |->
                      IF x[2] \in DOMAIN pairs THEN OrInsert(x[1], pairs[x[2]][1], pairs[x[2]][2]) ELSE x[1]]
  <2>1. Rounds(go, Maps, n)
    <3>1. \A x \in Maps \X (1 .. n) :
            (IF x[2] \in DOMAIN pairs THEN OrInsert(x[1], pairs[x[2]][1], pairs[x[2]][2]) ELSE x[1]) \in Maps
      BY <1>3
    <3> QED BY <3>1 DEF Rounds
  <2>2. PICK f : Runs(f, n, Maps, out, go)
    <3> HIDE DEF go
    <3> QED BY <1>1, <1>4, <2>1, LoopExists
  <2>3. \A i \in 1 .. n :
          f[i] = IF i \in DOMAIN pairs THEN OrInsert(f[i - 1], pairs[i][1], pairs[i][2]) ELSE f[i - 1]
    <3> SUFFICES ASSUME NEW i \in 1 .. n
                 PROVE  f[i] = IF i \in DOMAIN pairs THEN OrInsert(f[i - 1], pairs[i][1], pairs[i][2]) ELSE f[i - 1]
      OBVIOUS
    <3>1. f[i - 1] \in Maps
      BY <1>1, <2>2 DEF Runs
    <3> QED BY <2>2, <3>1 DEF Runs
  <2>4. f = [i \in 0 .. n |->
               IF i = 0 THEN out
               ELSE IF i \in DOMAIN pairs THEN OrInsert(f[i - 1], pairs[i][1], pairs[i][2]) ELSE f[i - 1]]
    BY <1>1, <2>2, <2>3 DEF Runs
  <2> QED BY <2>4 DEF after
<1> HIDE DEF after
<1>6. /\ after[0] = out
      /\ \A i \in 1 .. n :
           after[i] = IF i \in DOMAIN pairs THEN OrInsert(after[i - 1], pairs[i][1], pairs[i][2]) ELSE after[i - 1]
  BY <1>1, <1>5
<1> DEFINE T == {i \in 0 .. n : after[i] \in Maps}
<1>7. 0 \in T
  BY <1>1, <1>4, <1>6
<1>8. \A i \in 1 .. n : i - 1 \in T => i \in T
  BY <1>1, <1>3, <1>6
<1>9. n \in T
  <2> HIDE DEF T
  <2> QED BY <1>1, <1>7, <1>8, Induct
<1> QED BY <1>2, <1>9 DEF Maps

-----------------------------------------------------------------------------
(* The inductive invariant.                                                *)

Building == step \in {"registry", "blocks", "capability", "assemble"}

Typed ==
  /\ step \in Steps
  /\ models \in MapsOf(Nat, 1 .. MaxBlocks)
  /\ perModel \in [DOMAIN models -> Outs]
  /\ unread \subseteq UNION {{m} \X Places(models[m]) : m \in DOMAIN models}
  /\ capKey \in 1 .. CapabilityKeys + 1
  /\ step \in {"registry", "blocks"} => capKey = 1
  /\ step = "capability" => capKey <= CapabilityKeys
  /\ capability \in MapsOf(Peers, ServerInfo)
  /\ \A h \in told : h \in (DOMAIN models) \X Int \X Peers \X ServerInfo

\* Nothing is known before the registry is read.
Fresh == step = "registry" => models = Nothing /\ told = {}

\* The snapshot is what build_snapshot makes of what was read.
Published ==
  IF Building THEN reports = Nothing /\ peers = Nothing /\ top = <<>>
  ELSE /\ reports = Reports
       /\ \E speaking \in SUBSET Connected :
            peers = [p \in (BlockPeers \cup DOMAIN capability \cup speaking) \ Excluded |-> PeerRow(p)]
       /\ \E ranking \in Rankings :
            top = [i \in 1 .. Min({Shown, Len(ranking)}) |-> Candidate(ranking[i])]

\* The figures are those of the snapshot.
Counted ==
  IF step = "counted"
  THEN \E override \in Overrides \cup {Unset} :
         /\ stats.total = Total(override)
         /\ stats.covered = Covered(stats.total)
         /\ stats.coverage = IF stats.total = 0 THEN 0
                             ELSE (100 * Cardinality(stats.covered)) \div stats.total
  ELSE stats = NoStats

AssemblyInv == Typed /\ Fresh /\ Published /\ Counted

\* The result read next is one of those left.
LEMMA KeyIsUnread ==
  ASSUME Typed, unread # {}
  PROVE  Key \in unread /\ Key[1] \in DOMAIN models /\ Key[2] \in Int
<1>0. \A n \in Int : Places(n) \subseteq Nat
  BY AssemblyAssumption DEF Places
<1>1. \A k \in unread : k = <<k[1], k[2]>> /\ k[1] \in DOMAIN models /\ k[1] \in Nat /\ k[2] \in Nat
  BY <1>0 DEF Typed, MapsOf
<1> DEFINE M == {k[1] : k \in unread}
           m == Min(M)
           B == {b \in Nat : <<m, b>> \in unread}
           b0 == Min(B)
<1>2. m \in M /\ \A x \in M : m <= x
  <2>1. M \in SUBSET Nat /\ M # {}
    BY <1>1
  <2> QED BY <2>1, MinIsThere
<1>3. PICK k \in unread : k[1] = m
  BY <1>2
<1>4. b0 \in B /\ \A x \in B : b0 <= x
  <2>1. B \in SUBSET Nat /\ B # {}
    <3>1. k[2] \in Nat /\ <<m, k[2]>> \in unread
      BY <1>1, <1>3
    <3> QED BY <3>1
  <2> HIDE DEF B
  <2> QED BY <2>1, MinIsThere
<1>5. <<m, b0>> \in unread
  BY <1>4
<1>6. \A j \in unread : m < j[1] \/ (m = j[1] /\ b0 <= j[2])
  <2> SUFFICES ASSUME NEW j \in unread PROVE m < j[1] \/ (m = j[1] /\ b0 <= j[2])
    OBVIOUS
  <2>1. m <= j[1] /\ j[1] \in Nat /\ m \in Nat
    <3>1. \A x \in M : x \in Nat
      BY <1>1
    <3>2. j[1] \in M
      OBVIOUS
    <3> HIDE DEF M
    <3> QED BY <1>2, <3>1, <3>2
  <2>2. m = j[1] => j[2] \in B
    BY <1>1
  <2> QED BY <1>4, <2>1, <2>2
<1> HIDE DEF m, b0
<1>7. \E x \in unread : \A j \in unread : x[1] < j[1] \/ (x[1] = j[1] /\ x[2] <= j[2])
  BY <1>5, <1>6
<1>8. Key \in unread
  BY <1>7 DEF Key
<1> QED BY <1>1, <1>8

-----------------------------------------------------------------------------
(* The steps.                                                              *)

LEMMA NothingIs ==
  /\ Nothing \in Outs /\ DOMAIN Nothing = {}
  /\ \A Keys, V : Nothing \in MapsOf(Keys, V)
<1>1. DOMAIN Nothing = {} /\ \A V : Nothing \in [{} -> V]
  BY DEF Nothing
<1>2. IsFiniteSet({})
  BY FS_EmptySet
<1> QED BY <1>1, <1>2 DEF Outs, MapsOf

LEMMA InitInv == Init => AssemblyInv
<1> SUFFICES ASSUME Init PROVE AssemblyInv
  OBVIOUS
<1>1. perModel \in [DOMAIN models -> Outs]
  BY NothingIs DEF Init
<1>2. Typed
  BY <1>1, NothingIs, AssemblyAssumption DEF Init, Typed, Steps
<1> QED BY <1>2 DEF Init, AssemblyInv, Fresh, Published, Counted, Building

LEMMA RegistryTyped ==
  ASSUME Typed, NEW reply \in RegistryReplies, ReadRegistry(reply), Fresh
  PROVE  Typed'
<1> DEFINE regs == DecodeModelRegistry(reply.bytes)
           found == Found(regs)
           pairs == [i \in DOMAIN regs |-> <<regs[i][1], Clamp(regs[i][2])>>]
<1>1. ListOf(regs, Nat \X Int)
  BY RepliesAssumption
<1>2. ListOf(pairs, Nat \X (1 .. MaxBlocks))
  <2> HIDE DEF regs
  <2>1. \A i \in DOMAIN regs : regs[i][1] \in Nat /\ regs[i][2] \in Int
    BY <1>1 DEF ListOf
  <2>2. \A i \in DOMAIN regs : Clamp(regs[i][2]) \in 1 .. MaxBlocks
    BY <2>1, AssemblyAssumption DEF Clamp
  <2> QED BY <1>1, <2>1, <2>2 DEF ListOf
<1>3. found \in MapsOf(Nat, 1 .. MaxBlocks)
  <2>1. found = Inserted(Nothing, pairs)
    BY DEF Found
  <2> HIDE DEF pairs, found
  <2> QED BY <1>2, <2>1, NothingIs, InsertedIs
<1>4. models' \in MapsOf(Nat, 1 .. MaxBlocks)
  <2>1. models' = IF DOMAIN found = {} THEN Fallback ELSE found
    BY DEF ReadRegistry
  <2>2. Fallback \in MapsOf(Nat, 1 .. MaxBlocks)
    BY AssemblyAssumption DEF MapsOf
  <2> HIDE DEF found
  <2> QED BY <1>3, <2>1, <2>2
<1>5. /\ unread' = UNION {{m} \X Places(models'[m]) : m \in DOMAIN models'}
      /\ perModel' = [m \in DOMAIN models' |-> Nothing]
      /\ step = "registry" /\ step' = "blocks" /\ capKey' = capKey /\ capability' = capability /\ told' = told
  BY DEF ReadRegistry
<1>6. perModel' \in [DOMAIN models' -> Outs]
  BY <1>5, NothingIs
<1> QED BY <1>4, <1>5, <1>6 DEF Typed, Steps, Fresh

LEMMA BlockTyped ==
  ASSUME Typed, NEW reply \in BlockReplies, ReadBlock(reply)
  PROVE  Typed'
<1>1. Key \in unread /\ Key[1] \in DOMAIN models /\ Key[2] \in Int
  BY KeyIsUnread DEF ReadBlock
<1> DEFINE servers == ServersIn(reply.type, reply.bytes)
<1>2. ListOf(servers, Server)
  BY RepliesAssumption DEF Server
<1>3. perModel[Key[1]] \in Outs
  BY <1>1 DEF Typed
<1>4. FoldAll(perModel[Key[1]], Key[2], servers) \in Outs
  BY <1>1, <1>2, <1>3, FoldAllIs DEF FoldedTo
<1>5. /\ perModel' = [perModel EXCEPT ![Key[1]] = FoldAll(perModel[Key[1]], Key[2], servers)]
      /\ told' = told \cup {<<Key[1], Key[2], said[1], said[2]>> : said \in reply.says}
      /\ unread' = unread \ {Key} /\ step = "blocks" /\ step' \in {"capability", "blocks"}
      /\ UNCHANGED <<models, capKey, capability>>
  BY DEF ReadBlock
<1>6. perModel' \in [DOMAIN models -> Outs]
  BY <1>4, <1>5 DEF Typed
<1>7. \A said \in reply.says : said[1] \in Peers /\ said[2] \in ServerInfo
  BY RepliesAssumption
<1>8. \A h \in told' : h \in (DOMAIN models) \X Int \X Peers \X ServerInfo
  <2> SUFFICES ASSUME NEW h \in told', h \notin told
               PROVE  h \in (DOMAIN models) \X Int \X Peers \X ServerInfo
    BY DEF Typed
  <2>1. PICK said \in reply.says : h = <<Key[1], Key[2], said[1], said[2]>>
    BY <1>5
  <2> QED BY <1>1, <1>7, <2>1
<1>9. capKey = 1 /\ 1 \in 1 .. CapabilityKeys
  BY <1>5, AssemblyAssumption DEF Typed
<1> QED BY <1>5, <1>6, <1>8, <1>9 DEF Typed, Steps

LEMMA CapabilityTyped ==
  ASSUME Typed, NEW reply \in CapabilityReplies, ReadCapability(reply)
  PROVE  Typed'
<1> DEFINE pairs == Announced(DictionaryEntries(reply.bytes))
<1>1. ListOf(pairs, Peers \X ServerInfo)
  BY RepliesAssumption
<1>2. /\ capability' = Inserted(capability, pairs)
      /\ capKey' = capKey + 1 /\ step = "capability"
      /\ step' = IF capKey = CapabilityKeys THEN "assemble" ELSE "capability"
      /\ UNCHANGED <<models, unread, perModel, told>>
  BY DEF ReadCapability
<1>3. capability' \in MapsOf(Peers, ServerInfo)
  <2> HIDE DEF pairs
  <2> QED BY <1>1, <1>2, InsertedIs DEF Typed
<1> QED BY <1>2, <1>3, AssemblyAssumption DEF Typed, Steps

LEMMA NextTyped == Typed /\ Fresh /\ [Next]_vars => Typed'
<1> SUFFICES ASSUME Typed, Fresh, [Next]_vars PROVE Typed'
  OBVIOUS
<1>1. CASE \E reply \in RegistryReplies : ReadRegistry(reply)
  BY <1>1, RegistryTyped
<1>2. CASE \E reply \in BlockReplies : ReadBlock(reply)
  BY <1>2, BlockTyped
<1>3. CASE \E reply \in CapabilityReplies : ReadCapability(reply)
  BY <1>3, CapabilityTyped
<1>4. ASSUME NEW speaking, NEW ranking, BuildSnapshot(speaking, ranking) PROVE Typed'
  BY <1>4 DEF BuildSnapshot, Typed, Steps
<1>5. ASSUME NEW override, Stats(override) PROVE Typed'
  BY <1>5 DEF Stats, Typed, Steps
<1>6. CASE UNCHANGED vars
  BY <1>6 DEF vars, Typed
<1> QED BY <1>1, <1>2, <1>3, <1>4, <1>5, <1>6 DEF Next

LEMMA NextFresh == [Next]_vars /\ Typed /\ Fresh => Fresh'
<1> SUFFICES ASSUME [Next]_vars, Fresh PROVE Fresh'
  OBVIOUS
<1>1. ASSUME NEW reply, ReadRegistry(reply) \/ ReadBlock(reply) \/ ReadCapability(reply) PROVE Fresh'
  BY <1>1 DEF ReadRegistry, ReadBlock, ReadCapability, Fresh
<1>2. ASSUME NEW speaking, NEW ranking, BuildSnapshot(speaking, ranking) PROVE Fresh'
  BY <1>2 DEF BuildSnapshot, Fresh
<1>3. ASSUME NEW override, Stats(override) PROVE Fresh'
  BY <1>3 DEF Stats, Fresh
<1>4. CASE UNCHANGED vars
  BY <1>4 DEF vars, Fresh
<1> QED BY <1>1, <1>2, <1>3, <1>4 DEF Next

\* The rows, the reports and the contributors are functions of what was read.
LEMMA SnapshotSame ==
  ASSUME UNCHANGED <<models, perModel, capability>>
  PROVE  /\ Reports' = Reports /\ BlockPeers' = BlockPeers /\ Rankings' = Rankings
         /\ \A p : PeerRow(p)' = PeerRow(p) /\ Candidate(p)' = Candidate(p)
<1>1. \A p : ModelsOf(p)' = ModelsOf(p)
  BY DEF ModelsOf
<1>2. \A p : OnlineIn(p)' = OnlineIn(p)
  BY <1>1 DEF OnlineIn
<1>3. BlockPeers' = BlockPeers
  BY <1>1 DEF BlockPeers
<1>4. \A p : BlockModel(p)' = BlockModel(p)
  BY <1>1, <1>2 DEF BlockModel
<1>5. \A p : PeerRow(p)' = PeerRow(p)
  BY <1>3, <1>4 DEF PeerRow
<1>6. \A m, n : Before(m, n)' = Before(m, n)
  BY DEF Before
<1>7. \A p : Candidate(p)' = Candidate(p)
  BY <1>1, <1>6 DEF Candidate
<1>8. Rankings' = Rankings
  BY <1>3, <1>7 DEF Rankings
<1>9. \A m : Report(m)' = Report(m)
  BY DEF Report
<1>10. Reports' = Reports
  BY <1>9 DEF Reports
<1> QED BY <1>3, <1>5, <1>7, <1>8, <1>10

LEMMA NextPublished == Published /\ Typed /\ [Next]_vars => Published'
<1> SUFFICES ASSUME Published, Typed, [Next]_vars PROVE Published'
  OBVIOUS
<1>1. ASSUME NEW reply, ReadRegistry(reply) \/ ReadBlock(reply) \/ ReadCapability(reply) PROVE Published'
  <2>1. Building /\ Building' /\ UNCHANGED <<reports, peers, top>>
    BY <1>1 DEF ReadRegistry, ReadBlock, ReadCapability, Building
  <2> QED BY <2>1 DEF Published
<1>2. ASSUME NEW speaking \in SUBSET Connected, NEW ranking \in Rankings, BuildSnapshot(speaking, ranking)
      PROVE  Published'
  <2>1. /\ ~Building' /\ reports' = Reports
        /\ peers' = [p \in (BlockPeers \cup DOMAIN capability \cup speaking) \ Excluded |-> PeerRow(p)]
        /\ top' = [i \in 1 .. Min({Shown, Len(ranking)}) |-> Candidate(ranking[i])]
        /\ UNCHANGED <<models, perModel, capability>>
    BY <1>2 DEF BuildSnapshot, Building
  <2>2. reports' = Reports'
    BY <2>1, SnapshotSame
  <2>3. peers' = [p \in (BlockPeers' \cup DOMAIN capability' \cup speaking) \ Excluded |-> PeerRow(p)']
    BY <2>1, SnapshotSame
  <2>4. top' = [i \in 1 .. Min({Shown, Len(ranking)}) |-> Candidate(ranking[i])'] /\ ranking \in Rankings'
    BY <2>1, SnapshotSame
  <2> QED BY <2>1, <2>2, <2>3, <2>4 DEF Published
<1>3. CASE UNCHANGED <<models, perModel, capability, reports, peers, top>> /\ ~Building /\ ~Building'
  BY <1>3, SnapshotSame DEF Published
<1>4. ASSUME NEW override, Stats(override) PROVE Published'
  BY <1>3, <1>4 DEF Stats, Building
<1>5. CASE UNCHANGED vars
  <2>1. CASE Building
    BY <1>5, <2>1 DEF vars, Building, Published
  <2>2. CASE ~Building
    BY <1>3, <1>5, <2>2 DEF vars, Building
  <2> QED BY <2>1, <2>2
<1> QED BY <1>1, <1>2, <1>4, <1>5 DEF Next

LEMMA NextCounted == Counted /\ Typed /\ [Next]_vars => Counted'
<1> SUFFICES ASSUME Counted, Typed, [Next]_vars PROVE Counted'
  OBVIOUS
<1>1. ASSUME NEW reply, ReadRegistry(reply) \/ ReadBlock(reply) \/ ReadCapability(reply) PROVE Counted'
  BY <1>1 DEF ReadRegistry, ReadBlock, ReadCapability, Counted
<1>2. ASSUME NEW speaking, NEW ranking, BuildSnapshot(speaking, ranking) PROVE Counted'
  BY <1>2 DEF BuildSnapshot, Counted
<1>3. ASSUME reports' = reports
      PROVE  (\A o : Total(o)' = Total(o)) /\ (\A t : Covered(t)' = Covered(t))
  <2>1. \A o : Total(o)' = Total(o)
    BY <1>3 DEF Total
  <2>2. OnlineRows' = OnlineRows
    BY <1>3 DEF OnlineRows
  <2>3. \A t : Covered(t)' = Covered(t)
    BY <1>3, <2>2 DEF Covered, Slots, AtLeast0
  <2> QED BY <2>1, <2>3
<1>4. ASSUME NEW override \in Overrides \cup {Unset}, Stats(override) PROVE Counted'
  <2>1. /\ step' = "counted" /\ reports' = reports
        /\ stats'.total = Total(override)
        /\ stats'.covered = Covered(stats'.total)
        /\ stats'.coverage = IF stats'.total = 0 THEN 0
                             ELSE (100 * Cardinality(stats'.covered)) \div stats'.total
    BY <1>4 DEF Stats
  <2> QED BY <1>3, <2>1 DEF Counted
<1>5. CASE UNCHANGED vars
  <2>1. step' = step /\ stats' = stats /\ reports' = reports
    BY <1>5 DEF vars
  <2> QED BY <1>3, <2>1 DEF Counted
<1> QED BY <1>1, <1>2, <1>4, <1>5 DEF Next

LEMMA AlwaysInv == Spec => []AssemblyInv
<1>1. AssemblyInv /\ [Next]_vars => AssemblyInv'
  BY NextTyped, NextFresh, NextPublished, NextCounted DEF AssemblyInv
<1> QED BY <1>1, InitInv, PTL DEF Spec

-----------------------------------------------------------------------------
(* What is published.                                                      *)

\* The contributors in their order: each peer of a block record, once.
LEMMA RankingIs ==
  ASSUME NEW ranking \in Rankings
  PROVE  /\ Len(ranking) = Cardinality(BlockPeers) /\ Len(ranking) \in Nat
         /\ ranking \in [1 .. Len(ranking) -> BlockPeers]
         /\ \A i, j \in 1 .. Len(ranking) : i # j => ranking[i] # ranking[j]
         /\ \A p \in BlockPeers : \E i \in 1 .. Len(ranking) : ranking[i] = p
         /\ \A i, j \in 1 .. Len(ranking) :
              i < j => Candidate(ranking[i]).throughput >= Candidate(ranking[j]).throughput
<1> DEFINE c == Cardinality(BlockPeers)
<1>1. IsFiniteSet(BlockPeers)
  BY AssemblyAssumption, FS_Subset DEF BlockPeers
<1>2. c \in Nat /\ IsFiniteSet(1 .. c) /\ Cardinality(1 .. c) = c
  BY <1>1, FS_CardinalityType, FS_Interval
<1>3. /\ ranking \in [1 .. c -> BlockPeers]
      /\ \A i, j \in 1 .. c : i # j => ranking[i] # ranking[j]
      /\ \A i, j \in DOMAIN ranking :
           i < j => Candidate(ranking[i]).throughput >= Candidate(ranking[j]).throughput
  BY DEF Rankings, SetToSeqs
<1>4. Len(ranking) = c
  BY <1>2, <1>3
<1>5. ranking \in Injection(1 .. c, BlockPeers)
  BY <1>3 DEF Injection, IsInjective
<1>6. ranking \in Surjection(1 .. c, BlockPeers)
  BY <1>1, <1>2, <1>5, FS_Injection
<1>7. \A p \in BlockPeers : \E i \in 1 .. c : ranking[i] = p
  BY <1>6 DEF Surjection
<1> HIDE DEF c
<1>8. c = Cardinality(BlockPeers)
  BY DEF c
<1> QED BY <1>2, <1>3, <1>4, <1>7, <1>8

\* The number shown is the ceiling, or all of them.
LEMMA ShownIs ==
  ASSUME NEW n \in Nat
  PROVE  /\ Min({Shown, n}) \in Nat /\ Min({Shown, n}) <= Shown /\ Min({Shown, n}) <= n
         /\ Min({Shown, n}) \in {Shown, n}
<1>1. {Shown, n} \in SUBSET Nat /\ {Shown, n} # {}
  BY AssemblyAssumption
<1>2. Min({Shown, n}) \in {Shown, n} /\ \A y \in {Shown, n} : Min({Shown, n}) <= y
  BY <1>1, MinIsThere
<1> QED BY <1>1, <1>2

\* The bitmap has a size, and the slots marked are within it.
LEMMA TotalIs ==
  ASSUME Typed, reports = Reports, NEW override \in Overrides \cup {Unset}
  PROVE  Total(override) \in Nat
<1> DEFINE largest == {reports[m].num_blocks : m \in DOMAIN reports}
<1>1. largest \subseteq 1 .. MaxBlocks
  <2>1. \A m \in DOMAIN models : models[m] \in 1 .. MaxBlocks
    BY DEF Typed, MapsOf
  <2>2. \A m \in DOMAIN reports : m \in DOMAIN models /\ reports[m].num_blocks = models[m]
    BY DEF Reports, Report
  <2> QED BY <2>1, <2>2
<1>2. IsFiniteSet(largest)
  <2> HIDE DEF largest
  <2>1. 1 \in Int /\ MaxBlocks \in Int
    BY AssemblyAssumption
  <2>2. IsFiniteSet(1 .. MaxBlocks)
    BY <2>1, FS_Interval
  <2> QED BY <1>1, <2>2, FS_Subset
<1>3. largest # {} => Max(largest) \in largest
  <2>1. largest \in SUBSET Int
    BY <1>1
  <2> HIDE DEF largest
  <2> QED BY <1>2, <2>1, MaxIsThere
<1>4. Total(override) = IF override # Unset THEN override
                        ELSE IF largest # {} /\ Max(largest) > 0 THEN Max(largest) ELSE DefaultTotal
  BY DEF Total
<1> HIDE DEF largest
<1> QED BY <1>1, <1>3, <1>4, AssemblyAssumption DEF Unset

LEMMA SlotsAre ==
  ASSUME NEW info \in ServerInfo, NEW total \in Nat, NEW b
  PROVE  b \in Slots(info, total) <=> b \in 0 .. total - 1 /\ Claims(info, b)
<1>1. info.start \in Int /\ info.end \in Int
  BY DEF ServerInfo
<1>2. AtLeast0(info.start) \in Nat /\ AtLeast0(info.end) \in Nat
  BY <1>1 DEF AtLeast0
<1> DEFINE S == {AtLeast0(info.end), total}
<1>3. Min(S) \in S /\ \A y \in S : Min(S) <= y
  <2>1. S \in SUBSET Nat /\ S # {}
    BY <1>2
  <2> HIDE DEF S
  <2> QED BY <2>1, MinIsThere
<1>4. Min(S) \in Nat /\ (\A x \in Int : x < Min(S) <=> x < AtLeast0(info.end) /\ x < total)
  BY <1>2, <1>3
<1>5. Slots(info, total) = AtLeast0(info.start) .. Min(S) - 1
  BY DEF Slots
<1> HIDE DEF S
<1> QED BY <1>1, <1>2, <1>4, <1>5 DEF AtLeast0, Claims

\* The rows of the reports are what was kept of the servers.
LEMMA RowsAre ==
  ASSUME Typed
  PROVE  /\ \A m : m \in DOMAIN Reports <=> m \in DOMAIN models /\ DOMAIN perModel[m] # {}
         /\ \A m \in DOMAIN Reports :
              /\ DOMAIN Reports[m].rows = DOMAIN perModel[m]
              /\ \A p \in DOMAIN perModel[m] :
                   p \in Peers /\ perModel[m][p].info \in ServerInfo /\ Reports[m].rows[p] = perModel[m][p].info
<1>1. \A m \in DOMAIN models : DOMAIN perModel[m] \subseteq Peers
                               /\ \A p \in DOMAIN perModel[m] : perModel[m][p].info \in ServerInfo
  BY DEF Typed, Outs, ModelEntry
<1>2. \A m : Report(m).rows = [p \in DOMAIN perModel[m] |-> perModel[m][p].info]
  BY DEF Report
<1> QED BY <1>1, <1>2 DEF Reports

LEMMA CoveredIs ==
  ASSUME Typed, reports = Reports, NEW total \in Nat, NEW b
  PROVE  b \in Covered(total) <=>
           b \in 0 .. total - 1 /\ \E m \in DOMAIN reports : \E p \in DOMAIN reports[m].rows :
                                     reports[m].rows[p].state = "online" /\ Claims(reports[m].rows[p], b)
<1>1. \A m \in DOMAIN reports : \A p \in DOMAIN reports[m].rows : p \in Peers /\ reports[m].rows[p] \in ServerInfo
  BY RowsAre
<1>2. b \in Covered(total) <=> \E r \in OnlineRows : b \in Slots(reports[r[1]].rows[r[2]], total)
  BY DEF Covered
<1>3. \A r \in OnlineRows : /\ r[1] \in DOMAIN reports /\ r[2] \in DOMAIN reports[r[1]].rows
                            /\ reports[r[1]].rows[r[2]].state = "online"
  BY DEF OnlineRows
<1>4. \A m \in DOMAIN reports : \A p \in DOMAIN reports[m].rows :
        reports[m].rows[p].state = "online" => <<m, p>> \in OnlineRows
  BY <1>1 DEF OnlineRows
<1>5. ASSUME b \in Covered(total)
      PROVE  b \in 0 .. total - 1 /\ \E m \in DOMAIN reports : \E p \in DOMAIN reports[m].rows :
                                     reports[m].rows[p].state = "online" /\ Claims(reports[m].rows[p], b)
  <2>1. PICK r \in OnlineRows : b \in Slots(reports[r[1]].rows[r[2]], total)
    BY <1>2, <1>5
  <2>2. b \in 0 .. total - 1 /\ Claims(reports[r[1]].rows[r[2]], b)
    BY <1>1, <1>3, <2>1, SlotsAre
  <2> QED BY <1>3, <2>2
<1>6. ASSUME b \in 0 .. total - 1, NEW m \in DOMAIN reports, NEW p \in DOMAIN reports[m].rows,
             reports[m].rows[p].state = "online", Claims(reports[m].rows[p], b)
      PROVE  b \in Covered(total)
  <2>1. b \in Slots(reports[m].rows[p], total)
    BY <1>1, <1>6, SlotsAre
  <2>2. <<m, p>> \in OnlineRows /\ <<m, p>>[1] = m /\ <<m, p>>[2] = p
    BY <1>4, <1>6
  <2> QED BY <1>2, <2>1, <2>2
<1> QED BY <1>5, <1>6

LEMMA PercentIs ==
  ASSUME NEW total \in Nat, total # 0, NEW n \in 0 .. total
  PROVE  (100 * n) \div total \in 0 .. 100
<1> DEFINE q == (100 * n) \div total
<1>1. q \in Int /\ total * q <= 100 * n /\ 100 * n < total * (q + 1)
  OBVIOUS
<1> HIDE DEF q
<1>2. q < 101
  <2> SUFFICES ASSUME q >= 101 PROVE FALSE
    BY <1>1
  <2>1. total * q >= total * 101
    BY <1>1
  <2> QED BY <1>1, <2>1
<1>3. q > -1
  <2> SUFFICES ASSUME q <= -1 PROVE FALSE
    BY <1>1
  <2>1. total * (q + 1) <= 0
    BY <1>1
  <2> QED BY <1>1, <2>1
<1> QED BY <1>1, <1>2, <1>3 DEF q

\* Types: models have blocks, peers are known and not excluded, no more
\* contributors than the ceiling, and coverage is a percentage whatever ranges
\* the records declare (discover_models, build_snapshot, NodeCache::stats).
THEOREM TypeCorrect == Spec => []TypeOK
<1>1. AssemblyInv => TypeOK
  <2> SUFFICES ASSUME AssemblyInv PROVE TypeOK
    OBVIOUS
  <2> USE DEF AssemblyInv
  <2>1. DOMAIN reports \subseteq DOMAIN models
    BY NothingIs DEF Published, Reports
  <2>2. DOMAIN peers \subseteq Peers \ Excluded
    <3>1. DOMAIN capability \subseteq Peers /\ Connected \subseteq Peers /\ BlockPeers \subseteq Peers
      BY AssemblyAssumption DEF Typed, MapsOf, BlockPeers
    <3> QED BY <3>1, NothingIs DEF Published
  <2>3. Len(top) <= Shown
    <3>1. CASE Building
      BY <3>1, AssemblyAssumption DEF Published
    <3>2. CASE ~Building
      <4>1. PICK ranking \in Rankings : top = [i \in 1 .. Min({Shown, Len(ranking)}) |-> Candidate(ranking[i])]
        BY <3>2 DEF Published
      <4>2. Len(ranking) \in Nat
        BY RankingIs
      <4>3. Min({Shown, Len(ranking)}) \in Nat /\ Min({Shown, Len(ranking)}) <= Shown
        BY <4>2, ShownIs
      <4> QED BY <4>1, <4>3
    <3> QED BY <3>1, <3>2
  <2>4. stats.total \in Nat /\ stats.coverage \in 0 .. 100
    <3>1. CASE step # "counted"
      BY <3>1 DEF Counted, NoStats
    <3>2. CASE step = "counted"
      <4>1. PICK override \in Overrides \cup {Unset} :
               /\ stats.total = Total(override)
               /\ stats.covered = Covered(stats.total)
               /\ stats.coverage = IF stats.total = 0 THEN 0
                                   ELSE (100 * Cardinality(stats.covered)) \div stats.total
        BY <3>2 DEF Counted
      <4>2. reports = Reports
        BY <3>2 DEF Published, Building
      <4>3. stats.total \in Nat
        BY <4>1, <4>2, TotalIs
      <4>4. stats.covered \subseteq 0 .. stats.total - 1
        BY <4>1, <4>2, <4>3, CoveredIs
      <4>5. Cardinality(stats.covered) \in 0 .. stats.total
        <5>1. IsFiniteSet(0 .. stats.total - 1) /\ Cardinality(0 .. stats.total - 1) <= stats.total
          <6>1. 0 \in Int /\ stats.total - 1 \in Int
            BY <4>3
          <6>2. /\ IsFiniteSet(0 .. stats.total - 1)
                /\ Cardinality(0 .. stats.total - 1) =
                     IF 0 > stats.total - 1 THEN 0 ELSE (stats.total - 1) - 0 + 1
            BY <6>1, FS_Interval
          <6> QED BY <4>3, <6>2
        <5>2. IsFiniteSet(stats.covered) /\ Cardinality(stats.covered) <= Cardinality(0 .. stats.total - 1)
          BY <4>4, <5>1, FS_Subset
        <5>3. Cardinality(stats.covered) \in Nat /\ Cardinality(0 .. stats.total - 1) \in Nat
          BY <5>1, <5>2, FS_CardinalityType
        <5> QED BY <4>3, <5>1, <5>2, <5>3
      <4> QED BY <4>1, <4>3, <4>5, PercentIs
    <3> QED BY <3>1, <3>2
  <2>5. \A h \in told : h[1] \in DOMAIN models /\ h[3] \in Peers
    BY DEF Typed
  <2>6. /\ \A m \in DOMAIN models : models[m] \in 1 .. MaxBlocks
        /\ DOMAIN perModel = DOMAIN models /\ DOMAIN capability \subseteq Peers
    BY DEF Typed, MapsOf
  <2> QED BY <2>1, <2>2, <2>3, <2>4, <2>5, <2>6 DEF TypeOK, Typed
<1> QED BY <1>1, AlwaysInv, PTL

\* The peer list and the reports tell one story, for any number of models and
\* records: a peer with a row in some report is shown by one of its rows, and as
\* online exactly if one of them is (build_snapshot, block_of).
THEOREM PeersMatchReportsAlways == Spec => []PeersMatchReports
<1>1. AssemblyInv => PeersMatchReports
  <2> SUFFICES ASSUME AssemblyInv, NEW p \in DOMAIN peers,
                      NEW m0 \in DOMAIN reports, p \in DOMAIN reports[m0].rows
               PROVE  LET having == {m \in DOMAIN reports : p \in DOMAIN reports[m].rows}
                      IN  /\ peers[p].state = "online" <=> \E m \in having : reports[m].rows[p].state = "online"
                          /\ \E m \in having :
                               LET row == reports[m].rows[p]
                               IN  peers[p] = [state |-> row.state, throughput |-> row.throughput,
                                               model |-> {m}, span |-> <<row.start, row.end>>]
    BY DEF PeersMatchReports
  <2> USE DEF AssemblyInv
  <2> DEFINE having == {m \in DOMAIN reports : p \in DOMAIN reports[m].rows}
  <2>1. ~Building /\ reports = Reports /\ peers[p] = PeerRow(p)
    BY NothingIs DEF Published
  <2>2. \A m : m \in having <=> m \in ModelsOf(p)
    BY <2>1, RowsAre DEF ModelsOf
  <2>3. p \in BlockPeers
    BY <2>1, <2>2, RowsAre DEF BlockPeers
  <2>4. ModelsOf(p) \subseteq Nat /\ OnlineIn(p) \subseteq ModelsOf(p) /\ ModelsOf(p) # {}
    BY <2>2 DEF ModelsOf, OnlineIn, Typed, MapsOf
  <2>5. \A S \in SUBSET Nat : S # {} => Least(S) \in S
    <3> SUFFICES ASSUME NEW S \in SUBSET Nat, S # {} PROVE Least(S) \in S
      OBVIOUS
    <3>1. \E i \in S : \A j \in S : i <= j
      BY MinIsThere
    <3> QED BY <3>1 DEF Least
  <2>6. BlockModel(p) \in ModelsOf(p) /\ (OnlineIn(p) # {} => BlockModel(p) \in OnlineIn(p))
    BY <2>4, <2>5 DEF BlockModel
  <2> DEFINE info == perModel[BlockModel(p)][p].info
  <2>7. PeerRow(p) = [state |-> info.state, throughput |-> info.throughput, model |-> {BlockModel(p)},
                      span |-> <<info.start, info.end>>]
    BY <2>3 DEF PeerRow
  <2>8. \A m \in having : reports[m].rows[p] = perModel[m][p].info
    BY <2>1, RowsAre
  <2>9. info.state = "online" <=> \E m \in having : perModel[m][p].info.state = "online"
    BY <2>2, <2>6 DEF OnlineIn
  <2> HIDE DEF having
  <2>10. BlockModel(p) \in having
    BY <2>2, <2>6
  <2>11. peers[p].state = "online" <=> \E m \in having : reports[m].rows[p].state = "online"
    BY <2>1, <2>7, <2>8, <2>9
  <2>12. peers[p] = LET row == reports[BlockModel(p)].rows[p]
                    IN  [state |-> row.state, throughput |-> row.throughput,
                         model |-> {BlockModel(p)}, span |-> <<row.start, row.end>>]
    BY <2>1, <2>7, <2>8, <2>10
  <2> QED BY <2>10, <2>11, <2>12 DEF having
<1> QED BY <1>1, AlwaysInv, PTL

-----------------------------------------------------------------------------
(* What is read of a reply is what was stored.                             *)

\* The writer's side of the format.
Entry(subkey, bytes) == Arr(<<subkey, Bin(bytes), Num(9)>>)
Dictionary(entries) == Ext(80, Arr(<<Num(9), Num(0), Arr(entries)>>))

\* An entry that announces a record of p, and one that must be passed over.
Announces(e, p, info) ==
  /\ p # Empty
  /\ \E bytes : /\ e = Entry(Str(p), bytes) \/ e = Entry(Bin(Str(p)), bytes)
                /\ DecodeServerInfo(bytes) = {info}
SaysNothing(e) == ~Readable(e) \/ DecodeServerInfo(Items(e)[2][2]) = {}

\* What each entry says is the record it announces, or nothing.
Saying(entries, says) ==
  \A i \in DOMAIN entries :
    \/ SaysNothing(entries[i]) /\ says[i] = {}
    \/ \E p, info : Announces(entries[i], p, info) /\ says[i] = {<<p, info>>}

LEMMA AnnouncementIsReadable ==
  ASSUME NEW e, NEW p, NEW info, Announces(e, p, info)
  PROVE  /\ Readable(e) /\ SubkeyToString(Items(e)[1]) = {p}
         /\ DecodeServerInfo(Items(e)[2][2]) = {info}
<1>1. PICK bytes : /\ e = Entry(Str(p), bytes) \/ e = Entry(Bin(Str(p)), bytes)
                   /\ DecodeServerInfo(bytes) = {info}
  BY DEF Announces
<1>2. PICK subkey : e = Entry(subkey, bytes) /\ (subkey = Str(p) \/ subkey = Bin(Str(p)))
  BY <1>1
<1>3. Items(e) = <<subkey, Bin(bytes), Num(9)>>
  BY <1>2 DEF Entry, Arr, Items, Is
<1>4. SubkeyToString(subkey) = {p}
  BY <1>2 DEF SubkeyToString, AsStr, Is, Str, Bin
<1>5. Bin(bytes)[2] = bytes /\ Is("bin", Bin(bytes))
  BY DEF Is, Bin
<1>6. Items(e)[1] = subkey /\ Items(e)[2] = Bin(bytes) /\ Len(Items(e)) = 3
  BY <1>3
<1>7. p # Empty
  BY DEF Announces
<1> QED BY <1>1, <1>4, <1>5, <1>6, <1>7 DEF Readable

\* The entries of a dictionary that are kept are read where they stand.
LEMMA DictionaryEntriesAre ==
  ASSUME NEW entries
  PROVE  LET read == DictionaryEntries(Dictionary(entries))
         IN  /\ DOMAIN read = {i \in DOMAIN entries : Readable(entries[i])}
             /\ \A i \in DOMAIN read :
                  read[i] = <<CHOOSE s \in SubkeyToString(Items(entries[i])[1]) : TRUE,
                              Items(entries[i])[2][2]>>
<1>1. UnwrapExt(Dictionary(entries), 80) = Arr(<<Num(9), Num(0), Arr(entries)>>)
  BY DEF UnwrapExt, Dictionary, Is, Ext
<1>2. Items(UnwrapExt(Dictionary(entries), 80)) = <<Num(9), Num(0), Arr(entries)>>
  BY <1>1 DEF Items, Arr, Is
<1>3. Len(<<Num(9), Num(0), Arr(entries)>>) = 3 /\ <<Num(9), Num(0), Arr(entries)>>[3] = Arr(entries)
  OBVIOUS
<1>4. Items(Arr(entries)) = entries
  BY DEF Items, Arr, Is
<1>5. DictionaryEntries(Dictionary(entries)) =
        [i \in {j \in DOMAIN entries : Readable(entries[j])} |->
           <<CHOOSE s \in SubkeyToString(Items(entries[i])[1]) : TRUE, Items(entries[i])[2][2]>>]
  <2> DEFINE t == Items(UnwrapExt(Dictionary(entries), 80))
             es == IF Len(t) >= 3 THEN Items(t[3]) ELSE <<>>
  <2>1. es = entries
    <3> HIDE DEF t
    <3>1. Len(t) >= 3 /\ t[3] = Arr(entries)
      BY <1>2, <1>3 DEF t
    <3> QED BY <1>4, <3>1
  <2>2. DictionaryEntries(Dictionary(entries)) =
          [i \in {j \in DOMAIN es : Readable(es[j])} |->
             <<CHOOSE s \in SubkeyToString(Items(es[i])[1]) : TRUE, Items(es[i])[2][2]>>]
    BY DEF DictionaryEntries, Where
  <2> HIDE DEF es
  <2> QED BY <2>1, <2>2
<1> QED BY <1>5

\* A dictionary is read as what its entries announce, in whatever order, in
\* either form of the subkey, and among whatever entries must be passed over
\* (dictionary_entries, decode_server_info, servers_in).
THEOREM DictionaryIsRead ==
  ASSUME NEW entries, NEW says, Saying(entries, says)
  PROVE  LET servers == ServersIn(DICTIONARY, Dictionary(entries))
         IN  {servers[i] : i \in DOMAIN servers} = UNION {says[i] : i \in DOMAIN entries}
<1> DEFINE read == DictionaryEntries(Dictionary(entries))
           servers == ServersIn(DICTIONARY, Dictionary(entries))
<1>1. /\ DOMAIN read = {i \in DOMAIN entries : Readable(entries[i])}
      /\ \A i \in DOMAIN read :
           read[i] = <<CHOOSE s \in SubkeyToString(Items(entries[i])[1]) : TRUE,
                       Items(entries[i])[2][2]>>
  BY DictionaryEntriesAre
<1>2. servers = [i \in {j \in DOMAIN read : DecodeServerInfo(read[j][2]) # {}} |->
                   <<read[i][1], CHOOSE s \in DecodeServerInfo(read[i][2]) : TRUE>>]
  BY DEF ServersIn, Where
<1> HIDE DEF read, servers
<1>3. \A i : i \in DOMAIN servers <=>
        i \in DOMAIN entries /\ Readable(entries[i]) /\ DecodeServerInfo(Items(entries[i])[2][2]) # {}
  BY <1>1, <1>2
<1>4. ASSUME NEW i \in DOMAIN entries, NEW p, NEW info, Announces(entries[i], p, info)
      PROVE  i \in DOMAIN servers /\ servers[i] = <<p, info>>
  <2>1. /\ Readable(entries[i]) /\ SubkeyToString(Items(entries[i])[1]) = {p}
        /\ DecodeServerInfo(Items(entries[i])[2][2]) = {info}
    BY <1>4, AnnouncementIsReadable
  <2>2. \A x : (CHOOSE s \in {x} : TRUE) = x
    OBVIOUS
  <2>3. i \in DOMAIN servers /\ i \in DOMAIN read
    BY <1>1, <1>3, <2>1
  <2>4. read[i][1] = p /\ read[i][2] = Items(entries[i])[2][2]
    BY <1>1, <2>1, <2>2, <2>3
  <2> QED BY <1>2, <2>1, <2>2, <2>3, <2>4
<1>5. ASSUME NEW i \in DOMAIN servers PROVE \E p, info : Announces(entries[i], p, info) /\ says[i] = {<<p, info>>}
  BY <1>3 DEF SaysNothing, Saying
<1>6. \A x : x \in {servers[i] : i \in DOMAIN servers} => x \in UNION {says[i] : i \in DOMAIN entries}
  <2> SUFFICES ASSUME NEW i \in DOMAIN servers PROVE \E j \in DOMAIN entries : servers[i] \in says[j]
    OBVIOUS
  <2>1. PICK p, info : Announces(entries[i], p, info) /\ says[i] = {<<p, info>>}
    BY <1>5
  <2>2. i \in DOMAIN entries
    BY <1>3
  <2>3. servers[i] = <<p, info>>
    BY <1>4, <2>1, <2>2
  <2> QED BY <2>1, <2>2, <2>3
<1>7. \A x : x \in UNION {says[i] : i \in DOMAIN entries} => x \in {servers[i] : i \in DOMAIN servers}
  <2> SUFFICES ASSUME NEW j \in DOMAIN entries, NEW x \in says[j]
               PROVE  \E i \in DOMAIN servers : servers[i] = x
    OBVIOUS
  <2>1. PICK p, info : Announces(entries[j], p, info) /\ says[j] = {<<p, info>>}
    BY DEF Saying
  <2> QED BY <1>4, <2>1
<1> QED BY <1>6, <1>7 DEF servers

\* A server record is read as it was written, whatever other fields stand
\* around and before those of its range (decode_server_info).
THEOREM RecordIsRead ==
  ASSUME NEW raw \in Int, NEW throughput \in Int, NEW start \in Int, NEW end \in Int,
         NEW fields, DOMAIN fields \subseteq Nat,
         NEW i \in DOMAIN fields, fields[i] = <<Str("start_block"), Num(start)>>,
         \A k \in DOMAIN fields : fields[k][1] = Str("start_block") => k <= i,
         NEW j \in DOMAIN fields, fields[j] = <<Str("end_block"), Num(end)>>,
         \A k \in DOMAIN fields : fields[k][1] = Str("end_block") => k <= j
  PROVE  DecodeServerInfo(Ext(64, Arr(<<Num(raw), Num(throughput), Map(fields)>>))) =
           {[state |-> StateName(raw), throughput |-> throughput, start |-> start, end |-> end,
             names |-> AsStr(LastNamed(fields, "peer_id"))]}
<1> DEFINE bytes == Ext(64, Arr(<<Num(raw), Num(throughput), Map(fields)>>))
           inner == <<Num(raw), Num(throughput), Map(fields)>>
<1>1. Items(UnwrapExt(bytes, 64)) = inner
  <2>1. UnwrapExt(bytes, 64) = Arr(inner)
    BY DEF UnwrapExt, Is, Ext
  <2> QED BY <2>1 DEF Items, Arr, Is
<1>2. /\ Len(inner) = 3 /\ inner[1] = Num(raw) /\ inner[2] = Num(throughput) /\ inner[3] = Map(fields)
  OBVIOUS
<1>3. /\ Is("map", Map(fields)) /\ Map(fields)[2] = fields
      /\ AsInt(Num(raw)) = raw /\ AsInt(Num(throughput)) = throughput
      /\ AsInt(Num(start)) = start /\ AsInt(Num(end)) = end
  BY DEF Is, Map, Num, AsInt
<1>4. ASSUME NEW name, NEW x, NEW last \in DOMAIN fields, fields[last] = <<Str(name), x>>,
             \A k \in DOMAIN fields : fields[k][1] = Str(name) => k <= last
      PROVE  LastNamed(fields, name) = x
  <2>1. \A k : k \in Named(fields, name) <=> k \in DOMAIN fields /\ fields[k][1] = Str(name)
    BY DEF Named, Where
  <2>2. last \in Named(fields, name) /\ \A k \in Named(fields, name) : last >= k /\ k \in Nat
    BY <1>4, <2>1
  <2>3. Max(Named(fields, name)) = last
    BY <2>2 DEF Max
  <2> QED BY <1>4, <2>2, <2>3 DEF LastNamed
<1>5. LastNamed(fields, "start_block") = Num(start)
  BY <1>4
<1>6. LastNamed(fields, "end_block") = Num(end)
  BY <1>4
<1> HIDE DEF bytes, inner
<1>7. DecodeServerInfo(bytes) =
        {[state |-> StateName(raw), throughput |-> throughput, start |-> start, end |-> end,
          names |-> AsStr(LastNamed(fields, "peer_id"))]}
  BY <1>1, <1>2, <1>3, <1>5, <1>6 DEF DecodeServerInfo
<1> QED BY <1>7 DEF bytes

\* A reply with what those who stored it announced: a dictionary of entries each
\* of which announces one record or must be passed over, a regular value that
\* names its peer, or one that is dropped.
StoredWell(reply) ==
  \/ /\ reply.type = DICTIONARY
     /\ \E entries, says :
          /\ reply.bytes = Dictionary(entries) /\ Saying(entries, says)
          /\ reply.says = UNION {says[i] : i \in DOMAIN entries}
  \/ /\ reply.type = REGULAR
     /\ \E p, info : /\ DecodeServerInfo(reply.bytes) = {info} /\ info.names = {p}
                     /\ reply.says = {<<p, info>>}
  \/ /\ reply.type = REGULAR /\ reply.says = {}
     /\ \A info \in DecodeServerInfo(reply.bytes) : info.names = {}
  \/ reply.type \notin {REGULAR, DICTIONARY} /\ reply.says = {}

LEMMA ReplyIsRead ==
  ASSUME NEW reply, StoredWell(reply)
  PROVE  LET servers == ServersIn(reply.type, reply.bytes)
         IN  reply.says = {servers[i] : i \in DOMAIN servers}
<1> DEFINE servers == ServersIn(reply.type, reply.bytes)
<1> SUFFICES reply.says = {servers[i] : i \in DOMAIN servers}
  OBVIOUS
<1>0. REGULAR # DICTIONARY /\ \A x : (CHOOSE t \in {x} : TRUE) = x
  BY DEF REGULAR, DICTIONARY
<1>1. CASE reply.type = DICTIONARY
  <2>1. PICK entries, says :
          /\ reply.bytes = Dictionary(entries) /\ Saying(entries, says)
          /\ reply.says = UNION {says[i] : i \in DOMAIN entries}
    BY <1>0, <1>1 DEF StoredWell
  <2>2. {ServersIn(DICTIONARY, Dictionary(entries))[i] :
             i \in DOMAIN ServersIn(DICTIONARY, Dictionary(entries))} = UNION {says[i] : i \in DOMAIN entries}
    BY <2>1, DictionaryIsRead
  <2> QED BY <1>1, <2>1, <2>2
<1>2. CASE /\ reply.type = REGULAR
           /\ \E p, info : /\ DecodeServerInfo(reply.bytes) = {info} /\ info.names = {p}
                           /\ reply.says = {<<p, info>>}
  <2>1. PICK p, info : /\ DecodeServerInfo(reply.bytes) = {info} /\ info.names = {p}
                       /\ reply.says = {<<p, info>>}
    BY <1>2
  <2>2. servers = << <<p, info>> >>
    BY <1>0, <1>2, <2>1 DEF ServersIn
  <2> HIDE DEF servers
  <2>3. DOMAIN servers = {1} /\ servers[1] = <<p, info>>
    BY <2>2
  <2> QED BY <2>1, <2>3
<1>3. CASE servers = <<>> /\ reply.says = {}
  <2> HIDE DEF servers
  <2>1. DOMAIN servers = {}
    BY <1>3
  <2> QED BY <1>3, <2>1
<1>4. CASE /\ reply.type = REGULAR /\ reply.says = {}
           /\ \A info \in DecodeServerInfo(reply.bytes) : info.names = {}
  BY <1>0, <1>3, <1>4 DEF ServersIn
<1>5. CASE reply.type \notin {REGULAR, DICTIONARY} /\ reply.says = {}
  BY <1>3, <1>5 DEF ServersIn
<1> QED BY <1>1, <1>2, <1>4, <1>5 DEF StoredWell

-----------------------------------------------------------------------------
(* Every record counts.                                                    *)

\* Every block reply is well stored.
WellTold == \A reply \in BlockReplies : StoredWell(reply)

\* What is kept of the servers of m is what was told of it.
Kept(out, m, tells) ==
  /\ \A p : p \in DOMAIN out <=> \E h \in tells : h[1] = m /\ h[3] = p
  /\ \A p \in DOMAIN out :
       /\ \A c : c \in out[p].blocks <=> \E h \in tells : h[1] = m /\ h[3] = p /\ h[2] = c
       /\ \E h \in tells : h[1] = m /\ h[3] = p /\ h[4] = out[p].info
       /\ out[p].info.state = "online" <=> \E h \in tells : h[1] = m /\ h[3] = p /\ h[4].state = "online"

AllKept == \A m \in DOMAIN models : Kept(perModel[m], m, told)

\* Folding the servers of a reply in is telling what the reply says.
LEMMA FoldKeeps ==
  ASSUME NEW out \in Outs, NEW b \in Int, NEW servers, NEW m, NEW tells, Kept(out, m, tells),
         NEW new, FoldedTo(new, out, b, servers, DOMAIN servers)
  PROVE  Kept(new, m, tells \cup {<<m, b, servers[i][1], servers[i][2]>> : i \in DOMAIN servers})
<1> DEFINE I == DOMAIN servers
           more == {<<m, b, servers[i][1], servers[i][2]>> : i \in I}
           all == tells \cup more
<1>1. /\ \A i \in I : \E h \in more : h[1] = m /\ h[2] = b /\ h[3] = servers[i][1] /\ h[4] = servers[i][2]
      /\ \A h \in more : h[1] = m /\ h[2] = b /\ \E i \in I : h[3] = servers[i][1] /\ h[4] = servers[i][2]
  <2>1. ASSUME NEW i \in I
        PROVE  \E h \in more : h[1] = m /\ h[2] = b /\ h[3] = servers[i][1] /\ h[4] = servers[i][2]
    <3> DEFINE h == <<m, b, servers[i][1], servers[i][2]>>
    <3>1. h \in more /\ h[1] = m /\ h[2] = b /\ h[3] = servers[i][1] /\ h[4] = servers[i][2]
      OBVIOUS
    <3> QED BY <3>1
  <2>2. ASSUME NEW h \in more
        PROVE  h[1] = m /\ h[2] = b /\ \E i \in I : h[3] = servers[i][1] /\ h[4] = servers[i][2]
    <3>1. PICK i \in I : h = <<m, b, servers[i][1], servers[i][2]>>
      OBVIOUS
    <3> QED BY <3>1
  <2> QED BY <2>1, <2>2
<1> HIDE DEF more
<1>2. /\ \A p : p \in DOMAIN new <=> p \in DOMAIN out \/ \E i \in I : servers[i][1] = p
      /\ \A p \in DOMAIN new :
           /\ \A c : c \in new[p].blocks <=>
                       (p \in DOMAIN out /\ c \in out[p].blocks) \/ (c = b /\ \E i \in I : servers[i][1] = p)
           /\ (p \in DOMAIN out /\ new[p].info = out[p].info)
                \/ \E i \in I : servers[i][1] = p /\ servers[i][2] = new[p].info
           /\ new[p].info.state = "online" <=>
                (p \in DOMAIN out /\ out[p].info.state = "online")
                  \/ \E i \in I : servers[i][1] = p /\ servers[i][2].state = "online"
  BY DEF FoldedTo
<1>3. /\ \A p : p \in DOMAIN out <=> \E h \in tells : h[1] = m /\ h[3] = p
      /\ \A p \in DOMAIN out :
           /\ \A c : c \in out[p].blocks <=> \E h \in tells : h[1] = m /\ h[3] = p /\ h[2] = c
           /\ \E h \in tells : h[1] = m /\ h[3] = p /\ h[4] = out[p].info
           /\ out[p].info.state = "online" <=> \E h \in tells : h[1] = m /\ h[3] = p /\ h[4].state = "online"
  BY DEF Kept
<1>4. \A p : p \in DOMAIN new <=> \E h \in all : h[1] = m /\ h[3] = p
  BY <1>1, <1>2, <1>3
<1>5. ASSUME NEW p \in DOMAIN new, NEW c
      PROVE  c \in new[p].blocks <=> \E h \in all : h[1] = m /\ h[3] = p /\ h[2] = c
  <2>1. (p \in DOMAIN out /\ c \in out[p].blocks) <=> \E h \in tells : h[1] = m /\ h[3] = p /\ h[2] = c
    BY <1>3
  <2>2. (c = b /\ \E i \in I : servers[i][1] = p) <=> \E h \in more : h[1] = m /\ h[3] = p /\ h[2] = c
    BY <1>1
  <2> QED BY <1>2, <2>1, <2>2
<1>6. ASSUME NEW p \in DOMAIN new PROVE \E h \in all : h[1] = m /\ h[3] = p /\ h[4] = new[p].info
  BY <1>1, <1>2, <1>3
<1>7. ASSUME NEW p \in DOMAIN new
      PROVE  new[p].info.state = "online" <=> \E h \in all : h[1] = m /\ h[3] = p /\ h[4].state = "online"
  <2>1. (p \in DOMAIN out /\ out[p].info.state = "online")
          <=> \E h \in tells : h[1] = m /\ h[3] = p /\ h[4].state = "online"
    BY <1>3
  <2>2. (\E i \in I : servers[i][1] = p /\ servers[i][2].state = "online")
          <=> \E h \in more : h[1] = m /\ h[3] = p /\ h[4].state = "online"
    BY <1>1
  <2> QED BY <1>2, <2>1, <2>2
<1> HIDE DEF all
<1>8. Kept(new, m, all)
  BY <1>4, <1>5, <1>6, <1>7 DEF Kept
<1> QED BY <1>8 DEF all, more

\* What is told of other models does not matter.
LEMMA KeptOfOthers ==
  ASSUME NEW out, NEW m, NEW tells, NEW more, Kept(out, m, tells),
         \A h \in tells : h \in more, \A h \in more : h[1] = m => h \in tells
  PROVE  Kept(out, m, more)
<1>1. \A p : (\E h \in more : h[1] = m /\ h[3] = p) <=> \E h \in tells : h[1] = m /\ h[3] = p
  OBVIOUS
<1>2. \A p, c : (\E h \in more : h[1] = m /\ h[3] = p /\ h[2] = c)
                  <=> \E h \in tells : h[1] = m /\ h[3] = p /\ h[2] = c
  OBVIOUS
<1>3. \A p, x : (\E h \in more : h[1] = m /\ h[3] = p /\ h[4] = x)
                  <=> \E h \in tells : h[1] = m /\ h[3] = p /\ h[4] = x
  OBVIOUS
<1>4. \A p : (\E h \in more : h[1] = m /\ h[3] = p /\ h[4].state = "online")
               <=> \E h \in tells : h[1] = m /\ h[3] = p /\ h[4].state = "online"
  OBVIOUS
<1>5. ASSUME NEW p \in DOMAIN out
      PROVE  /\ \A c : c \in out[p].blocks <=> \E h \in more : h[1] = m /\ h[3] = p /\ h[2] = c
             /\ \E h \in more : h[1] = m /\ h[3] = p /\ h[4] = out[p].info
             /\ out[p].info.state = "online" <=> \E h \in more : h[1] = m /\ h[3] = p /\ h[4].state = "online"
  <2>1. /\ \A c : c \in out[p].blocks <=> \E h \in tells : h[1] = m /\ h[3] = p /\ h[2] = c
        /\ \E h \in tells : h[1] = m /\ h[3] = p /\ h[4] = out[p].info
        /\ out[p].info.state = "online" <=> \E h \in tells : h[1] = m /\ h[3] = p /\ h[4].state = "online"
    BY DEF Kept
  <2>2. \A c : c \in out[p].blocks <=> \E h \in more : h[1] = m /\ h[3] = p /\ h[2] = c
    BY <1>2, <2>1
  <2>3. \E h \in more : h[1] = m /\ h[3] = p /\ h[4] = out[p].info
    BY <1>3, <2>1
  <2> QED BY <1>4, <2>1, <2>2, <2>3
<1>6. \A p : p \in DOMAIN out <=> \E h \in more : h[1] = m /\ h[3] = p
  BY <1>1 DEF Kept
<1> QED BY <1>5, <1>6 DEF Kept

LEMMA NextKept ==
  ASSUME WellTold, Typed, Fresh, AllKept, [Next]_vars
  PROVE  AllKept'
<1>1. ASSUME NEW reply, ReadRegistry(reply) PROVE AllKept'
  <2>1. told' = {} /\ perModel' = [m \in DOMAIN models' |-> Nothing]
    BY <1>1 DEF ReadRegistry, Fresh
  <2>2. \A m \in DOMAIN models' : Kept(perModel'[m], m, told')
    BY <2>1, NothingIs DEF Kept
  <2> QED BY <2>2 DEF AllKept
<1>2. ASSUME NEW reply \in BlockReplies, ReadBlock(reply) PROVE AllKept'
  <2> DEFINE m0 == Key[1]
             b == Key[2]
             servers == ServersIn(reply.type, reply.bytes)
             new == FoldAll(perModel[m0], b, servers)
             more == {<<m0, b, servers[i][1], servers[i][2]>> : i \in DOMAIN servers}
  <2>1. m0 \in DOMAIN models /\ b \in Int
    BY <1>2, KeyIsUnread DEF ReadBlock
  <2>2. perModel[m0] \in Outs /\ ListOf(servers, Server)
    BY <2>1, RepliesAssumption DEF Typed, Server
  <2>3. reply.says = {servers[i] : i \in DOMAIN servers}
    BY ReplyIsRead DEF WellTold
  <2>4. /\ perModel' = [perModel EXCEPT ![m0] = new] /\ models' = models
        /\ told' = told \cup {<<m0, b, said[1], said[2]>> : said \in reply.says}
    BY <1>2 DEF ReadBlock
  <2> HIDE DEF m0, b, servers
  <2>5. told' = told \cup more
    BY <2>3, <2>4
  <2>6. FoldedTo(new, perModel[m0], b, servers, DOMAIN servers)
    BY <2>1, <2>2, FoldAllIs
  <2>7. Kept(new, m0, told')
    <3>1. Kept(perModel[m0], m0, told)
      BY <2>1 DEF AllKept
    <3> HIDE DEF new
    <3> QED BY <2>1, <2>2, <2>5, <2>6, <3>1, FoldKeeps
  <2>8. ASSUME NEW m \in DOMAIN models, m # m0 PROVE Kept(perModel[m], m, told')
    <3>1. \A h \in told' : h[1] = m => h \in told
      BY <2>5, <2>8
    <3>2. \A h \in told : h \in told'
      BY <2>5
    <3>3. Kept(perModel[m], m, told)
      BY DEF AllKept
    <3> HIDE DEF more, new
    <3> QED BY <3>1, <3>2, <3>3, KeptOfOthers
  <2>9. \A m \in DOMAIN models' : perModel'[m] = IF m = m0 THEN new ELSE perModel[m]
    BY <2>4 DEF Typed
  <2> QED BY <2>4, <2>7, <2>8, <2>9 DEF AllKept
<1>3. CASE UNCHANGED <<models, perModel, told>>
  BY <1>3 DEF AllKept, Kept
<1>4. ASSUME NEW reply, ReadCapability(reply) PROVE UNCHANGED <<models, perModel, told>>
  BY <1>4 DEF ReadCapability
<1>5. ASSUME NEW speaking, NEW ranking, BuildSnapshot(speaking, ranking)
      PROVE  UNCHANGED <<models, perModel, told>>
  BY <1>5 DEF BuildSnapshot
<1>6. ASSUME NEW override, Stats(override) PROVE UNCHANGED <<models, perModel, told>>
  BY <1>6 DEF Stats
<1>7. CASE UNCHANGED vars
  BY <1>3, <1>7 DEF vars
<1> QED BY <1>1, <1>2, <1>3, <1>4, <1>5, <1>6, <1>7 DEF Next

LEMMA AlwaysKept == ASSUME WellTold PROVE Spec => [](AssemblyInv /\ AllKept)
<1>1. Init => AllKept
  BY NothingIs DEF Init, AllKept
<1>2. AssemblyInv /\ AllKept /\ [Next]_vars => (AssemblyInv /\ AllKept)'
  BY NextKept, NextTyped, NextFresh, NextPublished, NextCounted DEF AssemblyInv
<1> QED BY <1>1, <1>2, InitInv, PTL DEF Spec

LEMMA ToldIs ==
  \A m, p, h : h \in Told(m, p) <=> h \in told /\ h[1] = m /\ h[3] = p
BY DEF Told

\* No record is lost or made up between the bytes under the block keys and what
\* is kept of the models, for any number of replies of any length, in whatever
\* form and among whatever unreadable entries the records were stored
\* (collect_model, servers_in).
THEOREM EveryRecordCountsAlways == ASSUME WellTold PROVE Spec => []EveryRecordCounts
<1>1. AssemblyInv /\ AllKept => EveryRecordCounts
  <2> SUFFICES ASSUME Typed, AllKept, NEW m \in DOMAIN perModel
               PROVE  /\ DOMAIN perModel[m] = {p \in Peers : Told(m, p) # {}}
                      /\ \A p \in DOMAIN perModel[m] :
                           /\ perModel[m][p].blocks = {h[2] : h \in Told(m, p)}
                           /\ perModel[m][p].info \in {h[4] : h \in Told(m, p)}
                           /\ perModel[m][p].info.state = "online"
                                <=> \E h \in Told(m, p) : h[4].state = "online"
    BY DEF EveryRecordCounts, AssemblyInv
  <2>1. m \in DOMAIN models /\ DOMAIN perModel[m] \subseteq Peers
    BY DEF Typed, Outs
  <2>2. /\ \A p : p \in DOMAIN perModel[m] <=> \E h \in told : h[1] = m /\ h[3] = p
        /\ \A p \in DOMAIN perModel[m] :
             /\ \A c : c \in perModel[m][p].blocks <=> \E h \in told : h[1] = m /\ h[3] = p /\ h[2] = c
             /\ \E h \in told : h[1] = m /\ h[3] = p /\ h[4] = perModel[m][p].info
             /\ perModel[m][p].info.state = "online"
                  <=> \E h \in told : h[1] = m /\ h[3] = p /\ h[4].state = "online"
    BY <2>1 DEF AllKept, Kept
  <2>3. DOMAIN perModel[m] = {p \in Peers : Told(m, p) # {}}
    <3>1. \A p : Told(m, p) # {} <=> \E h \in told : h[1] = m /\ h[3] = p
      BY ToldIs
    <3> QED BY <2>1, <2>2, <3>1
  <2>4. ASSUME NEW p \in DOMAIN perModel[m] PROVE perModel[m][p].blocks = {h[2] : h \in Told(m, p)}
    <3>1. \A c : c \in perModel[m][p].blocks <=> \E h \in Told(m, p) : h[2] = c
      BY <2>2, ToldIs
    <3> QED BY <3>1
  <2>5. \A p \in DOMAIN perModel[m] : perModel[m][p].info \in {h[4] : h \in Told(m, p)}
    BY <2>2, ToldIs
  <2>6. \A p \in DOMAIN perModel[m] :
          perModel[m][p].info.state = "online" <=> \E h \in Told(m, p) : h[4].state = "online"
    BY <2>2, ToldIs
  <2> QED BY <2>3, <2>4, <2>5, <2>6
<1> QED BY <1>1, AlwaysKept, PTL

\* Coverage counts what was announced, and all of it where a server has one
\* record under a model: whatever ranges the records declare and whatever
\* TOTAL_BLOCKS is set to (NodeCache::stats).
THEOREM CoverageIsClaimedAlways == ASSUME WellTold PROVE Spec => []CoverageIsClaimed
<1>1. AssemblyInv /\ AllKept => CoverageIsClaimed
  <2> SUFFICES ASSUME AssemblyInv, AllKept, step = "counted"
               PROVE  /\ stats.covered \subseteq 0 .. stats.total - 1
                      /\ \A b \in stats.covered : \E h \in told : h[4].state = "online" /\ Claims(h[4], b)
                      /\ \A h \in told : {g[4] : g \in Told(h[1], h[3])} = {h[4]} /\ h[4].state = "online" =>
                           \A b \in 0 .. stats.total - 1 : Claims(h[4], b) => b \in stats.covered
    BY DEF CoverageIsClaimed
  <2> USE DEF AssemblyInv
  <2>1. reports = Reports
    BY DEF Published, Building
  <2>2. PICK override \in Overrides \cup {Unset} :
           stats.total = Total(override) /\ stats.covered = Covered(stats.total)
    BY DEF Counted
  <2>3. stats.total \in Nat
    BY <2>1, <2>2, TotalIs
  <2>4. \A b : b \in stats.covered <=>
           b \in 0 .. stats.total - 1 /\ \E m \in DOMAIN reports : \E p \in DOMAIN reports[m].rows :
                                     reports[m].rows[p].state = "online" /\ Claims(reports[m].rows[p], b)
    BY <2>1, <2>2, <2>3, CoveredIs
  <2>5. \A m \in DOMAIN reports : \A p \in DOMAIN reports[m].rows :
           \E h \in told : h[1] = m /\ h[3] = p /\ h[4] = reports[m].rows[p]
    <3> SUFFICES ASSUME NEW m \in DOMAIN reports, NEW p \in DOMAIN reports[m].rows
                 PROVE  \E h \in told : h[1] = m /\ h[3] = p /\ h[4] = reports[m].rows[p]
      OBVIOUS
    <3>1. m \in DOMAIN models /\ p \in DOMAIN perModel[m] /\ reports[m].rows[p] = perModel[m][p].info
      BY <2>1, RowsAre
    <3>2. Kept(perModel[m], m, told)
      BY <3>1 DEF AllKept
    <3> QED BY <3>1, <3>2 DEF Kept
  <2>6. ASSUME NEW b \in stats.covered PROVE \E h \in told : h[4].state = "online" /\ Claims(h[4], b)
    BY <2>4, <2>5
  <2>7. ASSUME NEW h \in told, {g[4] : g \in Told(h[1], h[3])} = {h[4]}, h[4].state = "online",
               NEW b \in 0 .. stats.total - 1, Claims(h[4], b)
        PROVE  b \in stats.covered
    <3> DEFINE m == h[1]
               p == h[3]
    <3>1. m \in DOMAIN models
      BY DEF Typed
    <3>2. Kept(perModel[m], m, told)
      BY <3>1 DEF AllKept
    <3>3. p \in DOMAIN perModel[m]
      BY <3>2 DEF Kept
    <3>4. m \in DOMAIN reports /\ p \in DOMAIN reports[m].rows /\ reports[m].rows[p] = perModel[m][p].info
      BY <2>1, <3>1, <3>3, RowsAre
    <3>5. PICK g \in told : g[1] = m /\ g[3] = p /\ g[4] = perModel[m][p].info
      BY <3>2, <3>3 DEF Kept
    <3>6. g[4] = h[4]
      BY <2>7, <3>5, ToldIs
    <3> QED BY <2>4, <2>7, <3>4, <3>5, <3>6
  <2> QED BY <2>4, <2>6, <2>7
<1> QED BY <1>1, AlwaysKept, PTL

-----------------------------------------------------------------------------
(* The contributors.                                                       *)

\* What a peer announces, under any model.
AnnouncedBy(p) == {perModel[m][p].info.throughput : m \in ModelsOf(p)}

LEMMA AnnouncedByIs ==
  ASSUME Typed, NEW p
  PROVE  AnnouncedBy(p) \in SUBSET Int /\ IsFiniteSet(AnnouncedBy(p))
<1> DEFINE f == [m \in ModelsOf(p) |-> perModel[m][p].info.throughput]
<1>1. IsFiniteSet(DOMAIN models)
  BY DEF Typed, MapsOf
<1>2. IsFiniteSet(ModelsOf(p))
  BY <1>1, FS_Subset DEF ModelsOf
<1>3. \A m \in ModelsOf(p) : perModel[m][p].info.throughput \in Int
  BY DEF Typed, Outs, ModelEntry, ServerInfo, ModelsOf
<1>4. DOMAIN f = ModelsOf(p) /\ AnnouncedBy(p) = {f[m] : m \in DOMAIN f}
  BY DEF AnnouncedBy
<1> HIDE DEF f
<1>5. IsFiniteSet(AnnouncedBy(p))
  BY <1>2, <1>4, FiniteValues
<1> QED BY <1>3, <1>5 DEF AnnouncedBy

\* Some model comes first among those with a peer.
LEMMA FirstReport ==
  ASSUME Typed, NEW most \in SUBSET DOMAIN models, most # {}
  PROVE  \E m \in most : \A n \in most : Before(m, n)
<1> DEFINE rows(k) == Cardinality(DOMAIN perModel[k])
           f == [m \in most |-> rows(m)]
           N == {f[m] : m \in most}
<1>1. \A m \in most : rows(m) \in Nat
  <2> SUFFICES ASSUME NEW m \in most PROVE rows(m) \in Nat
    OBVIOUS
  <2>1. DOMAIN perModel[m] \in SUBSET Peers
    BY DEF Typed, Outs
  <2>2. IsFiniteSet(DOMAIN perModel[m])
    BY <2>1, FS_Subset, AssemblyAssumption
  <2> QED BY <2>2, FS_CardinalityType
<1>2. IsFiniteSet(DOMAIN models) /\ DOMAIN models \subseteq Nat
  BY DEF Typed, MapsOf
<1>3. IsFiniteSet(most)
  BY <1>2, FS_Subset
<1>4. N \in SUBSET Int /\ N # {}
  BY <1>1
<1>5. IsFiniteSet(N)
  <2>1. DOMAIN f = most /\ N = {f[m] : m \in DOMAIN f}
    OBVIOUS
  <2> HIDE DEF f, N
  <2> QED BY <1>3, <2>1, FiniteValues
<1>6. Max(N) \in N /\ \A y \in N : Max(N) >= y
  <2> HIDE DEF N
  <2> QED BY <1>4, <1>5, MaxIsThere
<1> DEFINE Top == {m \in most : rows(m) = Max(N)}
<1>7. Top # {} /\ Top \in SUBSET Nat
  <2>1. PICK m \in most : f[m] = Max(N)
    BY <1>6
  <2> QED BY <1>2, <2>1
<1>8. Min(Top) \in Top /\ \A n \in Top : Min(Top) <= n
  <2> HIDE DEF Top
  <2> QED BY <1>7, MinIsThere
<1>9. \A n \in most : rows(n) <= Max(N)
  BY <1>6
<1>10. ASSUME NEW n \in most PROVE Before(Min(Top), n)
  <2>1. rows(Min(Top)) = Max(N) /\ Max(N) \in Int /\ rows(n) \in Int
    BY <1>1, <1>4, <1>6, <1>8
  <2>2. rows(n) = Max(N) => Min(Top) <= n
    BY <1>8
  <2> HIDE DEF N, Top
  <2>3. rows(Min(Top)) > rows(n) \/ (rows(Min(Top)) = rows(n) /\ Min(Top) <= n)
    BY <1>9, <2>1, <2>2
  <2> QED BY <2>3 DEF Before
<1>11. Min(Top) \in most
  BY <1>8
<1> HIDE DEF Top
<1> QED BY <1>10, <1>11

\* A candidate shows the most its peer announces.
LEMMA CandidateIs ==
  ASSUME Typed, NEW p \in BlockPeers
  PROVE  /\ Candidate(p).peer = p
         /\ Candidate(p).throughput = Max(AnnouncedBy(p))
         /\ Candidate(p).throughput \in Int
<1> DEFINE tp(m) == perModel[m][p].info.throughput
           most == {m \in ModelsOf(p) : \A n \in ModelsOf(p) : tp(m) >= tp(n)}
           c == CHOOSE m \in most : \A n \in most : Before(m, n)
           info == perModel[c][p].info
<1>1. AnnouncedBy(p) # {}
  BY DEF AnnouncedBy, BlockPeers
<1>2. /\ Max(AnnouncedBy(p)) \in AnnouncedBy(p) /\ Max(AnnouncedBy(p)) \in Int
      /\ \A y \in AnnouncedBy(p) : Max(AnnouncedBy(p)) >= y
  BY <1>1, AnnouncedByIs, MaxIsThere
<1>3. PICK m0 \in ModelsOf(p) : tp(m0) = Max(AnnouncedBy(p))
  BY <1>2 DEF AnnouncedBy
<1>4. \A n \in ModelsOf(p) : tp(n) \in AnnouncedBy(p)
  BY DEF AnnouncedBy
<1>5. m0 \in most
  BY <1>2, <1>3, <1>4
<1>6. most \in SUBSET DOMAIN models
  BY DEF ModelsOf
<1>7. c \in most
  <2>1. \E m \in most : \A n \in most : Before(m, n)
    <3> HIDE DEF most
    <3> QED BY <1>5, <1>6, FirstReport
  <2> HIDE DEF most
  <2> QED BY <2>1
<1>8. tp(c) >= tp(m0) /\ tp(c) \in AnnouncedBy(p) /\ tp(c) \in Int
  <2>1. c \in ModelsOf(p) /\ tp(c) >= tp(m0)
    BY <1>7
  <2> QED BY <1>4, <2>1, AnnouncedByIs
<1>9. Candidate(p) = [peer |-> p, throughput |-> info.throughput, blocks |-> info.end - info.start + 1]
  BY DEF Candidate
<1> HIDE DEF c
<1> QED BY <1>2, <1>3, <1>8, <1>9

\* The contributors are distinct peers, each shown with the most it announces
\* under any model, and nobody left out announces more than one who is shown:
\* for any number of peers and whatever the order of equals (top_contributors).
THEOREM TopAreBestAlways == Spec => []TopAreBest
<1>1. AssemblyInv => TopAreBest
  <2> DEFINE rows(p) == {reports[m].rows[p].throughput :
                           m \in {n \in DOMAIN reports : p \in DOMAIN reports[n].rows}}
             ranked == {top[i].peer : i \in DOMAIN top}
  <2> SUFFICES ASSUME AssemblyInv, step \in {"published", "counted"}
               PROVE  /\ Cardinality(ranked) = Len(top)
                      /\ \A i \in DOMAIN top : top[i].throughput = Max(rows(top[i].peer))
                      /\ \A p \in Peers \ ranked : rows(p) # {} =>
                           Len(top) = Shown /\ \A i \in DOMAIN top : Max(rows(p)) <= top[i].throughput
    BY DEF TopAreBest
  <2>1. Typed /\ reports = Reports
    BY DEF AssemblyInv, Published, Building
  <2>2. PICK ranking \in Rankings : top = [i \in 1 .. Min({Shown, Len(ranking)}) |-> Candidate(ranking[i])]
    BY DEF AssemblyInv, Published, Building
  <2> DEFINE len == Len(ranking)
             k == Min({Shown, len})
  <2>3. /\ len \in Nat
        /\ \A i \in 1 .. len : ranking[i] \in BlockPeers
        /\ \A i, j \in 1 .. len : i # j => ranking[i] # ranking[j]
        /\ \A p \in BlockPeers : \E i \in 1 .. len : ranking[i] = p
        /\ \A i, j \in 1 .. len :
             i < j => Candidate(ranking[i]).throughput >= Candidate(ranking[j]).throughput
    BY RankingIs
  <2>4. k \in Nat /\ k <= len /\ k \in {Shown, len}
    BY <2>3, ShownIs
  <2>5. DOMAIN top = 1 .. k /\ Len(top) = k /\ \A i \in 1 .. k : top[i] = Candidate(ranking[i])
    BY <2>2, <2>4
  <2>6. \A p : rows(p) = AnnouncedBy(p)
    <3> SUFFICES ASSUME NEW p PROVE rows(p) = AnnouncedBy(p)
      OBVIOUS
    <3>1. {n \in DOMAIN reports : p \in DOMAIN reports[n].rows} = ModelsOf(p)
      BY <2>1, RowsAre DEF ModelsOf
    <3>2. \A m \in ModelsOf(p) : reports[m].rows[p].throughput = perModel[m][p].info.throughput
      BY <2>1, <3>1, RowsAre
    <3> QED BY <3>1, <3>2 DEF AnnouncedBy
  <2> HIDE DEF len, k, rows
  <2>7. \A i \in 1 .. k : i \in 1 .. len /\ ranking[i] \in BlockPeers
    BY <2>3, <2>4
  <2>8. \A i \in 1 .. k : top[i].peer = ranking[i]
    BY <2>1, <2>5, <2>7, CandidateIs
  <2>9. ranked = {ranking[i] : i \in 1 .. k}
    BY <2>5, <2>8
  <2>10. Cardinality(ranked) = Len(top)
    <3> DEFINE f == [i \in 1 .. k |-> ranking[i]]
    <3>1. f \in Surjection(1 .. k, ranked)
      BY <2>9 DEF Surjection
    <3>2. \A i, j \in 1 .. k : f[i] = f[j] => i = j
      BY <2>3, <2>7
    <3>3. f \in Injection(1 .. k, ranked)
      BY <3>1, <3>2 DEF Injection, IsInjective, Surjection
    <3> HIDE DEF f, ranked
    <3>4. 1 \in Int /\ k \in Int
      BY <2>4
    <3>5. IsFiniteSet(1 .. k) /\ Cardinality(1 .. k) = k
      BY <2>4, <3>4, FS_Interval
    <3>6. Cardinality(ranked) = Cardinality(1 .. k)
      BY <3>1, <3>3, <3>5, FS_Surjection
    <3> QED BY <2>5, <3>5, <3>6
  <2>11. \A i \in DOMAIN top : top[i].throughput = Max(rows(top[i].peer))
    BY <2>1, <2>5, <2>6, <2>7, <2>8, CandidateIs
  <2>12. ASSUME NEW p \in Peers \ ranked, rows(p) # {}
         PROVE  Len(top) = Shown /\ \A i \in DOMAIN top : Max(rows(p)) <= top[i].throughput
    <3>1. p \in BlockPeers
      BY <2>6, <2>12 DEF AnnouncedBy, BlockPeers
    <3>2. PICK j \in 1 .. len : ranking[j] = p
      BY <2>3, <3>1
    <3>3. j \notin 1 .. k
      BY <2>9, <3>2
    <3>4. k < j /\ k < len
      BY <2>3, <2>4, <3>3
    <3>5. k = Shown
      BY <2>3, <2>4, <3>4
    <3>6. \A i \in 1 .. k : Candidate(ranking[i]).throughput >= Candidate(p).throughput
      BY <2>3, <2>4, <2>7, <3>2, <3>4
    <3>7. Candidate(p).throughput = Max(rows(p)) /\ Candidate(p).throughput \in Int
      BY <2>1, <2>6, <3>1, CandidateIs
    <3>8. \A i \in 1 .. k : Candidate(ranking[i]).throughput \in Int
      BY <2>1, <2>7, CandidateIs
    <3> QED BY <2>5, <3>5, <3>6, <3>7, <3>8
  <2> QED BY <2>10, <2>11, <2>12
<1> QED BY <1>1, AlwaysInv, PTL
==============================================================================
