---------------------------- MODULE CrawlPassProofs ----------------------------
(***************************************************************************)
(* Proofs about CrawlPass, for any bootstraps, peers, models and replies.  *)
(***************************************************************************)
EXTENDS CrawlPass, FiniteSetTheorems, WellFoundedInduction, TLAPS

\* No address is configured twice.
Distinct == \A i, j \in Entries : Config[i] = Config[j] => i = j

-----------------------------------------------------------------------------
(* Lemmas about the operators.                                             *)

\* A set of numbers that is not empty has a least one (the CHOOSE of Least).
LEMMA LeastIn ==
  ASSUME NEW S \in SUBSET Nat, S # {}
  PROVE  Least(S) \in S /\ \A j \in S : Least(S) <= j
<1> DEFINE R == OpToRel(<, Nat)
<1>1. PICK x \in S : \A y \in S : ~(<<y, x>> \in R)
  <2> HIDE DEF R
  <2>1. IsWellFoundedOn(R, Nat)
    BY NatLessThanWellFounded DEF R
  <2> QED BY <2>1, WFMin
<1>2. \A y \in S : x <= y
  <2> SUFFICES ASSUME NEW y \in S PROVE x <= y
    OBVIOUS
  <2>1. y \in Nat /\ x \in Nat
    OBVIOUS
  <2>2. <<y, x>> \in Nat \X Nat /\ ~(y < x)
    BY <1>1, <2>1 DEF OpToRel
  <2> QED BY <2>1, <2>2
<1> QED BY <1>2 DEF Least

\* The entry a loop asks next is one of those left to ask, and a configured one.
LEMMA AskedIn ==
  ASSUME asking \subseteq Entries, asking # {}
  PROVE  /\ Least(asking) \in asking /\ Least(asking) \in Entries
         /\ Asked = Config[Least(asking)] /\ Asked \in Address
<1>1. Entries \in SUBSET Nat
  BY ConfigAssumption DEF Entries
<1>2. Least(asking) \in asking
  BY <1>1, LeastIn
<1>3. \A i \in Entries : Config[i] \in Address
  BY ConfigAssumption DEF Entries
<1> QED BY <1>2, <1>3 DEF Asked

\* Dialing and recording keep an entry an entry (BootstrapSet).
LEMMA EntriesType ==
  ASSUME NEW e \in [Entries -> Entry], NEW i \in Entries, NEW b \in BOOLEAN
  PROVE  [e EXCEPT ![i].dialed = b] \in [Entries -> Entry]
BY DEF Entry

LEMMA RecordType ==
  ASSUME NEW e \in [Entries -> Entry], NEW a, NEW b \in BOOLEAN
  PROVE  Record(e, a, b) \in [Entries -> Entry]
BY DEF Entry, Record

\* A clamped count is a number of blocks a model may have.
LEMMA ClampType ==
  ASSUME NEW n \in Int
  PROVE  Clamp(n) \in 1 .. MaxBlocks
BY CrawlAssumption DEF Clamp

\* What folding one reply into an entry gives, for a peer and the blocks B of
\* its model: the blocks named in either, and a record read in either, online
\* if one is (collect_model).
Folded(B) == [blocks : SUBSET B, state : States \cup {Absent}]

LEMMA FoldMeans ==
  ASSUME NEW B \in SUBSET Nat, NEW reply \in [B -> [Servers -> States \cup {Absent}]],
         NEW p \in Servers, NEW entry \in Folded(B)
  PROVE  /\ Fold(entry, reply, p) \in Folded(B)
         /\ \A b \in B : b \in Fold(entry, reply, p).blocks <=>
                          b \in entry.blocks \/ reply[b][p] # Absent
         /\ Fold(entry, reply, p).state = "online" <=>
              entry.state = "online" \/ \E b \in B : reply[b][p] = "online"
         /\ \/ Fold(entry, reply, p).state = entry.state
            \/ \E b \in B : reply[b][p] = Fold(entry, reply, p).state /\ reply[b][p] # Absent
<1> DEFINE named == {b \in DOMAIN reply : reply[b][p] # Absent}
<1>1. named \in SUBSET B /\ named = {b \in B : reply[b][p] # Absent}
  OBVIOUS
<1>2. named # {} => Least(named) \in named
  BY <1>1, LeastIn
<1>3. "online" # Absent /\ "online" \in States
  BY CrawlAssumption DEF Absent
<1>4. CASE named = {}
  BY <1>1, <1>3, <1>4 DEF Fold, Folded
<1>5. CASE named # {}
  <2> DEFINE state == IF \E b \in named : reply[b][p] = "online" THEN "online"
                      ELSE IF entry.state # Absent THEN entry.state
                      ELSE reply[Least(named)][p]
  <2>1. Fold(entry, reply, p) = [blocks |-> entry.blocks \cup named, state |-> state]
    BY <1>5 DEF Fold
  <2>2. state = "online" <=> entry.state = "online" \/ \E b \in B : reply[b][p] = "online"
    BY <1>1, <1>2, <1>3, <1>5
  <2>3. state = entry.state \/ \E b \in B : reply[b][p] = state /\ reply[b][p] # Absent
    BY <1>1, <1>2, <1>5
  <2>4. state \in States \cup {Absent} /\ entry.blocks \in SUBSET B
    BY <2>3 DEF Folded
  <2> HIDE DEF state, named
  <2> QED BY <1>1, <2>1, <2>2, <2>3, <2>4 DEF Folded
<1> QED BY <1>4, <1>5

\* The block keys of a model of n blocks are n numbers.
LEMMA BlockKeysAre ==
  ASSUME NEW m, models[m] \in Nat \ {0}
  PROVE  /\ BlockKeys(m) \in SUBSET Nat
         /\ IsFiniteSet(BlockKeys(m)) /\ Cardinality(BlockKeys(m)) = models[m]
<1>1. \A b \in 0 .. models[m] - 1 : b \in Nat
  OBVIOUS
<1>2. 0 \in Int /\ models[m] - 1 \in Int /\ ~(0 > models[m] - 1) /\ (models[m] - 1) - 0 + 1 = models[m]
  OBVIOUS
<1>3. IsFiniteSet(0 .. models[m] - 1) /\ Cardinality(0 .. models[m] - 1) = models[m]
  BY <1>2, FS_Interval
<1> QED BY <1>1, <1>3 DEF BlockKeys

\* The places of a reply are its keys and finitely many more.
LEMMA PlacesAre ==
  ASSUME NEW m, models[m] \in Nat \ {0}
  PROVE  /\ Places(m) \in SUBSET Nat /\ IsFiniteSet(Places(m))
         /\ BlockKeys(m) \in SUBSET Places(m)
<1>1. /\ BlockKeys(m) \in SUBSET Nat /\ IsFiniteSet(BlockKeys(m))
  BY BlockKeysAre
<1>2. MaxResults \in Nat
  BY CrawlAssumption
<1>3. 0 \in Int /\ MaxResults - 1 \in Int
  BY <1>2
<1>4. IsFiniteSet(0 .. MaxResults - 1)
  BY <1>3, FS_Interval
<1>5. \A b \in 0 .. MaxResults - 1 : b \in Nat
  BY <1>3
<1> QED BY <1>1, <1>4, <1>5, FS_Union DEF Places

\* Both the registered and the fallback models have a block (discover_models).
LEMMA CountsArePositive ==
  /\ \A n \in 1 .. MaxBlocks : n \in Nat \ {0}
  /\ FallbackBlocks \in Nat \ {0} /\ FallbackPrefixes # {} /\ Prefixes \subseteq Nat
BY CrawlAssumption

-----------------------------------------------------------------------------
(* Type correctness.                                                       *)

\* What the steps of a pass rely on beside the types: what is still empty at
\* which step, and that the folded entries are kept for the models collected.
Shape ==
  /\ step \in {"dial", "discover"} =>
       models = NoReports /\ perModel = NoReports /\ collecting = {} /\ heard = {}
  /\ step = "dial" => answered = {} /\ failed = {}
  /\ step # "publish" => result = NothingRead
  /\ step = "collect" => collecting # {}
  /\ DOMAIN perModel = DOMAIN models
  /\ perModel = [m \in DOMAIN models |-> [p \in Servers |-> perModel[m][p]]]
  /\ \A m \in DOMAIN models : \A p \in Servers : perModel[m][p] \in Folded(Places(m))
  /\ step \in {"dial", "discover", "collect"} => capKey = 1
  /\ step = "capability" => capKey <= CapabilityKeys

TypeInv == TypeOK /\ Shape

LEMMA InitType == Init => TypeInv
<1> SUFFICES ASSUME Init PROVE TypeInv
  OBVIOUS
<1>1. DOMAIN NoReports = {} /\ NoReports = [m \in {} |-> [p \in Servers |-> NoReports[m][p]]]
  BY DEF NoReports
<1> QED
  BY <1>1, CrawlAssumption
  DEF Init, TypeInv, TypeOK, Shape, Steps, NewEntries, Entry, NothingRead

\* What a reply to block keys is folded into: entries of the model collected.
LEMMA Collecting ==
  ASSUME TypeInv, step = "collect", NEW reply \in BlockReplies(Model), AnswerBlocks(reply)
  PROVE  /\ Model \in DOMAIN models /\ Places(Model) \in SUBSET Nat
         /\ reply \in [Places(Model) -> [Servers -> States \cup {Absent}]]
         /\ \A p \in Servers : perModel[Model][p] \in Folded(Places(Model))
         /\ DOMAIN perModel' = DOMAIN models
         /\ perModel' = [m \in DOMAIN models |-> [p \in Servers |-> perModel'[m][p]]]
         /\ \A m \in DOMAIN models : \A p \in Servers :
              perModel'[m][p] = IF m = Model THEN Fold(perModel[m][p], reply, p) ELSE perModel[m][p]
<1>1. Model \in DOMAIN models
  BY CountsArePositive, LeastIn DEF Model, TypeInv, TypeOK, Shape
<1>2. Places(Model) \in SUBSET Nat
  BY <1>1, PlacesAre DEF TypeInv, TypeOK
<1>3. /\ DOMAIN perModel' = DOMAIN models
      /\ perModel' = [m \in DOMAIN models |-> [p \in Servers |-> perModel'[m][p]]]
      /\ \A m \in DOMAIN models : \A p \in Servers :
           perModel'[m][p] = IF m = Model THEN Fold(perModel[m][p], reply, p) ELSE perModel[m][p]
  BY <1>1 DEF AnswerBlocks, TypeInv, TypeOK, Shape
<1>4. \A p \in Servers : perModel[Model][p] \in Folded(Places(Model))
  BY <1>1 DEF TypeInv, Shape
<1>5. reply \in [Places(Model) -> [Servers -> States \cup {Absent}]]
  BY DEF BlockReplies
<1> QED BY <1>1, <1>2, <1>3, <1>4, <1>5

LEMMA NextType == TypeInv /\ [Next]_vars => TypeInv'
<1> SUFFICES ASSUME TypeInv, [Next]_vars PROVE TypeInv'
  OBVIOUS
<1>1. CASE UNCHANGED vars
  BY <1>1 DEF vars, TypeInv, TypeOK, Shape, Steps, reading, BlockKeys, Places
<1>2. ASSUME NEW ok \in BOOLEAN, Dial(ok) PROVE TypeInv'
  <2>1. entries' \in [Entries -> Entry] /\ asking' \subseteq Entries
    <3> DEFINE b == ok /\ Asked \in WithPeerId
    <3>1. b \in BOOLEAN /\ Least(asking) \in Entries
      BY <1>2, AskedIn DEF Dial, TypeInv, TypeOK, Shape, Steps, reading, BlockKeys, Places
    <3>2. entries' = [entries EXCEPT ![Least(asking)].dialed = b]
      BY <1>2 DEF Dial, TypeInv, TypeOK, Shape, Steps, reading, BlockKeys, Places
    <3> HIDE DEF b
    <3>3. entries' \in [Entries -> Entry]
      BY <3>1, <3>2, EntriesType DEF TypeInv, TypeOK
    <3> QED BY <1>2, <3>3 DEF Dial, TypeInv, TypeOK, Shape, Steps, reading, BlockKeys, Places
  <2> QED BY <1>2, <2>1 DEF Dial, TypeInv, TypeOK, Shape, Steps, reading, BlockKeys, Places
<1>3. CASE NoneDialable
  BY <1>3 DEF NoneDialable, NothingRead, Online, TypeInv, TypeOK, Shape, Steps, reading, BlockKeys, Places
<1>4. CASE Dialed
  BY <1>4 DEF Dialed, Live, TypeInv, TypeOK, Shape, Steps, reading, BlockKeys, Places
<1>5. ASSUME Asking, Fails PROVE TypeInv'
  <2>1. entries' \in [Entries -> Entry] /\ Asked \in Address
    BY <1>5, AskedIn, RecordType DEF Asking, Fails, TypeInv, TypeOK
  <2> QED BY <1>5, <2>1 DEF Asking, Fails, TypeInv, TypeOK, Shape, Steps, reading, BlockKeys, Places
<1>6. CASE Unaddressed \/ Garbled \/ LostAgain
  BY <1>5, <1>6 DEF Unaddressed, Garbled, LostAgain, TypeInv, TypeOK, Shape, Steps, reading, BlockKeys, Places
<1>7. CASE LostOnce
  BY <1>7 DEF LostOnce, Asking, TypeInv, TypeOK, Shape, Steps, reading, BlockKeys, Places
<1>8. ASSUME Answers PROVE entries' \in [Entries -> Entry] /\ Asked \in Address
  BY <1>8, AskedIn, RecordType DEF Answers, Asking, TypeInv, TypeOK
<1>9. ASSUME NEW registry \in Registries, AnswerRegistry(registry) PROVE TypeInv'
  <2>1. DOMAIN registry \subseteq Registered /\ \A m \in DOMAIN registry : registry[m] \in Int
    <3>1. PICK S \in SUBSET Registered : registry \in [S -> RegisteredBlocks]
      BY DEF Registries, TypeInv, TypeOK, Shape, Steps, reading, BlockKeys, Places
    <3>2. RegisteredBlocks \subseteq Int
      BY CrawlAssumption
    <3> QED BY <3>1, <3>2
  <2>2. DOMAIN found' \subseteq Registered /\ \A m \in DOMAIN found' : found'[m] \in 1 .. MaxBlocks
    BY <1>9, <2>1, ClampType DEF AnswerRegistry, TypeInv, TypeOK, Shape, Steps, reading, BlockKeys, Places
  <2>3. entries' \in [Entries -> Entry] /\ Asked \in Address
    BY <1>8, <1>9 DEF AnswerRegistry, TypeInv, TypeOK, Shape, Steps, reading, BlockKeys, Places
  <2> QED BY <1>9, <2>2, <2>3 DEF AnswerRegistry, Answers, Asking, TypeInv, TypeOK, Shape, Steps, reading, BlockKeys, Places
<1>10. CASE Discovered
  <2>1. /\ DOMAIN models' # {} /\ DOMAIN models' \subseteq Prefixes
        /\ \A m \in DOMAIN models' : models'[m] \in Nat \ {0}
    <3>1. CASE DOMAIN found = {}
      BY <1>10, <3>1, CrawlAssumption DEF Discovered, Fallback, Prefixes, TypeInv, TypeOK, Shape, Steps, reading, BlockKeys, Places
    <3>2. CASE DOMAIN found # {}
      <4>1. models' = found /\ DOMAIN found \subseteq Prefixes
        BY <1>10, <3>2 DEF Discovered, Prefixes, TypeInv, TypeOK, Shape, Steps, reading, BlockKeys, Places
      <4>2. \A m \in DOMAIN found : found[m] \in Nat \ {0}
        BY CountsArePositive DEF TypeInv, TypeOK
      <4> QED BY <3>2, <4>1, <4>2
    <3> QED BY <3>1, <3>2
  <2>2. /\ DOMAIN perModel' = DOMAIN models'
        /\ perModel' = [m \in DOMAIN models' |-> [p \in Servers |-> perModel'[m][p]]]
        /\ \A m \in DOMAIN models' : \A p \in Servers : perModel'[m][p] = [blocks |-> {}, state |-> Absent]
    BY <1>10 DEF Discovered, NoEntry, TypeInv, TypeOK, Shape, Steps, reading, BlockKeys, Places
  <2>3. \A B : [blocks |-> {}, state |-> Absent] \in Folded(B)
    BY DEF Folded
  <2>4. \A m \in DOMAIN models' : \A p \in Servers :
          /\ perModel'[m][p] \in Folded(Places(m)')
          /\ perModel'[m][p].blocks \subseteq Places(m)'
          /\ perModel'[m][p].state \in States \cup {Absent}
    BY <2>2, <2>3
  <2>5. TypeOK'
    BY <1>10, <2>1, <2>2, <2>4 DEF Discovered, Live, NoReports, TypeInv, TypeOK, Shape, Steps
  <2>6. Shape'
    BY <1>10, <2>1, <2>2, <2>4 DEF Discovered, TypeInv, Shape
  <2> QED BY <2>5, <2>6 DEF TypeInv
<1>11. ASSUME step = "collect", NEW reply \in BlockReplies(Model), AnswerBlocks(reply) PROVE TypeInv'
  <2>1. /\ Model \in DOMAIN models /\ Places(Model) \in SUBSET Nat
        /\ reply \in [Places(Model) -> [Servers -> States \cup {Absent}]]
        /\ \A p \in Servers : perModel[Model][p] \in Folded(Places(Model))
    BY <1>11, Collecting
  <2>2. /\ DOMAIN perModel' = DOMAIN models
        /\ perModel' = [m \in DOMAIN models |-> [p \in Servers |-> perModel'[m][p]]]
        /\ \A m \in DOMAIN models : \A p \in Servers :
             perModel'[m][p] = IF m = Model THEN Fold(perModel[m][p], reply, p) ELSE perModel[m][p]
    BY <1>11, Collecting
  <2>3. \A p \in Servers : Fold(perModel[Model][p], reply, p) \in Folded(Places(Model))
    BY <2>1, FoldMeans
  <2>4. \A m \in DOMAIN perModel' : \A p \in Servers : perModel'[m][p] \in Folded(Places(m))
    BY <2>2, <2>3 DEF TypeInv, Shape
  <2>5. entries' \in [Entries -> Entry] /\ Asked \in Address
    BY <1>8, <1>11 DEF AnswerBlocks
  <2>6. /\ UNCHANGED <<models, step, found, collecting, capKey, capability, discovered,
                       dialErrors, result>>
        /\ attempt' = 1 /\ answered' = answered \cup {Asked} /\ failed' = failed
        /\ asking' \subseteq asking
    BY <1>11 DEF AnswerBlocks, Answers
  <2>7. TypeOK'
    BY <1>11, <2>2, <2>4, <2>5, <2>6 DEF TypeInv, TypeOK, BlockKeys, Places, Folded
  <2>8. Shape'
    BY <1>11, <2>2, <2>4, <2>6 DEF TypeInv, Shape, BlockKeys, Places
  <2> QED BY <2>7, <2>8 DEF TypeInv
<1>12. CASE Collected
  <2>1. /\ UNCHANGED <<entries, attempt, found, models, perModel, capKey, capability, discovered,
                       dialErrors, result, heard, answered, failed>>
        /\ collecting' \subseteq collecting /\ asking' \subseteq Entries
        /\ step' = IF collecting' = {} THEN "capability" ELSE "collect"
        /\ step = "collect"
    BY <1>12 DEF Collected, Live
  <2>2. \A m : Places(m)' = Places(m)
    BY <2>1 DEF Places, BlockKeys
  <2> QED BY <2>1, <2>2, CrawlAssumption DEF TypeInv, TypeOK, Shape, Steps
<1>13. ASSUME NEW reply \in CapabilityReplies, AnswerCapability(reply) PROVE TypeInv'
  <2>1. capability' \in [Peers -> States \cup {Absent, "unknown"}]
    BY <1>13 DEF AnswerCapability, CapabilityReplies, TypeInv, TypeOK, Shape, Steps, reading, BlockKeys, Places
  <2>2. entries' \in [Entries -> Entry] /\ Asked \in Address
    BY <1>8, <1>13 DEF AnswerCapability, TypeInv, TypeOK, Shape, Steps, reading, BlockKeys, Places
  <2> QED BY <1>13, <2>1, <2>2 DEF AnswerCapability, Answers, Asking, TypeInv, TypeOK, Shape, Steps, reading, BlockKeys, Places
<1>14. CASE CapabilityRead
  BY <1>14, CrawlAssumption DEF CapabilityRead, Live, TypeInv, TypeOK, Shape, Steps, reading, BlockKeys, Places
<1>15. ASSUME NEW known \in SUBSET PeerIds, KadKnows(known) PROVE TypeInv'
  <2>1. discovered' \subseteq Peers \ Excluded
    BY <1>15, CrawlAssumption DEF KadKnows, BlockPeers, CapabilityPeers, TypeInv, TypeOK, Shape, Steps, reading, BlockKeys, Places
  <2> QED BY <1>15, <2>1 DEF KadKnows, TypeInv, TypeOK, Shape, Steps, reading, BlockKeys, Places
<1>16. ASSUME NEW errors \in SUBSET discovered, DialPeers(errors) PROVE TypeInv'
  BY <1>16 DEF DialPeers, TypeInv, TypeOK, Shape, Steps, reading, BlockKeys, Places
<1>17. ASSUME NEW speaking \in SUBSET PeerIds, Observe(speaking) PROVE TypeInv'
  <2>1. result'.peers \subseteq Peers /\ result'.issues \subseteq Peers /\ result'.dots \subseteq Entries
    BY <1>17, CrawlAssumption DEF Observe, BlockPeers, CapabilityPeers, Online, TypeInv, TypeOK, Shape, Steps, reading, BlockKeys, Places
  <2> QED BY <1>17, <2>1 DEF Observe, TypeInv, TypeOK, Shape, Steps, reading, BlockKeys, Places
<1>18. CASE NextPass
  <2>1. Init'
    BY <1>18 DEF NextPass, Afresh, Init
  <2> QED BY <2>1, InitType, PTL
<1> QED
  BY <1>1, <1>2, <1>3, <1>4, <1>5, <1>6, <1>7, <1>9, <1>10, <1>11, <1>12, <1>13, <1>14,
     <1>15, <1>16, <1>17, <1>18 DEF Next

LEMMA TypeInvAlways == Spec => []TypeInv
BY InitType, NextType, PTL DEF Spec

\* Types hold throughout, for any bootstraps, peers, registries and records:
\* what a registration declares is clamped to a model with a block, and what is
\* folded stays within the places a reply may have, its keys and any surplus
\* (CrawlPass!TypeOK).
THEOREM TypeCorrect == Spec => []TypeOK
<1>1. TypeInv => TypeOK
  BY DEF TypeInv
<1> QED BY <1>1, TypeInvAlways, PTL

-----------------------------------------------------------------------------
(* The folded entries and what was heard.                                  *)

LEMMA InitFold == Init => FoldMatchesHeard
BY DEF Init, FoldMatchesHeard, NoReports

\* Only a reply to block keys, and the start of collecting, touch the entries.
LEMMA NextFold == TypeInv /\ FoldMatchesHeard /\ [Next]_vars => FoldMatchesHeard'
<1> SUFFICES ASSUME TypeInv, FoldMatchesHeard, [Next]_vars PROVE FoldMatchesHeard'
  OBVIOUS
<1>1. ASSUME UNCHANGED <<models, perModel, heard>> PROVE FoldMatchesHeard'
  <2>1. \A m : Places(m)' = Places(m)
    BY <1>1 DEF Places, BlockKeys
  <2>2. models' = models /\ perModel' = perModel /\ heard' = heard
    BY <1>1
  <2> SUFFICES ASSUME NEW m \in DOMAIN perModel', NEW p \in Servers
               PROVE  LET entry == perModel'[m][p]
                      IN  /\ entry.blocks = {b \in Places(m)' : \E s \in States : <<m, b, p, s>> \in heard'}
                          /\ entry.state = "online" <=> \E b \in Places(m)' : <<m, b, p, "online">> \in heard'
                          /\ entry.state # Absent => \E b \in entry.blocks : <<m, b, p, entry.state>> \in heard'
    BY DEF FoldMatchesHeard
  <2>3. /\ perModel[m][p].blocks = {b \in Places(m) : \E s \in States : <<m, b, p, s>> \in heard}
        /\ perModel[m][p].state = "online" <=> \E b \in Places(m) : <<m, b, p, "online">> \in heard
        /\ perModel[m][p].state # Absent =>
             \E b \in perModel[m][p].blocks : <<m, b, p, perModel[m][p].state>> \in heard
    BY <2>2 DEF FoldMatchesHeard
  <2> QED BY <2>1, <2>2, <2>3
<1>2. CASE Discovered
  <2>1. /\ heard' = {}
        /\ \A m \in DOMAIN perModel' : \A p \in Servers :
             perModel'[m][p] = [blocks |-> {}, state |-> Absent]
    BY <1>2 DEF Discovered, NoEntry, TypeInv, Shape
  <2>2. "online" # Absent
    BY DEF Absent
  <2> SUFFICES ASSUME NEW m \in DOMAIN perModel', NEW p \in Servers
               PROVE  LET entry == perModel'[m][p]
                      IN  /\ entry.blocks = {b \in Places(m)' : \E s \in States : <<m, b, p, s>> \in heard'}
                          /\ entry.state = "online" <=> \E b \in Places(m)' : <<m, b, p, "online">> \in heard'
                          /\ entry.state # Absent => \E b \in entry.blocks : <<m, b, p, entry.state>> \in heard'
    BY DEF FoldMatchesHeard
  <2>3. {b \in Places(m)' : \E s \in States : <<m, b, p, s>> \in heard'} = {}
    BY <2>1
  <2>4. perModel'[m][p].blocks = {} /\ perModel'[m][p].state = Absent
    BY <2>1
  <2> QED BY <2>1, <2>2, <2>3, <2>4
<1>3. ASSUME step = "collect", NEW reply \in BlockReplies(Model), AnswerBlocks(reply)
      PROVE FoldMatchesHeard'
  <2>1. /\ Model \in DOMAIN models /\ Places(Model) \in SUBSET Nat
        /\ reply \in [Places(Model) -> [Servers -> States \cup {Absent}]]
        /\ \A p \in Servers : perModel[Model][p] \in Folded(Places(Model))
        /\ DOMAIN perModel' = DOMAIN models
        /\ \A m \in DOMAIN models : \A p \in Servers :
             perModel'[m][p] = IF m = Model THEN Fold(perModel[m][p], reply, p) ELSE perModel[m][p]
    BY <1>3, Collecting
  <2>2. models' = models /\ heard' = heard \cup {h \in Records(Model, reply) : h[4] # Absent}
    BY <1>3 DEF AnswerBlocks
  <2> SUFFICES ASSUME NEW m \in DOMAIN models, NEW p \in Servers
               PROVE  LET entry == perModel'[m][p]
                      IN  /\ entry.blocks = {b \in Places(m) : \E s \in States : <<m, b, p, s>> \in heard'}
                          /\ entry.state = "online" <=> \E b \in Places(m) : <<m, b, p, "online">> \in heard'
                          /\ entry.state # Absent => \E b \in entry.blocks : <<m, b, p, entry.state>> \in heard'
    BY <2>1, <2>2 DEF FoldMatchesHeard, Places, BlockKeys
  <2>3. \A b, s : <<m, b, p, s>> \in heard' <=>
          \/ <<m, b, p, s>> \in heard
          \/ m = Model /\ b \in Places(Model) /\ s = reply[b][p] /\ s # Absent
    BY <2>1, <2>2 DEF Records
  <2>4. /\ perModel[m][p].blocks = {b \in Places(m) : \E s \in States : <<m, b, p, s>> \in heard}
        /\ perModel[m][p].state = "online" <=> \E b \in Places(m) : <<m, b, p, "online">> \in heard
        /\ perModel[m][p].state # Absent =>
             \E b \in perModel[m][p].blocks : <<m, b, p, perModel[m][p].state>> \in heard
    BY DEF FoldMatchesHeard, TypeInv, Shape
  <2>5. CASE m # Model
    <3>1. \A b, s : <<m, b, p, s>> \in heard' <=> <<m, b, p, s>> \in heard
      BY <2>3, <2>5
    <3>2. perModel'[m][p] = perModel[m][p]
      BY <2>1, <2>5
    <3> QED BY <2>4, <3>1, <3>2
  <2>6. CASE m = Model
    <3> DEFINE B == Places(m)
               old == perModel[m][p]
               new == perModel'[m][p]
    <3>1. /\ B \in SUBSET Nat /\ reply \in [B -> [Servers -> States \cup {Absent}]]
          /\ old \in Folded(B) /\ new = Fold(old, reply, p)
      BY <2>1, <2>6
    <3>2. /\ new \in Folded(B)
          /\ \A b \in B : b \in new.blocks <=> b \in old.blocks \/ reply[b][p] # Absent
          /\ new.state = "online" <=> old.state = "online" \/ \E b \in B : reply[b][p] = "online"
          /\ new.state = old.state \/ \E b \in B : reply[b][p] = new.state /\ reply[b][p] # Absent
      <4>1. /\ Fold(old, reply, p) \in Folded(B)
            /\ \A b \in B : b \in Fold(old, reply, p).blocks <=> b \in old.blocks \/ reply[b][p] # Absent
            /\ Fold(old, reply, p).state = "online" <=>
                 old.state = "online" \/ \E b \in B : reply[b][p] = "online"
            /\ \/ Fold(old, reply, p).state = old.state
               \/ \E b \in B : reply[b][p] = Fold(old, reply, p).state /\ reply[b][p] # Absent
        <5> HIDE DEF B, old, new
        <5> QED BY <3>1, FoldMeans, Zenon
      <4> HIDE DEF B, old, new
      <4> QED BY <3>1, <4>1
    <3>3. "online" # Absent
      BY DEF Absent
    <3>4. \A b \in B : \A s : <<m, b, p, s>> \in heard' <=>
            <<m, b, p, s>> \in heard \/ (s = reply[b][p] /\ s # Absent)
      BY <2>3, <2>6
    <3>5. \A b \in B : b \in new.blocks <=> \E s \in States : <<m, b, p, s>> \in heard'
      <4>1. \A b \in B : reply[b][p] # Absent => reply[b][p] \in States
        BY <3>1
      <4>2. \A b \in B : b \in old.blocks <=> \E s \in States : <<m, b, p, s>> \in heard
        BY <2>4
      <4> HIDE DEF B, old, new
      <4> QED BY <3>2, <3>4, <4>1, <4>2
    <3>6. new.blocks = {b \in B : \E s \in States : <<m, b, p, s>> \in heard'}
      <4>1. new.blocks \subseteq B
        BY <3>2 DEF Folded
      <4> HIDE DEF B, old, new
      <4> QED BY <3>5, <4>1
    <3>7. new.state = "online" <=> \E b \in B : <<m, b, p, "online">> \in heard'
      <4>1. old.state = "online" <=> \E b \in B : <<m, b, p, "online">> \in heard
        BY <2>4
      <4> HIDE DEF B, old, new
      <4> QED BY <3>2, <3>3, <3>4, <4>1
    <3>8. new.state # Absent => \E b \in new.blocks : <<m, b, p, new.state>> \in heard'
      <4>1. old.state # Absent => \E b \in old.blocks : <<m, b, p, old.state>> \in heard
        BY <2>4
      <4>2. old.blocks \subseteq B
        BY <3>1 DEF Folded
      <4> HIDE DEF B, old, new
      <4> QED BY <3>2, <3>4, <4>1, <4>2
    <3> QED BY <3>6, <3>7, <3>8
  <2> QED BY <2>5, <2>6
<1>4. CASE NextPass
  BY <1>4 DEF NextPass, Afresh, NoReports, FoldMatchesHeard
<1>5. CASE UNCHANGED vars
  BY <1>1, <1>5 DEF vars
<1>6. ASSUME NEW ok \in BOOLEAN, Dial(ok) PROVE UNCHANGED <<models, perModel, heard>>
  BY <1>6 DEF Dial, reading
<1>7. CASE NoneDialable \/ Dialed \/ Unaddressed \/ Garbled \/ LostOnce \/ LostAgain \/ Collected
           \/ CapabilityRead
  BY <1>1, <1>7 DEF NoneDialable, Dialed, Unaddressed, Garbled, LostOnce, LostAgain, Fails,
                    Collected, CapabilityRead, reading
<1>8. ASSUME NEW registry \in Registries, AnswerRegistry(registry)
      PROVE  UNCHANGED <<models, perModel, heard>>
  BY <1>8 DEF AnswerRegistry
<1>9. ASSUME NEW reply \in CapabilityReplies, AnswerCapability(reply)
      PROVE  UNCHANGED <<models, perModel, heard>>
  BY <1>9 DEF AnswerCapability
<1>10. ASSUME NEW peers, KadKnows(peers) \/ DialPeers(peers) \/ Observe(peers)
       PROVE  UNCHANGED <<models, perModel, heard>>
  BY <1>10 DEF KadKnows, DialPeers, Observe, reading
<1> QED
  BY <1>1, <1>2, <1>3, <1>4, <1>5, <1>6, <1>7, <1>8, <1>9, <1>10 DEF Next

\* The folded entries are the union of every copy heard, whatever the order of
\* the bootstraps: blocks, and an online record if any copy was online
\* (collect_model).
THEOREM FoldMatchesHeardAlways == Spec => []FoldMatchesHeard
BY InitFold, NextFold, TypeInvAlways, PTL DEF Spec

-----------------------------------------------------------------------------
(* The snapshot of a pass and what was heard.                              *)

\* The ways to come to "publish", and to stay there.
LEMMA PublishSteps ==
  ASSUME [Next]_vars, step' = "publish"
  PROVE  \/ NoneDialable
         \/ \E speaking \in SUBSET PeerIds : Observe(speaking)
         \/ UNCHANGED vars
<1> SUFFICES ASSUME ~UNCHANGED vars
             PROVE  NoneDialable \/ \E speaking \in SUBSET PeerIds : Observe(speaking)
  OBVIOUS
<1>1. ASSUME NEW ok \in BOOLEAN, Dial(ok) PROVE FALSE
  BY <1>1 DEF Dial
<1>2. CASE Dialed \/ Unaddressed \/ Garbled \/ LostOnce \/ LostAgain \/ Discovered \/ Collected
           \/ CapabilityRead \/ NextPass
  BY <1>2 DEF Dialed, Unaddressed, Garbled, LostOnce, LostAgain, Asking, Fails, Discovered,
              Collected, CapabilityRead, NextPass, Afresh
<1>3. ASSUME NEW registry \in Registries, AnswerRegistry(registry) PROVE FALSE
  BY <1>3 DEF AnswerRegistry, Answers
<1>4. ASSUME NEW reply \in BlockReplies(Model), AnswerBlocks(reply) PROVE FALSE
  BY <1>4 DEF AnswerBlocks, Answers
<1>5. ASSUME NEW reply \in CapabilityReplies, AnswerCapability(reply) PROVE FALSE
  BY <1>5 DEF AnswerCapability, Answers
<1>6. ASSUME NEW peers, KadKnows(peers) \/ DialPeers(peers) PROVE FALSE
  BY <1>6 DEF KadKnows, DialPeers
<1> QED BY <1>1, <1>2, <1>3, <1>4, <1>5, <1>6 DEF Next

\* What is assembled at the end of a pass is the only result there is.
LEMMA Publishing ==
  ASSUME TypeInv, [Next]_vars
  PROVE  \/ result' = NothingRead
         \/ NoneDialable
         \/ \E speaking \in SUBSET PeerIds : Observe(speaking)
         \/ UNCHANGED vars
<1>1. TypeInv'
  BY NextType
<1>2. CASE step' # "publish"
  BY <1>1, <1>2 DEF TypeInv, Shape
<1> QED BY <1>2, PublishSteps

\* A finite set C is as large as K exactly if it misses as many members of K as
\* it has of others.
LEMMA SameSize ==
  ASSUME NEW C, NEW K, IsFiniteSet(C), IsFiniteSet(K)
  PROVE  Cardinality(C) = Cardinality(K) <=> Cardinality(K \ C) = Cardinality(C \ K)
<1>1. /\ Cardinality(K \ C) = Cardinality(K) - Cardinality(K \cap C)
      /\ Cardinality(C \ K) = Cardinality(C) - Cardinality(C \cap K)
  BY FS_Difference
<1>2. /\ Cardinality(C) \in Nat /\ Cardinality(K) \in Nat /\ Cardinality(K \cap C) \in Nat
      /\ K \cap C = C \cap K
  BY FS_CardinalityType, FS_Intersection
<1>3. \A c, k, i \in Nat : c = k <=> k - i = c - i
  OBVIOUS
<1> QED BY <1>1, <1>2, <1>3

\* What a report counts are the places in which a server shown online was named.
LEMMA CoveredIs ==
  ASSUME TypeInv, FoldMatchesHeard, NEW m \in DOMAIN models
  PROVE  /\ Covered(m) \in SUBSET Places(m)
         /\ \A b \in Places(m) : b \in Covered(m) <=> ShownOnline(m, b)
<1>1. m \in DOMAIN perModel
  BY DEF TypeInv, Shape
<1>2. \A p \in Servers :
        /\ perModel[m][p].blocks = {b \in Places(m) : \E s \in States : <<m, b, p, s>> \in heard}
        /\ perModel[m][p].state = "online" <=> \E c \in Places(m) : <<m, c, p, "online">> \in heard
  BY <1>1 DEF FoldMatchesHeard
<1>3. \A b : b \in Covered(m) <=>
        \E p \in Servers : perModel[m][p].state = "online" /\ b \in perModel[m][p].blocks
  BY DEF Covered, OnlineServers
<1>4. \A b \in Covered(m) : b \in Places(m)
  BY <1>2, <1>3
<1>5. ASSUME NEW b \in Places(m) PROVE b \in Covered(m) <=> ShownOnline(m, b)
  <2>1. \A p \in Servers : b \in perModel[m][p].blocks <=> \E s \in States : <<m, b, p, s>> \in heard
    BY <1>2, <1>5
  <2> QED BY <1>2, <1>3, <2>1 DEF ShownOnline
<1> QED BY <1>4, <1>5

LEMMA NextHealthy ==
  TypeInv /\ FoldMatchesHeard /\ HealthyUpToSurplus /\ [Next]_vars => HealthyUpToSurplus'
<1> SUFFICES ASSUME TypeInv, FoldMatchesHeard, HealthyUpToSurplus, [Next]_vars
             PROVE  HealthyUpToSurplus'
  OBVIOUS
<1>1. CASE DOMAIN result'.reports = {}
  BY <1>1 DEF HealthyUpToSurplus
<1>2. ASSUME NEW speaking \in SUBSET PeerIds, Observe(speaking) PROVE HealthyUpToSurplus'
  <2>1. models' = models /\ perModel' = perModel /\ heard' = heard
    BY <1>2 DEF Observe, reading
  <2>2. /\ DOMAIN result'.reports = {n \in DOMAIN models : Rows(n) # {}}
        /\ \A m \in DOMAIN result'.reports :
             result'.reports[m].healthy <=> Cardinality(Covered(m)) = models[m]
    BY <1>2 DEF Observe, Report
  <2>3. ASSUME NEW m \in DOMAIN models
        PROVE  Cardinality(Covered(m)) = models[m] <=>
                 Cardinality({b \in BlockKeys(m) : ~ShownOnline(m, b)})
                   = Cardinality({b \in Places(m) \ BlockKeys(m) : ShownOnline(m, b)})
    <3> DEFINE C == Covered(m)
               K == BlockKeys(m)
    <3>1. models[m] \in Nat \ {0}
      BY DEF TypeInv, TypeOK
    <3>2. /\ IsFiniteSet(K) /\ Cardinality(K) = models[m]
          /\ IsFiniteSet(Places(m)) /\ K \in SUBSET Places(m)
      BY <3>1, BlockKeysAre, PlacesAre
    <3>3. /\ C \in SUBSET Places(m)
          /\ \A b \in Places(m) : b \in C <=> ShownOnline(m, b)
      BY CoveredIs
    <3>4. IsFiniteSet(C)
      <4> HIDE DEF C
      <4> QED BY <3>2, <3>3, FS_Subset
    <3>5. {b \in K : ~ShownOnline(m, b)} = K \ C
      <4> HIDE DEF C, K
      <4> QED BY <3>2, <3>3
    <3>6. {b \in Places(m) \ K : ShownOnline(m, b)} = C \ K
      <4> HIDE DEF C, K
      <4> QED BY <3>2, <3>3
    <3>7. Cardinality(C) = Cardinality(K) <=> Cardinality(K \ C) = Cardinality(C \ K)
      <4> HIDE DEF C, K
      <4> QED BY <3>2, <3>4, SameSize
    <3> QED BY <3>2, <3>5, <3>6, <3>7
  <2>4. \A m : /\ BlockKeys(m)' = BlockKeys(m) /\ Places(m)' = Places(m)
    BY <2>1 DEF BlockKeys, Places
  <2>5. \A m : \A b : ShownOnline(m, b)' <=> ShownOnline(m, b)
    BY <2>1, <2>4 DEF ShownOnline
  <2> SUFFICES ASSUME NEW m \in DOMAIN result'.reports
               PROVE  result'.reports[m].healthy <=>
                        Cardinality({b \in BlockKeys(m)' : ~ShownOnline(m, b)'})
                          = Cardinality({b \in Places(m)' \ BlockKeys(m)' : ShownOnline(m, b)'})
    BY DEF HealthyUpToSurplus
  <2>6. /\ {b \in BlockKeys(m)' : ~ShownOnline(m, b)'} = {b \in BlockKeys(m) : ~ShownOnline(m, b)}
        /\ {b \in Places(m)' \ BlockKeys(m)' : ShownOnline(m, b)'}
             = {b \in Places(m) \ BlockKeys(m) : ShownOnline(m, b)}
    BY <2>4, <2>5
  <2> QED BY <2>2, <2>3, <2>6
<1>3. CASE UNCHANGED vars
  <2>1. result' = result /\ models' = models /\ heard' = heard
    BY <1>3 DEF vars
  <2>2. \A m : BlockKeys(m)' = BlockKeys(m) /\ Places(m)' = Places(m)
    BY <2>1 DEF BlockKeys, Places
  <2>3. \A m : \A b : ShownOnline(m, b)' <=> ShownOnline(m, b)
    BY <2>1, <2>2 DEF ShownOnline
  <2> SUFFICES ASSUME NEW m \in DOMAIN result'.reports
               PROVE  result'.reports[m].healthy <=>
                        Cardinality({b \in BlockKeys(m)' : ~ShownOnline(m, b)'})
                          = Cardinality({b \in Places(m)' \ BlockKeys(m)' : ShownOnline(m, b)'})
    BY DEF HealthyUpToSurplus
  <2>4. /\ {b \in BlockKeys(m)' : ~ShownOnline(m, b)'} = {b \in BlockKeys(m) : ~ShownOnline(m, b)}
        /\ {b \in Places(m)' \ BlockKeys(m)' : ShownOnline(m, b)'}
             = {b \in Places(m) \ BlockKeys(m) : ShownOnline(m, b)}
    BY <2>2, <2>3
  <2> QED BY <2>1, <2>4 DEF HealthyUpToSurplus
<1>4. result' = NothingRead \/ NoneDialable => DOMAIN result'.reports = {}
  BY DEF NoneDialable, NothingRead, NoReports
<1> QED BY <1>1, <1>2, <1>3, <1>4, Publishing

\* A report is healthy exactly if what an online server misses of its keys and
\* what the surplus results of replies add are as many, whatever the replies: if
\* no reply holds more results than keys, exactly if no key is missed
\* (build_snapshot compares the counts).
THEOREM HealthyUpToSurplusAlways == Spec => []HealthyUpToSurplus
<1>1. Init => HealthyUpToSurplus
  BY DEF Init, NothingRead, NoReports, HealthyUpToSurplus
<1> QED BY <1>1, NextHealthy, TypeInvAlways, FoldMatchesHeardAlways, PTL DEF Spec

-----------------------------------------------------------------------------
(* The dots and what was heard, whatever is configured.                    *)

\* `record` finds an entry of the address it was told about.
LEMMA EntryFound ==
  ASSUME NEW i \in Entries
  PROVE  /\ EntryOf(Config[i]) \in Entries /\ Config[EntryOf(Config[i])] = Config[i]
         /\ \A j \in Entries : Config[j] = Config[i] => EntryOf(Config[i]) <= j
<1> DEFINE S == {j \in Entries : Config[j] = Config[i]}
<1>1. S \in SUBSET Nat /\ S # {}
  BY ConfigAssumption DEF Entries
<1>2. Least(S) \in S /\ \A j \in S : Least(S) <= j
  <2> HIDE DEF S
  <2> QED BY <1>1, LeastIn
<1>3. \E k \in Entries : Config[k] = Config[i] /\ \A j \in Entries : Config[j] = Config[i] => k <= j
  BY <1>2
<1> QED BY <1>3 DEF EntryOf

\* Whoever was heard of was heard of from a bootstrap whose dot is online.
HeardFrom == heard # {} => \E i \in Entries : entries[i].answered

\* No query takes an answer back, and one that is answered marks an entry.
LEMMA NextHeardFrom == TypeInv /\ HeardFrom /\ [Next]_vars => HeardFrom'
<1> SUFFICES ASSUME TypeInv, HeardFrom, [Next]_vars PROVE HeardFrom'
  OBVIOUS
<1>1. ASSUME Asking, entries' = Record(entries, Asked, FALSE), heard' = heard PROVE HeardFrom'
  <2>1. EntryOf(Asked) \in Entries
    BY <1>1, AskedIn, EntryFound DEF Asking, TypeInv, TypeOK
  <2>2. \A i \in Entries : entries'[i].answered = entries[i].answered
    BY <1>1, <2>1 DEF Record, TypeInv, TypeOK, Entry
  <2> QED BY <1>1, <2>2 DEF HeardFrom
<1>2. ASSUME Answers PROVE \E i \in Entries : entries'[i].answered
  <2>1. EntryOf(Asked) \in Entries
    BY <1>2, AskedIn, EntryFound DEF Answers, Asking, TypeInv, TypeOK
  <2> QED BY <1>2, <2>1 DEF Answers, Record, TypeInv, TypeOK, Entry
<1>3. ASSUME NEW ok \in BOOLEAN, Dial(ok) PROVE HeardFrom'
  BY <1>3 DEF Dial, reading, HeardFrom, TypeInv, Shape
<1>4. CASE UNCHANGED <<entries, heard>>
  BY <1>4 DEF HeardFrom
<1>5. CASE heard' = {}
  BY <1>5 DEF HeardFrom
<1>6. CASE Unaddressed \/ Garbled \/ LostAgain
  BY <1>1, <1>6 DEF Unaddressed, Garbled, LostAgain, Fails, reading
<1>7. CASE NoneDialable \/ Dialed \/ LostOnce \/ Discovered \/ Collected \/ CapabilityRead
  BY <1>4, <1>7 DEF NoneDialable, Dialed, LostOnce, Discovered, Collected, CapabilityRead, reading
<1>8. ASSUME NEW registry \in Registries, AnswerRegistry(registry) PROVE HeardFrom'
  BY <1>2, <1>8 DEF AnswerRegistry, HeardFrom
<1>9. ASSUME NEW reply \in BlockReplies(Model), AnswerBlocks(reply) PROVE HeardFrom'
  BY <1>2, <1>9 DEF AnswerBlocks, HeardFrom
<1>10. ASSUME NEW reply \in CapabilityReplies, AnswerCapability(reply) PROVE HeardFrom'
  BY <1>2, <1>10 DEF AnswerCapability, HeardFrom
<1>11. ASSUME NEW peers, KadKnows(peers) \/ DialPeers(peers) \/ Observe(peers) PROVE HeardFrom'
  BY <1>4, <1>11 DEF KadKnows, DialPeers, Observe, reading
<1>12. CASE NextPass
  BY <1>5, <1>12 DEF NextPass, Afresh
<1>13. CASE UNCHANGED vars
  BY <1>4, <1>13 DEF vars
<1> QED BY <1>3, <1>6, <1>7, <1>8, <1>9, <1>10, <1>11, <1>12, <1>13 DEF Next

LEMMA NextReports ==
  TypeInv /\ FoldMatchesHeard /\ HeardFrom /\ ReportsNeedAnAnswer /\ [Next]_vars
    => ReportsNeedAnAnswer'
<1> SUFFICES ASSUME TypeInv, FoldMatchesHeard, HeardFrom, ReportsNeedAnAnswer, [Next]_vars
             PROVE  ReportsNeedAnAnswer'
  OBVIOUS
<1>1. ASSUME NEW speaking \in SUBSET PeerIds, Observe(speaking), result'.dots = {}
      PROVE  DOMAIN result'.reports = {}
  <2>1. result'.dots = Online(entries) /\ DOMAIN result'.reports = {n \in DOMAIN models : Rows(n) # {}}
    BY <1>1 DEF Observe
  <2>2. heard = {}
    BY <1>1, <2>1 DEF HeardFrom, Online
  <2>3. \A m \in DOMAIN models : \A p \in Servers : perModel[m][p].state = Absent
    BY <2>2 DEF FoldMatchesHeard, TypeInv, Shape
  <2> QED BY <2>1, <2>3 DEF Rows
<1>2. result' = NothingRead \/ NoneDialable => DOMAIN result'.reports = {}
  BY DEF NoneDialable, NothingRead, NoReports
<1>3. CASE UNCHANGED vars
  BY <1>3 DEF vars, ReportsNeedAnAnswer
<1> QED BY <1>1, <1>2, <1>3, Publishing DEF ReportsNeedAnAnswer

\* A pass whose dots are all offline reports no model: a record is heard only
\* from a bootstrap that answered, and an answer is never taken back (record,
\* build_snapshot).
THEOREM ReportsNeedAnAnswerAlways == Spec => []ReportsNeedAnAnswer
<1>1. Init => HeardFrom /\ ReportsNeedAnAnswer
  BY DEF Init, NothingRead, NoReports, HeardFrom, ReportsNeedAnAnswer
<1> QED
  BY <1>1, NextHeardFrom, NextReports, TypeInvAlways, FoldMatchesHeardAlways, PTL DEF Spec

-----------------------------------------------------------------------------
(* The dots and the queries, whatever is configured.                       *)

\* The entries `record` finds.
First(i) == \A j \in Entries : Config[j] = Config[i] => i <= j

LEMMA EntryIs ==
  ASSUME NEW i \in Entries
  PROVE  /\ EntryOf(Config[i]) \in Entries /\ EntryOf(Config[i]) <= i
         /\ \A j \in Entries : j = EntryOf(Config[i]) <=> First(j) /\ Config[j] = Config[i]
<1>1. /\ EntryOf(Config[i]) \in Entries /\ Config[EntryOf(Config[i])] = Config[i]
      /\ \A j \in Entries : Config[j] = Config[i] => EntryOf(Config[i]) <= j
  BY EntryFound
<1>2. \A j \in Entries : j \in Nat
  BY ConfigAssumption DEF Entries
<1> QED BY <1>1, <1>2 DEF First

\* A dot is the evidence of its address if its entry is the first with it, and
\* such an entry, once the address has failed, is neither dialed nor among those
\* left to ask.
Evidence ==
  /\ \A i \in Entries : entries[i].answered <=> First(i) /\ Config[i] \in answered
  /\ \A i \in Entries : First(i) /\ Config[i] \in failed => ~entries[i].dialed
  /\ Asking => \A i \in asking : First(i) => Config[i] \notin failed

LEMMA NextEvidence == TypeInv /\ Evidence /\ [Next]_vars => Evidence'
<1> SUFFICES ASSUME TypeInv, Evidence, [Next]_vars PROVE Evidence'
  OBVIOUS
<1> DEFINE l == Least(asking)
           e == EntryOf(Asked)
<1>1. ASSUME Asking
      PROVE  /\ l \in asking /\ l \in Entries /\ Asked = Config[l] /\ e \in Entries
             /\ \A j \in Entries : j = e <=> First(j) /\ Config[j] = Asked
             /\ e \in asking => e = l
  <2>1. l \in asking /\ l \in Entries /\ Asked = Config[l] /\ \A j \in asking : l <= j
    <3>1. asking \in SUBSET Nat /\ asking # {}
      BY <1>1, ConfigAssumption DEF Asking, TypeInv, TypeOK, Entries
    <3> QED BY <1>1, <3>1, AskedIn, LeastIn DEF TypeInv, TypeOK, Asking
  <2>2. e \in Entries /\ e <= l /\ \A j \in Entries : j = e <=> First(j) /\ Config[j] = Asked
    BY <2>1, EntryIs
  <2>3. e \in Int /\ l \in Int
    BY <2>1, <2>2, ConfigAssumption DEF Entries
  <2> QED BY <2>1, <2>2, <2>3
<1> HIDE DEF l, e
<1>2. ASSUME UNCHANGED <<entries, answered, failed>>,
             \/ asking' \subseteq asking /\ (Asking' => Asking)
             \/ asking' = Live(entries)
             \/ ~Asking'
      PROVE  Evidence'
  BY <1>2 DEF Evidence, First, Live
<1>3. ASSUME NEW ok \in BOOLEAN, Dial(ok) PROVE Evidence'
  <2>1. /\ step = "dial" /\ step' = "dial" /\ answered' = {} /\ failed' = {} /\ answered = {}
        /\ entries' = [entries EXCEPT ![Least(asking)].dialed = ok /\ Asked \in WithPeerId]
    BY <1>3 DEF Dial, TypeInv, Shape
  <2>2. \A i \in Entries : entries'[i].answered = entries[i].answered
    BY <2>1 DEF TypeInv, TypeOK, Entry
  <2> QED BY <2>1, <2>2 DEF Evidence, First, Asking
<1>4. ASSUME Asking, Fails PROVE Evidence'
  <2>1. /\ entries' = [entries EXCEPT ![e].dialed = FALSE]
        /\ failed' = failed \cup {Asked} /\ asking' = asking \ {l}
        /\ answered' = answered
    BY <1>4 DEF Fails, Record, l, e
  <2>2. \A i \in Entries : /\ entries'[i].answered = entries[i].answered
                           /\ entries'[i].dialed => entries[i].dialed /\ i # e
    BY <1>1, <1>4, <2>1 DEF TypeInv, TypeOK, Entry
  <2>3. \A i \in Entries : First(i) /\ Config[i] = Asked => i = e
    BY <1>1, <1>4
  <2>4. asking \subseteq Entries
    BY DEF TypeInv, TypeOK
  <2>5. \A i \in Entries : entries'[i].answered <=> First(i) /\ Config[i] \in answered'
    BY <2>1, <2>2 DEF Evidence
  <2>6. \A i \in Entries : First(i) /\ Config[i] \in failed' => ~entries'[i].dialed
    BY <2>1, <2>2, <2>3 DEF Evidence
  <2>7. \A i \in asking' : First(i) => Config[i] \notin failed'
    BY <1>1, <1>4, <2>1, <2>3, <2>4 DEF Evidence
  <2> QED BY <2>5, <2>6, <2>7 DEF Evidence, First
<1>5. ASSUME Answers, asking' \subseteq asking PROVE Evidence'
  <2>1. /\ Asking /\ failed' = failed /\ answered' = answered \cup {Asked}
        /\ entries' = [entries EXCEPT ![e].answered = TRUE]
    BY <1>5 DEF Answers, Record, e
  <2>2. \A i \in Entries : /\ entries'[i].dialed = entries[i].dialed
                           /\ entries'[i].answered <=> entries[i].answered \/ i = e
    BY <1>1, <2>1 DEF TypeInv, TypeOK, Entry
  <2>3. \A i \in Entries : First(i) /\ Config[i] = Asked <=> i = e
    BY <1>1, <2>1
  <2>4. \A i \in Entries : entries'[i].answered <=> First(i) /\ Config[i] \in answered'
    BY <2>1, <2>2, <2>3 DEF Evidence
  <2>5. \A i \in Entries : First(i) /\ Config[i] \in failed' => ~entries'[i].dialed
    BY <2>1, <2>2 DEF Evidence
  <2>6. \A i \in asking' : First(i) => Config[i] \notin failed'
    BY <1>5, <2>1 DEF Evidence
  <2> QED BY <2>4, <2>5, <2>6 DEF Evidence, First
<1>6. CASE Unaddressed \/ Garbled \/ LostAgain
  BY <1>4, <1>6 DEF Unaddressed, Garbled, LostAgain
<1>7. CASE LostOnce
  BY <1>2, <1>7 DEF LostOnce, Asking
<1>8. CASE NoneDialable
  BY <1>2, <1>8 DEF NoneDialable, Asking
<1>9. CASE Dialed \/ Discovered \/ Collected
  BY <1>2, <1>9 DEF Dialed, Discovered, Collected
<1>10. CASE CapabilityRead
  BY <1>2, <1>10 DEF CapabilityRead, Asking
<1>11. ASSUME NEW registry \in Registries, AnswerRegistry(registry) PROVE Evidence'
  BY <1>5, <1>11 DEF AnswerRegistry
<1>12. ASSUME NEW reply \in BlockReplies(Model), AnswerBlocks(reply) PROVE Evidence'
  BY <1>5, <1>12 DEF AnswerBlocks
<1>13. ASSUME NEW reply \in CapabilityReplies, AnswerCapability(reply) PROVE Evidence'
  BY <1>5, <1>13 DEF AnswerCapability
<1>14. ASSUME NEW peers, KadKnows(peers) \/ DialPeers(peers) \/ Observe(peers) PROVE Evidence'
  BY <1>2, <1>14 DEF KadKnows, DialPeers, Observe, Asking
<1>15. CASE NextPass
  BY <1>15 DEF NextPass, Afresh, NewEntries, Evidence, Asking
<1>16. CASE UNCHANGED vars
  BY <1>2, <1>16 DEF vars, Asking
<1> QED BY <1>3, <1>6, <1>7, <1>8, <1>9, <1>10, <1>11, <1>12, <1>13, <1>14, <1>15, <1>16 DEF Next

LEMMA EvidenceAlways == Spec => []Evidence
<1>1. Init => Evidence
  BY DEF Init, NewEntries, Evidence, Asking
<1> QED BY <1>1, NextEvidence, TypeInvAlways, PTL DEF Spec

\* Whatever is configured, the first entry of an address speaks for it: it is
\* online exactly if the address answered, and is not asked once the address has
\* failed; entries that repeat it are offline for good (record, live).
THEOREM FirstEntrySpeaksAlways == Spec => []FirstEntrySpeaks
<1>1. TypeInv /\ Evidence => FirstEntrySpeaks
  BY AskedIn DEF TypeInv, TypeOK, Evidence, First, FirstEntrySpeaks, Asking
<1> QED BY <1>1, EvidenceAlways, TypeInvAlways, PTL

-----------------------------------------------------------------------------
(* The same where no address is configured twice.                          *)

\* Then every entry is the first of its address.
LEMMA AllFirst ==
  ASSUME Distinct, Evidence
  PROVE  /\ DotsAreEvidence
         /\ Asking => \A i \in asking \cap Entries : Config[i] \notin failed
<1>1. \A i \in Entries : First(i)
  <2>1. \A i \in Entries : i \in Int
    BY ConfigAssumption DEF Entries
  <2> QED BY <2>1 DEF Distinct, First
<1> QED BY <1>1 DEF Evidence, DotsAreEvidence

\* Of addresses configured once each, the dot of one is online exactly if it
\* answered a query of the pass, whatever its dials did and whatever failed
\* (record, bootstrap_states).
THEOREM DotsAreEvidenceAlways == ASSUME Distinct PROVE Spec => []DotsAreEvidence
<1>1. Evidence => DotsAreEvidence
  BY AllFirst
<1> QED BY <1>1, EvidenceAlways, PTL

\* Of addresses configured once each, one that failed a query is asked nothing
\* more in that pass, in any of the loops over live().
THEOREM FailedNotAskedAgainAlways == ASSUME Distinct PROVE Spec => []FailedNotAskedAgain
<1>1. TypeInv /\ Evidence => FailedNotAskedAgain
  BY AskedIn, AllFirst DEF TypeInv, TypeOK, FailedNotAskedAgain, Asking
<1> QED BY <1>1, EvidenceAlways, TypeInvAlways, PTL

=============================================================================
