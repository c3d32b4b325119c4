------------------------------- MODULE Records -------------------------------
(***************************************************************************)
(* The decoders for DHT values (dht.rs, and servers_in of crawler.rs), over*)
(* abstract msgpack.  A value is a tuple: its kind, then its content.      *)
(* Bytes are named by the value read_value finds in them: Garbage is what  *)
(* it finds none in.  Some(x) is {x} here and None {}.  Subkeys are        *)
(* numbered in their string order, 0 being the empty one.                  *)
(***************************************************************************)
EXTENDS Integers, Sequences, Lists

Garbage == <<"garbage">>
Empty == 0
Num(n) == <<"int", n>>
Str(s) == <<"str", s>>
Bin(bytes) == <<"bin", bytes>>
Arr(items) == <<"arr", items>>
Map(pairs) == <<"map", pairs>>
Ext(tag, bytes) == <<"ext", tag, bytes>>

Is(kind, v) == v[1] = kind

\* as_i64().unwrap_or(0), and as_f64 for the whole numbers used here.
AsInt(v) == IF Is("int", v) THEN v[2] ELSE 0
AsStr(v) == IF Is("str", v) THEN {v[2]} ELSE {}
Items(v) == IF Is("arr", v) THEN v[2] ELSE <<>>

UnwrapExt(bytes, tag) == IF Is("ext", bytes) /\ bytes[2] = tag THEN bytes[3] ELSE Garbage

-----------------------------------------------------------------------------
(* Dictionaries: [expiration, ?, [[subkey, value, expiration], ...]].      *)

\* A subkey arrives as a string or as msgpack in binary.
SubkeyToString(v) == IF Is("bin", v) THEN AsStr(v[2]) ELSE AsStr(v)

\* Wrong variant: only the string form is known.
ReadableAsString(e) ==
  Len(Items(e)) >= 2 /\ AsStr(Items(e)[1]) \notin {{}, {Empty}} /\ Is("bin", Items(e)[2])

\* What the filter keeps: a named entry with opaque bytes for a value.
Readable(e) ==
  /\ Len(Items(e)) >= 2
  /\ SubkeyToString(Items(e)[1]) \notin {{}, {Empty}}
  /\ Is("bin", Items(e)[2])

\* The readable entries, as <<subkey, value bytes>>.
DictionaryEntries(bytes) ==
  LET top == Items(UnwrapExt(bytes, 80))
      entries == IF Len(top) >= 3 THEN Items(top[3]) ELSE <<>>
  IN  [i \in Where(entries, Readable) |->
         <<CHOOSE s \in SubkeyToString(Items(entries[i])[1]) : TRUE, Items(entries[i])[2][2]>>]

-----------------------------------------------------------------------------
(* Server records: [state, throughput, {fields}].                          *)

\* The fields the assembled snapshot is computed from; the others are carried
\* along.  `names` is the peer_id field.
ServerInfo == [state : {"offline", "joining", "online", "unknown"}, throughput : Int,
               start : Int, end : Int, names : SUBSET Nat]

\* -1 is the tombstone KwaaiNet adds.
StateName(raw) ==
  IF raw \in {-1, 0} THEN "offline" ELSE IF raw = 1 THEN "joining" ELSE IF raw = 2 THEN "online"
  ELSE "unknown"

\* The places of a map's pairs where a name stands.
Named(map, name) == Where(map, LAMBDA kv : kv[1] = Str(name))

\* The loop over the fields assigns each as it comes: the last one stays.
LastNamed(map, name) ==
  IF Named(map, name) = {} THEN Garbage ELSE map[Max(Named(map, name))][2]

DecodeServerInfo(bytes) ==
  LET inner == Items(UnwrapExt(bytes, 64))
  IN  IF Len(inner) < 3 \/ ~Is("map", inner[3]) THEN {}
      ELSE {[state      |-> StateName(AsInt(inner[1])),
             throughput |-> AsInt(inner[2]),
             start      |-> AsInt(LastNamed(inner[3][2], "start_block")),
             end        |-> AsInt(LastNamed(inner[3][2], "end_block")),
             names      |-> AsStr(LastNamed(inner[3][2], "peer_id"))]}

REGULAR == 1
DICTIONARY == 2

\* The servers of one FindResult, as <<peer, info>>: a dictionary names them
\* by subkey, a regular value names its own or is dropped.
ServersIn(resultType, bytes) ==
  IF resultType = DICTIONARY
  THEN LET decodes(e) == DecodeServerInfo(e[2]) # {}
           entries == DictionaryEntries(bytes)
       IN  [i \in Where(entries, decodes) |->
              <<entries[i][1], CHOOSE s \in DecodeServerInfo(entries[i][2]) : TRUE>>]
  ELSE IF resultType = REGULAR /\ \E s \in DecodeServerInfo(bytes) : s.names # {}
  THEN LET s == CHOOSE t \in DecodeServerInfo(bytes) : TRUE
       IN  << <<CHOOSE id \in s.names : TRUE, s>> >>
  ELSE <<>>

-----------------------------------------------------------------------------
\* The model registry: a dictionary by prefix of plain maps.  Here the first
\* pair of a name is the one found, and a count that is missing is 0.
DecodeModelRegistry(bytes) ==
  LET entries == DictionaryEntries(bytes)
      holdsMap(e) == Is("map", e[2])
      count(map) == LET at == Named(map, "num_blocks")
                    IN  IF at = {} THEN 0 ELSE AsInt(FirstOf(map, at)[2])
  IN  [i \in Where(entries, holdsMap) |-> <<entries[i][1], count(entries[i][2][2])>>]
=============================================================================
