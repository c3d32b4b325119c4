----------------------------- MODULE MCAssembly -----------------------------
(***************************************************************************)
(* Assembly for TLC.  Models 1 and 2 of two blocks and one, and the        *)
(* fallback 3; peers 1, 2 and 4, an excluded 3, and 0, the empty id that a *)
(* regular value may name itself by.  The writer's side of the format      *)
(* gives the bytes: each reply mixes well-formed entries, in either form   *)
(* of the subkey, with entries that must be passed over.                   *)
(***************************************************************************)
EXTENDS Assembly

\* The writer: a server record, stored in a dictionary or as a regular value.
Info(state, throughput, start, end) ==
  [state |-> state, throughput |-> throughput, start |-> start, end |-> end, names |-> {}]
Raw(state) == CASE state = "online" -> 2 [] state = "joining" -> 1 [] state = "offline" -> -1
Record(info, more) ==
  Ext(64, Arr(<<Num(Raw(info.state)), Num(info.throughput),
                Map(<< <<Str("start_block"), Num(7)>>, <<Num(1), Num(1)>>,
                       <<Str("start_block"), Num(info.start)>>,
                       <<Str("end_block"), Num(info.end)>> >> \o more)>>))
Dictionary(entries) == Ext(80, Arr(<<Num(9), Num(0), Arr(entries)>>))
Entry(subkey, bytes) == Arr(<<subkey, Bin(bytes), Num(9)>>)

Said(p, info) == [wire |-> Entry(Str(p), Record(info, <<>>)), says |-> {<<p, info>>}]
SaidPacked(p, info) == [wire |-> Entry(Bin(Str(p)), Record(info, <<>>)), says |-> {<<p, info>>}]
Unread(wire) == [wire |-> wire, says |-> {}]

\* Entries that are none: no pair, an empty or unreadable name, a value that is
\* not opaque or decodes to no record, a record cut short.
NotAPair == Unread(Num(3))
Nameless == Unread(Entry(Str(Empty), Record(Info("online", 9, 0, 9), <<>>)))
Misnamed == Unread(Entry(Bin(Garbage), Record(Info("online", 9, 0, 9), <<>>)))
InTheOpen == Unread(Arr(<<Str(1), Num(2)>>))
Unreadable == Unread(Entry(Str(1), Garbage))
CutShort == Unread(Entry(Str(2), Ext(64, Arr(<<Num(2), Num(9)>>))))

Stored(entries) ==
  [type |-> DICTIONARY, bytes |-> Dictionary([i \in DOMAIN entries |-> entries[i].wire]),
   says |-> UNION {entries[i].says : i \in DOMAIN entries}]

One == Info("online", 1, 0, 1)
Long == Info("online", 3, 0, 5)
Early == Info("online", 3, -1, 1)
Gone == Info("offline", 4, 0, 2)
Idle == Info("joining", 3, 1, 2)
Coming == [Info("joining", 2, 1, 2) EXCEPT !.names = {2}]
Anonymous == [Info("online", 2, 0, 1) EXCEPT !.names = {Empty}]

MCBlockReplies ==
  { Stored(<<>>),
    Stored(<<Said(1, One)>>),
    Stored(<<Said(1, Long), NotAPair, SaidPacked(2, Early)>>),
    Stored(<<Nameless, InTheOpen, SaidPacked(1, Gone)>>),
    Stored(<<Misnamed, CutShort, Said(2, Gone), Unreadable>>),
    Stored(<<Said(1, Gone), Said(1, One), Said(3, Long)>>),
    Stored(<<Said(4, Early), Said(1, Gone)>>),
    Stored(<<SaidPacked(4, One), Said(2, Idle)>>),
    [type |-> REGULAR, bytes |-> Record(Coming, << <<Str("peer_id"), Str(2)>> >>),
     says |-> {<<2, Coming>>}],
    [type |-> REGULAR, bytes |-> Record(Anonymous, << <<Str("peer_id"), Str(Empty)>> >>),
     says |-> {<<Empty, Anonymous>>}],
    [type |-> REGULAR, bytes |-> Record(Long, <<>>), says |-> {}],
    [type |-> 3, bytes |-> Dictionary(<<Said(1, Long).wire>>), says |-> {}] }

\* Both models, one declared without its count; or bytes that are no registry.
Count(n) == Map(<< <<Str("num_blocks"), Num(n)>>, <<Str("num_blocks"), Num(0)>> >>)
MCRegistryReplies ==
  { [bytes |-> Dictionary(<<Entry(Str(1), Count(2)), NotAPair.wire, Entry(Str(2), Map(<<>>)),
                            Entry(Bin(Str(1)), Count(9))>>)],
    [bytes |-> Dictionary(<<Entry(Str(2), Count(9)), Entry(Str(1), Num(4))>>)],
    [bytes |-> Garbage] }

\* A capability map, then a server record, for one peer; and a peer of its own.
MCCapabilityReplies ==
  { [bytes |-> Dictionary(<<Entry(Str(1), Map(<<>>)), Entry(Str(3), Garbage)>>)],
    [bytes |-> Dictionary(<<Entry(Bin(Str(1)), Record(Gone, <<>>)), Misnamed.wire,
                            Entry(Str(2), Record(One, <<>>))>>)] }

MCPeers == 0 .. 4
MCExcluded == {3}
MCConnected == {2}
MCFallback == [m \in {3} |-> 1]
MCOverrides == {0, 4}
=============================================================================
