----------------------------- MODULE BootstrapSet -----------------------------
(***************************************************************************)
(* BootstrapSet of crawler.rs: the configured bootstraps and what one pass *)
(* has learned about each.  Entries are numbered in the configured order;  *)
(* the same address may be configured twice.                               *)
(***************************************************************************)
EXTENDS Naturals, Sequences

CONSTANTS
  Address,        \* multiaddrs an operator may configure
  Config,         \* BOOTSTRAP_PEERS: the configured addresses, in order
  WithPeerId,     \* addresses with "/p2p/" in them
  Queryable       \* addresses whose first "/p2p/" is followed by a peer id

Entries == 1 .. Len(Config)

\* main refuses to start without a bootstrap.
ASSUME ConfigAssumption ==
  /\ Config \in Seq(Address) /\ Config # <<>>
  /\ Queryable \subseteq WithPeerId /\ WithPeerId \subseteq Address

\* dialed: the dial did not error and no query has failed since.
\* answered: it answered a query this pass, which is what "online" means.
Entry == [dialed : BOOLEAN, answered : BOOLEAN]

NewEntries == [i \in Entries |-> [dialed |-> FALSE, answered |-> FALSE]]

HasDialable(entries) == \E i \in Entries : entries[i].dialed

\* Entries still worth asking.
Live(entries) == {i \in Entries : entries[i].dialed}

\* The entry `record` finds by its address: the first that has it.
EntryOf(addr) ==
  CHOOSE i \in Entries : Config[i] = addr /\ \A j \in Entries : Config[j] = addr => i <= j

\* Wrong variants: a failure does not drop the entry; a failure takes an
\* earlier answer back.
RecordWithoutDrop(entries, addr, answered) ==
  IF answered THEN [entries EXCEPT ![EntryOf(addr)].answered = TRUE] ELSE entries
RecordForgetting(entries, addr, answered) ==
  [entries EXCEPT ![EntryOf(addr)] = [dialed |-> answered, answered |-> answered]]

\* An answer marks the entry online for the pass; a failure only drops it.
Record(entries, addr, answered) ==
  IF answered THEN [entries EXCEPT ![EntryOf(addr)].answered = TRUE]
              ELSE [entries EXCEPT ![EntryOf(addr)].dialed = FALSE]

\* Wrong variant: online means still worth asking.
OnlineIfLive(entries) == {i \in Entries : entries[i].dialed /\ entries[i].answered}

\* bootstrap_states: the entries shown online.
Online(entries) == {i \in Entries : entries[i].answered}
=============================================================================
