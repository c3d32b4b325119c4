-------------------------------- MODULE Probes --------------------------------
(***************************************************************************)
(* The reachability probes behind /api/v1/is_reachable (reachability.rs)   *)
(* and the location pass of the crawl (connect_discovered_peers and        *)
(* observed_addrs, crawler.rs): two users of one swarm.  Requests run      *)
(* concurrently, with each other and with the crawl; they share the verdict*)
(* cache and the swarm's connections, and a probe hangs up by peer id, so  *)
(* it closes whatever connection the crawl or the peer itself had opened.  *)
(***************************************************************************)
EXTENDS Naturals

CONSTANTS
  Ids,          \* peer ids
  NotIds,       \* path parameters that do not parse as a peer id
  Clients,      \* concurrent requests
  MaxAddrs,     \* bound on the addresses the snapshot lists for a peer
  TTL,          \* CACHE_TTL
  MaxTime       \* bound on the clock of a behaviour

Names == Ids \cup NotIds
NoVerdict == [ok |-> FALSE, at |-> 0]

ASSUME ProbesAssumption ==
  /\ Ids \cap NotIds = {} /\ Names # {}
  /\ MaxAddrs \in Nat /\ TTL \in Nat \ {0} /\ MaxTime \in Nat \ {0}

VARIABLES
  clock,      \* Instant::now(); the process starts at 1
  cache,      \* name -> verdict and when it was stored, NoVerdict before
  phase,      \* client -> where its request is
  asked,      \* client -> the name it is probing
  left,       \* client -> candidate addresses left to dial
  ok,         \* client -> outcome of its dials
  conns,      \* peers the swarm holds a connection to
  pass,       \* where the location pass is
  todo,       \* peers the location pass has still to dial
  errors,     \* peers its dial failed for
  issues,     \* peers reported unreachable by the last pass
  stored,     \* history: name -> verdict -> when it was last reached, or 0
  reached     \* history: peers whose dial succeeded in the last pass

probe == <<phase, asked, left, ok>>
location == <<pass, todo, errors, issues, reached>>
vars == <<clock, cache, probe, conns, location, stored>>

Nobody == CHOOSE n \in Names : TRUE

Init ==
  /\ clock = 1
  /\ cache = [n \in Names |-> NoVerdict]
  /\ phase = [c \in Clients |-> "idle"]
  /\ asked = [c \in Clients |-> Nobody]
  /\ left = [c \in Clients |-> 0]
  /\ ok = [c \in Clients |-> FALSE]
  /\ conns = {}
  /\ pass = "off" /\ todo = {} /\ errors = {} /\ issues = {}
  /\ stored = [n \in Names |-> [v \in BOOLEAN |-> 0]] /\ reached = {}

-----------------------------------------------------------------------------
(* A request: check, and dial when the cache has no fresh verdict.         *)

Fresh(name) == cache[name].at # 0 /\ clock - cache[name].at < TTL

\* Wrong variant: a hit makes the verdict young again.
HitTouching(c, name) ==
  /\ phase[c] = "idle" /\ Fresh(name)
  /\ cache' = [cache EXCEPT ![name].at = clock]
  /\ UNCHANGED <<clock, probe, conns, location, stored>>

\* The verdict is in the cache and fresh: it is answered, and nothing changes.
Hit(c, name) ==
  /\ phase[c] = "idle" /\ Fresh(name)
  /\ UNCHANGED vars

\* It is not: the known addresses are dialed in order, then the bare id.  A
\* name that is no peer id fails before the first dial.
Miss(c, name, addrs) ==
  /\ phase[c] = "idle" /\ ~Fresh(name)
  /\ asked' = [asked EXCEPT ![c] = name]
  /\ left' = [left EXCEPT ![c] = IF name \in Ids THEN addrs + 1 ELSE 0]
  /\ phase' = [phase EXCEPT ![c] = IF name \in Ids THEN "dialing" ELSE "storing"]
  /\ UNCHANGED <<clock, cache, ok, conns, location, stored>>

\* connect_peer answers Ok from the swarm's own connection record.
AlreadyConnected(c) ==
  /\ phase[c] = "dialing" /\ asked[c] \in conns
  /\ phase' = [phase EXCEPT ![c] = "hanging up"]
  /\ UNCHANGED <<clock, cache, asked, left, ok, conns, location, stored>>

\* The peer accepts the dial.
Accepted(c) ==
  /\ phase[c] = "dialing"
  /\ conns' = conns \cup {asked[c]}
  /\ phase' = [phase EXCEPT ![c] = "hanging up"]
  /\ UNCHANGED <<clock, cache, asked, left, ok, location, stored>>

\* Wrong variant: one candidate too many.
RefusedLate(c) ==
  /\ phase[c] = "dialing"
  /\ left' = [left EXCEPT ![c] = @ - 1]
  /\ phase' = [phase EXCEPT ![c] = IF left[c] = 0 THEN "storing" ELSE @]
  /\ UNCHANGED <<clock, cache, asked, ok, conns, location, stored>>

\* The dial errs or takes longer than DIAL_TIMEOUT: on to the next candidate.
Refused(c) ==
  /\ phase[c] = "dialing"
  /\ left' = [left EXCEPT ![c] = @ - 1]
  /\ phase' = [phase EXCEPT ![c] = IF left[c] = 1 THEN "storing" ELSE @]
  /\ UNCHANGED <<clock, cache, asked, ok, conns, location, stored>>

\* Wrong variant: it waits for a connection to close.
HangUpWhenConnected(c) ==
  /\ phase[c] = "hanging up" /\ asked[c] \in conns
  /\ conns' = conns \ {asked[c]}
  /\ ok' = [ok EXCEPT ![c] = TRUE]
  /\ phase' = [phase EXCEPT ![c] = "storing"]
  /\ UNCHANGED <<clock, cache, asked, left, location, stored>>

\* disconnect_peer: every connection to the peer, whoever opened it.
HangUp(c) ==
  /\ phase[c] = "hanging up"
  /\ conns' = conns \ {asked[c]}
  /\ ok' = [ok EXCEPT ![c] = TRUE]
  /\ phase' = [phase EXCEPT ![c] = "storing"]
  /\ UNCHANGED <<clock, cache, asked, left, location, stored>>

\* The response is sent and the request is gone with its locals.
Reply(c) ==
  /\ phase' = [phase EXCEPT ![c] = "idle"] /\ asked' = [asked EXCEPT ![c] = Nobody]
  /\ left' = [left EXCEPT ![c] = 0] /\ ok' = [ok EXCEPT ![c] = FALSE]

\* Wrong variant: only a success is worth remembering.
StoreSuccess(c) ==
  /\ phase[c] = "storing"
  /\ cache' = IF ok[c] THEN [cache EXCEPT ![asked[c]] = [ok |-> TRUE, at |-> clock]] ELSE cache
  /\ stored' = [stored EXCEPT ![asked[c]][ok[c]] = clock]
  /\ Reply(c)
  /\ UNCHANGED <<clock, conns, location>>

\* The verdict is stored, success or failure, and answered.
Store(c) ==
  /\ phase[c] = "storing"
  /\ cache' = [cache EXCEPT ![asked[c]] = [ok |-> ok[c], at |-> clock]]
  /\ stored' = [stored EXCEPT ![asked[c]][ok[c]] = clock]
  /\ Reply(c)
  /\ UNCHANGED <<clock, conns, location>>

-----------------------------------------------------------------------------
(* The location pass, once per crawl.                                      *)

StartPass(targets) ==
  /\ pass = "off"
  /\ pass' = "dialing" /\ todo' = targets
  /\ errors' = {} /\ issues' = {} /\ reached' = {}
  /\ UNCHANGED <<clock, cache, probe, conns, stored>>

\* One of the dials that run together ends: Ok, be it because the peer was
\* connected already, or an error or PEER_DIAL_TIMEOUT.
DialTarget(p, success) ==
  /\ pass = "dialing" /\ p \in todo
  /\ conns' = IF success THEN conns \cup {p} ELSE conns
  /\ errors' = IF success THEN errors ELSE errors \cup {p}
  /\ reached' = IF success THEN reached \cup {p} ELSE reached
  /\ todo' = todo \ {p}
  /\ UNCHANGED <<clock, cache, probe, pass, issues, stored>>

\* Wrong variant: the listing waits for every peer the pass reached.
ListWhenConnected ==
  /\ pass = "dialing" /\ todo = {} /\ reached \subseteq conns
  /\ pass' = "off"
  /\ issues' = errors
  /\ UNCHANGED <<clock, cache, probe, conns, todo, errors, reached, stored>>

\* Wrong variant: a peer the listing does not have is taken for unreachable.
ListByAbsence ==
  /\ pass = "dialing" /\ todo = {}
  /\ pass' = "off"
  /\ issues' = (errors \cup reached) \ conns
  /\ UNCHANGED <<clock, cache, probe, conns, todo, errors, reached, stored>>

\* observed_addrs reads the connections; the issues are the failed dials.
ListPeers ==
  /\ pass = "dialing" /\ todo = {}
  /\ pass' = "off"
  /\ issues' = errors
  /\ UNCHANGED <<clock, cache, probe, conns, todo, errors, reached, stored>>

-----------------------------------------------------------------------------
(* The network and the clock.                                              *)

\* A peer dials the observer, or the swarm's idle timeout or the peer closes.
Inbound(p) ==
  /\ p \notin conns
  /\ conns' = conns \cup {p}
  /\ UNCHANGED <<clock, cache, probe, location, stored>>

Closed(p) ==
  /\ p \in conns
  /\ conns' = conns \ {p}
  /\ UNCHANGED <<clock, cache, probe, location, stored>>

Tick ==
  /\ clock < MaxTime
  /\ clock' = clock + 1
  /\ UNCHANGED <<cache, probe, conns, location, stored>>

-----------------------------------------------------------------------------
\* What a request does on its own once it has missed the cache.
Probe(c) == AlreadyConnected(c) \/ Accepted(c) \/ Refused(c) \/ HangUp(c) \/ Store(c)

Locate == (\E p \in Ids, success \in BOOLEAN : DialTarget(p, success)) \/ ListPeers

Next ==
  \/ \E c \in Clients, n \in Names : Hit(c, n) \/ \E addrs \in 0 .. MaxAddrs : Miss(c, n, addrs)
  \/ \E c \in Clients : Probe(c)
  \/ \E targets \in SUBSET Ids : StartPass(targets)
  \/ Locate
  \/ \E p \in Ids : Inbound(p) \/ Closed(p)
  \/ Tick

Spec == Init /\ [][Next]_vars

\* Every dial has a timeout in this code, and the swarm task answers every
\* command; the handlers and the crawl are tasks the runtime keeps polling.
FairSpec == Spec /\ (\A c \in Clients : WF_vars(Probe(c))) /\ WF_vars(Locate)

-----------------------------------------------------------------------------
Phases == {"idle", "dialing", "hanging up", "storing"}

\* The type invariant; a probe that dials has a candidate left.
TypeOK ==
  /\ clock \in 1 .. MaxTime
  /\ cache \in [Names -> [ok : BOOLEAN, at : 0 .. clock]]
  /\ phase \in [Clients -> Phases]
  /\ asked \in [Clients -> Names]
  /\ left \in [Clients -> 0 .. MaxAddrs + 1]
  /\ \A c \in Clients : phase[c] = "dialing" => asked[c] \in Ids /\ left[c] > 0
  /\ ok \in [Clients -> BOOLEAN]
  /\ conns \subseteq Ids
  /\ pass \in {"off", "dialing"}
  /\ todo \cup errors \cup issues \cup reached \subseteq Ids
  /\ stored \in [Names -> [BOOLEAN -> 0 .. clock]]

\* No answer from the cache repeats a verdict that was last reached longer ago
\* than the expiry, however requests for one peer overlap and overwrite each
\* other's verdicts (check).
AnswersBacked ==
  \A n \in Names : Fresh(n) =>
    LET at == stored[n][cache[n].ok] IN at # 0 /\ clock - at < TTL

\* "Matches v1's cache expiry. A probe is a real dial": a name any request got
\* a verdict for is not probed again before the expiry, whatever the verdict
\* was and whichever request stored it.
NoProbeBeforeExpiry ==
  [][\A c \in Clients : phase[c] = "idle" /\ phase'[c] # "idle" =>
       \A v \in BOOLEAN : LET at == stored[asked'[c]][v] IN at # 0 => clock - at >= TTL]_vars

\* A failed dial is the only evidence of an issue: a peer the pass did reach is
\* not reported unreachable because a probe, the peer or the idle timeout
\* closed the connection before the listing (connect_discovered_peers).
IssuesOnlyFailedDials == issues \cap reached = {}

\* Every request is answered, whatever the peer does and whoever else dials it.
ProbesEnd == \A c \in Clients : (phase[c] # "idle") ~> (phase[c] = "idle")

\* Every location pass gets to its listing, probes running alongside or not.
PassesEnd == (pass = "dialing") ~> (pass = "off")
=============================================================================
