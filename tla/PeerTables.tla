------------------------------ MODULE PeerTables ------------------------------
(***************************************************************************)
(* The peer tables of the nodes: how a node learns of others by a link, by *)
(* the seeds it starts with, by a push to its inbox and by the peers that  *)
(* gossip carries, and which key it checks a caller's signature with.  A   *)
(* node stands for its URL, its id, its bbox and its key.                  *)
(***************************************************************************)
EXTENDS Naturals, FiniteSets

CONSTANTS
    Host,          \* nodes
    NoPeer,        \* no row for the URL; a column that is null
    MaxPeerOps     \* bound: links, additions, removals, refreshes, pushes and pulls

ASSUME PeerAssumption == NoPeer \notin Host /\ MaxPeerOps \in Nat

VARIABLES
    peer,      \* peer[n][u]: what the table NodePeer of n holds of the URL u
    link,      \* link[n]: the peers of peers that calls of linkPeerUrl at n have to write yet
    pull,      \* the run of the gossip cron of each node
    peerOps,
    blank      \* history: nodes of which some table once held no bbox

peerVars == <<peer, link, pull, peerOps, blank>>

\* Each column is the node it is the id, bbox or key of.
PeerRow == [active : BOOLEAN, id : Host \cup {NoPeer}, bbox : Host \cup {NoPeer},
            key : Host \cup {NoPeer}]
\* An entry of the peers a node tells others of.
Entry == [url : Host, id : Host \cup {NoPeer}, bbox : Host \cup {NoPeer}]
\* A run of the cron: its next step, the peers left, the peer that answered and what it told.
Pulling(at, left, from, delta) == [at |-> at, left |-> left, from |-> from, delta |-> delta]
NoPull == Pulling("idle", {}, NoPeer, {})

PeerInit ==
    /\ peer = [n \in Host |-> [u \in Host |-> NoPeer]]
    /\ link = [n \in Host |-> {}]
    /\ pull = [n \in Host |-> NoPull]
    /\ peerOps = 0
    /\ blank = {}

PeerOp == peerOps < MaxPeerOps /\ peerOps' = peerOps + 1

ActivePeers(n) == {u \in Host : peer[n][u] # NoPeer /\ peer[n][u].active}
\* Rows that claim to be of node m.
RowsOf(n, m) == {u \in Host : peer[n][u] # NoPeer /\ peer[n][u].id = m}

IsSelfPeer(n, e) == e.url = n \/ e.id = n

\* An upsert keeps the columns it has no value for.
Coalesce(new, old) == IF new = NoPeer THEN old ELSE new
Upserted(old, id, bbox, key) ==
    IF old = NoPeer THEN [active |-> TRUE, id |-> id, bbox |-> bbox, key |-> key]
    ELSE [active |-> TRUE, id |-> Coalesce(id, old.id), bbox |-> Coalesce(bbox, old.bbox),
          key |-> Coalesce(key, old.key)]

\* The tables change in rows of n, and the nodes are noted that lack a bbox.
SetPeers(n, row) ==
    /\ peer' = [peer EXCEPT ![n] = row]
    /\ blank' = blank \cup {u \in Host : row[u] # NoPeer /\ row[u].bbox = NoPeer}
-----------------------------------------------------------------------------
(* Links. *)

\* GET nodeinfo of u: its active peers that do not carry its own id.
InfoOf(u) == {[url |-> v, id |-> peer[u][v].id, bbox |-> peer[u][v].bbox] :
                v \in {v \in ActivePeers(u) : peer[u][v].id # u}}

\* POST nodes: the row of u alone.
AddPeer(n, u) ==
    /\ PeerOp
    /\ u # n
    /\ SetPeers(n, [peer[n] EXCEPT ![u] = Upserted(@, u, u, u)])
    /\ UNCHANGED <<link, pull>>

\* linkPeerUrl for a seed: u and, one hop on, the peers it tells of.
LinkPeer(n, u) ==
    /\ PeerOp
    /\ u # n
    /\ SetPeers(n, [peer[n] EXCEPT ![u] = Upserted(@, u, u, u)])
    /\ link' = [link EXCEPT ![n] = @ \cup {e \in InfoOf(u) : ~IsSelfPeer(n, e)}]
    /\ UNCHANGED pull

\* The next of them, with the key its URL answers with, if it answers.
LinkRow(n, e) ==
    /\ e \in link[n]
    /\ \E key \in {e.url, NoPeer} :
         SetPeers(n, [peer[n] EXCEPT ![e.url] = Upserted(@, e.id, e.bbox, key)])
    /\ link' = [link EXCEPT ![n] = @ \ {e}]
    /\ UNCHANGED <<pull, peerOps>>

RemovePeer(n, u) ==
    /\ PeerOp
    /\ u \in ActivePeers(n)
    /\ SetPeers(n, [peer[n] EXCEPT ![u].active = FALSE])
    /\ UNCHANGED <<link, pull>>

\* POST nodes/refresh: each peer that was active when it began is updated when it
\* answers, in any order, and stays as it is when it was removed meanwhile.
RefreshPeer(n, u) ==
    /\ PeerOp
    /\ peer[n][u] # NoPeer
    /\ SetPeers(n, [peer[n] EXCEPT ![u] = [@ EXCEPT !.id = u, !.bbox = u, !.key = u]])
    /\ UNCHANGED <<link, pull>>
-----------------------------------------------------------------------------
(* POST inbox: n receives a push that m signed. *)

KeyOf(n, u) == IF u = NoPeer THEN NoPeer
               ELSE IF peer[n][u] = NoPeer THEN NoPeer ELSE peer[n][u].key

Verified(key, m) == key = m

\* Mutant: the key is fetched from the caller.
FetchKeyOfCaller(u, caller) == caller

\* The key a row gets: that of its URL, whoever calls.
FetchKey(u, caller) == u

\* The sender's URL is noted with the key that verified.
Accept(rows, m, key) ==
    IF ~Verified(key, m) THEN rows
    ELSE [rows EXCEPT ![m] = IF @ = NoPeer THEN Upserted(@, NoPeer, NoPeer, key)
                             ELSE [@ EXCEPT !.active = TRUE]]

\* The key is that of an active row c that claims to be m, else that of m's URL.
\* With neither it is fetched: from the URL of c, and kept there, or from m's
\* URL, which then has a row before anything is verified.
ReceivePush(n, m) ==
    LET claimed == RowsOf(n, m) \cap ActivePeers(n) IN
    /\ PeerOp
    /\ m # n
    /\ \E c \in IF claimed = {} THEN {NoPeer} ELSE claimed :
         LET known == Coalesce(KeyOf(n, c), KeyOf(n, m)) IN
         \/ /\ known # NoPeer
            /\ SetPeers(n, Accept(peer[n], m, known))
         \/ /\ known = NoPeer /\ c # NoPeer
            /\ SetPeers(n, Accept([peer[n] EXCEPT ![c].key = FetchKey(c, m)], m, FetchKey(c, m)))
         \/ /\ known = NoPeer
            /\ SetPeers(n, Accept([peer[n] EXCEPT ![m] = Upserted(@, NoPeer, NoPeer, m)], m, m))
    /\ UNCHANGED <<link, pull>>
-----------------------------------------------------------------------------
(* The gossip cron of n: for each active peer its snapshot, the ingest of    *)
(* the peers in it, and the note of the peer.                                *)

StartPull(n) ==
    /\ PeerOp
    /\ pull[n].at = "idle" /\ ActivePeers(n) # {}
    /\ LET left == {u \in ActivePeers(n) : ~IsSelfPeer(n, [url |-> u, id |-> peer[n][u].id])}
       IN pull' = [pull EXCEPT ![n] = Pulling("next", left, NoPeer, {})]
    /\ UNCHANGED <<peer, link, blank>>

\* Mutant: the bbox of a peer is that of the node that tells of it.
SnapshotPeersOwn(u) ==
    {[url |-> v, id |-> Coalesce(peer[u][v].id, u), bbox |-> u] : v \in ActivePeers(u)}

\* The peers in a snapshot of u: what is not known of one is filled in with u's.
SnapshotPeers(u) ==
    {[url |-> v, id |-> Coalesce(peer[u][v].id, u), bbox |-> Coalesce(peer[u][v].bbox, u)] :
       v \in ActivePeers(u)}

\* requireNodeAuth of u for a caller n: the first row that claims to be n, active or
\* not, must hold its key; without one it gets that of its URL, which stays, also
\* when the signature then fails.
GetSnapshot(n, u) ==
    /\ pull[n].at = "next" /\ u \in pull[n].left
    /\ \E v \in RowsOf(u, n) :
         LET key == Coalesce(peer[u][v].key, FetchKey(v, n)) IN
         /\ SetPeers(u, [peer[u] EXCEPT ![v].key = key])
         /\ pull' = [pull EXCEPT ![n] =
              IF Verified(key, n) THEN Pulling("ingest", @.left \ {u}, u, SnapshotPeers(u))
              ELSE Pulling("next", @.left \ {u}, NoPeer, {})]
    /\ UNCHANGED <<link, peerOps>>

\* Refused, unreachable, or timed out.
SkipPeer(n, u) ==
    /\ pull[n].at = "next" /\ u \in pull[n].left
    /\ pull' = [pull EXCEPT ![n].left = @ \ {u}]
    /\ UNCHANGED <<peer, link, peerOps, blank>>

\* The ingest fails or takes too long: the peer is not noted.
IngestFails(n) ==
    /\ pull[n].at = "ingest"
    /\ pull' = [pull EXCEPT ![n] = Pulling("next", @.left, NoPeer, {})]
    /\ UNCHANGED <<peer, link, peerOps, blank>>

EndPull(n) ==
    /\ pull[n].at = "next" /\ pull[n].left = {}
    /\ pull' = [pull EXCEPT ![n] = NoPull]
    /\ UNCHANGED <<peer, link, peerOps, blank>>

Foreign(n, delta) == {e \in delta : ~IsSelfPeer(n, e)}

\* upsertRemotePeers, one of its upserts: the peer is active from now on.
IngestPeer(n, e) ==
    /\ pull[n].at = "ingest" /\ e \in Foreign(n, pull[n].delta)
    /\ SetPeers(n, [peer[n] EXCEPT ![e.url] = Upserted(@, e.id, e.bbox, NoPeer)])
    /\ pull' = [pull EXCEPT ![n].delta = @ \ {e}]
    /\ UNCHANGED <<link, peerOps>>

\* The peer answered: it is active, also when it was removed meanwhile.
NotePeer(n) ==
    LET u == pull[n].from IN
    /\ pull[n].at = "ingest" /\ Foreign(n, pull[n].delta) = {}
    /\ SetPeers(n, [peer[n] EXCEPT ![u] = Upserted(@, u, NoPeer, NoPeer)])
    /\ pull' = [pull EXCEPT ![n] = Pulling("next", @.left, NoPeer, {})]
    /\ UNCHANGED <<link, peerOps>>

PeerNext ==
    \/ \E n, u \in Host :
         \/ AddPeer(n, u) \/ LinkPeer(n, u) \/ RemovePeer(n, u) \/ ReceivePush(n, u)
         \/ RefreshPeer(n, u) \/ GetSnapshot(n, u) \/ SkipPeer(n, u)
    \/ \E n \in Host :
         \/ StartPull(n) \/ EndPull(n) \/ NotePeer(n) \/ IngestFails(n)
         \/ \E e \in link[n] : LinkRow(n, e)
         \/ \E e \in pull[n].delta : IngestPeer(n, e)

PeerSpec == PeerInit /\ [][PeerNext]_peerVars
-----------------------------------------------------------------------------
(* GET peers/resolve: the peers whose bbox a place lies in. *)

Resolved(n, place) ==
    IF place = n THEN {n} ELSE {u \in ActivePeers(n) : peer[n][u].bbox = place}

\* The types of the variables; no node is its own peer.
PeerTypeOK ==
    /\ peer \in [Host -> [Host -> PeerRow \cup {NoPeer}]]
    /\ \A n \in Host : peer[n][n] = NoPeer
    /\ \A n \in Host : /\ pull[n].at \in {"idle", "next", "ingest"}
                       /\ pull[n].left \subseteq Host /\ pull[n].from \in Host \cup {NoPeer}
                       /\ pull[n].delta \subseteq Entry /\ link[n] \subseteq Entry
    /\ peerOps \in Nat /\ blank \in SUBSET Host

\* The key stored for a URL is the key of the node at that URL, though rows may
\* carry the id of another node and keys are taken from rows found by id.
KeyIsOfItsPeer ==
    \A n, u \in Host : peer[n][u] # NoPeer => peer[n][u].key \in {u, NoPeer}

\* A client is sent to a node that does not cover the place it asked for only
\* if some node, told of that one by a push, had no bbox for it: its snapshots
\* give it their own.
ResolvedCoversPlace ==
    \A n, place \in Host : Resolved(n, place) \subseteq {place} \cup blank
=============================================================================
