-------------------------- MODULE PeerTables_proofs --------------------------
(***************************************************************************)
(* Theorems about PeerTables for any set of nodes: a key is stored under   *)
(* the URL it was fetched from, whoever told of it, and a client is sent   *)
(* to the node of the place it asked for or to one whose bbox a push left  *)
(* out.                                                                    *)
(***************************************************************************)
EXTENDS PeerTables, TLAPS

Maybe == Host \cup {NoPeer}

\* A row under the URL u, and a table of node n.
RowSound(u, r) == r = NoPeer \/ (r \in PeerRow /\ r.key \in {u, NoPeer})
TableSound(n, row) ==
    /\ row \in [Host -> PeerRow \cup {NoPeer}]
    /\ row[n] = NoPeer
    /\ \A u \in Host : RowSound(u, row[u])

\* A run of the cron never deals with the node itself.
PullSound(n) ==
    /\ pull[n].at \in {"idle", "next", "ingest"}
    /\ pull[n].left \subseteq Host \ {n}
    /\ pull[n].from \in Maybe
    /\ pull[n].at = "ingest" => pull[n].from \in Host \ {n}
    /\ pull[n].delta \subseteq Entry

Pull == [at : {"idle", "next", "ingest"}, left : SUBSET Host, from : Maybe,
         delta : SUBSET Entry]

PeerIInv ==
    /\ peer \in [Host -> [Host -> PeerRow \cup {NoPeer}]]
    /\ \A n \in Host : TableSound(n, peer[n])
    /\ pull \in [Host -> Pull]
    /\ \A n \in Host : PullSound(n)
    /\ link \in [Host -> SUBSET Entry]
    /\ \A n \in Host : \A e \in link[n] : e.url # n
    /\ peerOps \in Nat
    /\ blank \in SUBSET Host

\* Records of the type Pull, and changes of their fields.
LEMMA PullRecord ==
    ASSUME NEW at \in {"idle", "next", "ingest"}, NEW left \in SUBSET Host,
           NEW from \in Maybe, NEW delta \in SUBSET Entry
    PROVE  /\ Pulling(at, left, from, delta) \in Pull
           /\ Pulling(at, left, from, delta).at = at /\ Pulling(at, left, from, delta).left = left
           /\ Pulling(at, left, from, delta).from = from
  BY DEF Pull, Pulling

LEMMA PullFields ==
    ASSUME NEW q \in Pull
    PROVE  /\ q = [at |-> q.at, left |-> q.left, from |-> q.from, delta |-> q.delta]
           /\ q.at \in {"idle", "next", "ingest"} /\ q.left \in SUBSET Host
           /\ q.from \in Maybe /\ q.delta \in SUBSET Entry
  BY DEF Pull

\* No table has a row at first.
LEMMA InitPeerIInv == PeerInit => PeerIInv
  <1> SUFFICES ASSUME PeerInit PROVE PeerIInv
    OBVIOUS
  <1>1. NoPull \in Pull
    BY PullRecord DEF NoPull, Maybe
  <1>2. peer \in [Host -> [Host -> PeerRow \cup {NoPeer}]] /\ \A n \in Host : TableSound(n, peer[n])
    BY DEF PeerInit, TableSound, RowSound
  <1>3. pull \in [Host -> Pull] /\ \A n \in Host : pull[n] = NoPull
    BY <1>1 DEF PeerInit
  <1>4. \A n \in Host : PullSound(n)
    BY <1>3 DEF PullSound, NoPull, Pulling, Maybe
  <1> QED
    BY <1>2, <1>3, <1>4 DEF PeerInit, PeerIInv

\* An upsert with a key fetched from the URL keeps the row sound.
LEMMA UpsertedSound ==
    ASSUME NEW u \in Host, NEW old, RowSound(u, old),
           NEW id \in Maybe, NEW bbox \in Maybe, NEW key \in {u, NoPeer}
    PROVE  Upserted(old, id, bbox, key) \in PeerRow /\ RowSound(u, Upserted(old, id, bbox, key))
  BY PeerAssumption DEF RowSound, Upserted, Coalesce, PeerRow, Maybe

\* A sound table in the place of another one.
LEMMA SetPeersSound ==
    ASSUME PeerIInv, NEW n \in Host, NEW row, TableSound(n, row), SetPeers(n, row)
    PROVE  /\ peer' \in [Host -> [Host -> PeerRow \cup {NoPeer}]]
           /\ \A m \in Host : TableSound(m, peer'[m])
           /\ blank' \in SUBSET Host
  <1>1. peer' = [peer EXCEPT ![n] = row] /\ blank' \in SUBSET Host
    BY DEF SetPeers, PeerIInv
  <1>2. row \in [Host -> PeerRow \cup {NoPeer}]
    BY DEF TableSound
  <1>3. \A m \in Host : peer'[m] = IF m = n THEN row ELSE peer[m]
    BY <1>1 DEF PeerIInv
  <1> QED
    BY <1>1, <1>2, <1>3 DEF PeerIInv

\* Another set of peers to link at a node.
LEMMA LinkStep ==
    ASSUME PeerIInv, NEW n \in Host, NEW s \in SUBSET Entry, \A e \in s : e.url # n,
           link' = [link EXCEPT ![n] = s]
    PROVE  link' \in [Host -> SUBSET Entry] /\ \A m \in Host : \A e \in link'[m] : e.url # m
  <1>1. link' \in [Host -> SUBSET Entry] /\ \A m \in Host : link'[m] = IF m = n THEN s ELSE link[m]
    BY DEF PeerIInv
  <1> QED
    BY <1>1 DEF PeerIInv

\* So does a step that leaves the pulls alone.
LEMMA TableStep ==
    ASSUME PeerIInv, NEW n \in Host, NEW row, TableSound(n, row), SetPeers(n, row),
           link' \in [Host -> SUBSET Entry], \A m \in Host : \A e \in link'[m] : e.url # m,
           UNCHANGED pull, peerOps' \in Nat
    PROVE  PeerIInv'
  <1>1. /\ peer' \in [Host -> [Host -> PeerRow \cup {NoPeer}]]
        /\ \A m \in Host : TableSound(m, peer'[m])
        /\ blank' \in SUBSET Host
    BY SetPeersSound
  <1> QED
    BY <1>1 DEF PeerIInv, TableSound, RowSound, PullSound

LEMMA OwnTableStep ==
    ASSUME PeerIInv, NEW n \in Host, NEW row, TableSound(n, row), SetPeers(n, row),
           UNCHANGED <<link, pull>>, PeerOp
    PROVE  PeerIInv'
  <1>1. /\ link' \in [Host -> SUBSET Entry] /\ \A m \in Host : \A e \in link'[m] : e.url # m
        /\ peerOps' \in Nat
    BY DEF PeerIInv, PeerOp
  <1> QED
    BY <1>1, TableStep

\* Adding a peer by hand.
LEMMA AddPeerIInv ==
    ASSUME PeerIInv, NEW n \in Host, NEW u \in Host, AddPeer(n, u)
    PROVE  PeerIInv'
  <1> DEFINE row == [peer[n] EXCEPT ![u] = Upserted(@, u, u, u)]
  <1>1. TableSound(n, peer[n]) /\ u # n
    BY DEF PeerIInv, AddPeer
  <1>2. Upserted(peer[n][u], u, u, u) \in PeerRow /\ RowSound(u, Upserted(peer[n][u], u, u, u))
    BY <1>1, UpsertedSound DEF TableSound, Maybe
  <1>3. TableSound(n, row)
    BY <1>1, <1>2 DEF TableSound
  <1> QED
    BY <1>3, OwnTableStep DEF AddPeer

\* What a node tells of its peers are entries.
LEMMA InfoEntries == ASSUME PeerIInv, NEW u \in Host PROVE InfoOf(u) \subseteq Entry
  BY DEF PeerIInv, TableSound, InfoOf, ActivePeers, PeerRow, Entry

\* Linking a seed: none of the peers it tells of is the node itself.
LEMMA LinkPeerIInv ==
    ASSUME PeerIInv, NEW n \in Host, NEW u \in Host, LinkPeer(n, u)
    PROVE  PeerIInv'
  <1> DEFINE row == [peer[n] EXCEPT ![u] = Upserted(@, u, u, u)]
             s == link[n] \cup {e \in InfoOf(u) : ~IsSelfPeer(n, e)}
  <1>1. TableSound(n, peer[n]) /\ u # n
    BY DEF PeerIInv, LinkPeer
  <1>2. Upserted(peer[n][u], u, u, u) \in PeerRow /\ RowSound(u, Upserted(peer[n][u], u, u, u))
    BY <1>1, UpsertedSound DEF TableSound, Maybe
  <1>3. TableSound(n, row)
    BY <1>1, <1>2 DEF TableSound
  <1>4. s \in SUBSET Entry /\ \A e \in s : e.url # n
    BY InfoEntries DEF PeerIInv, IsSelfPeer
  <1>5. link' = [link EXCEPT ![n] = s] /\ SetPeers(n, row)
    BY DEF LinkPeer
  <1> HIDE DEF s, row
  <1>6. link' \in [Host -> SUBSET Entry] /\ \A m \in Host : \A e \in link'[m] : e.url # m
    BY <1>4, <1>5, LinkStep
  <1>7. peerOps' \in Nat /\ UNCHANGED pull
    BY DEF LinkPeer, PeerOp, PeerIInv
  <1> QED
    BY <1>3, <1>5, <1>6, <1>7, TableStep

\* The key of a peer's peer comes from that peer's own URL.
LEMMA LinkRowIInv ==
    ASSUME PeerIInv, NEW n \in Host, NEW e \in link[n], LinkRow(n, e)
    PROVE  PeerIInv'
  <1>1. PICK key \in {e.url, NoPeer} :
           SetPeers(n, [peer[n] EXCEPT ![e.url] = Upserted(@, e.id, e.bbox, key)])
    BY DEF LinkRow
  <1> DEFINE row == [peer[n] EXCEPT ![e.url] = Upserted(@, e.id, e.bbox, key)]
  <1>2. TableSound(n, peer[n]) /\ e \in Entry /\ e.url # n /\ link[n] \in SUBSET Entry
    BY DEF PeerIInv
  <1>3. e.url \in Host /\ e.id \in Maybe /\ e.bbox \in Maybe
    BY <1>2 DEF Entry, Maybe
  <1>4. /\ Upserted(peer[n][e.url], e.id, e.bbox, key) \in PeerRow
        /\ RowSound(e.url, Upserted(peer[n][e.url], e.id, e.bbox, key))
    BY <1>2, <1>3, UpsertedSound DEF TableSound
  <1>5. TableSound(n, row)
    BY <1>2, <1>3, <1>4 DEF TableSound
  <1>6. link' = [link EXCEPT ![n] = link[n] \ {e}]
    BY DEF LinkRow
  <1>7. link' \in [Host -> SUBSET Entry] /\ \A m \in Host : \A f \in link'[m] : f.url # m
    <2>1. link[n] \ {e} \in SUBSET Entry /\ \A f \in link[n] \ {e} : f.url # n
      BY <1>2 DEF PeerIInv
    <2> QED
      BY <1>6, <2>1, LinkStep
  <1>8. peerOps' \in Nat /\ UNCHANGED pull
    BY DEF LinkRow, PeerIInv
  <1> HIDE DEF row
  <1>9. SetPeers(n, row)
    BY <1>1 DEF row
  <1> QED
    BY <1>5, <1>7, <1>8, <1>9, TableStep

\* Removing a peer.
LEMMA RemovePeerIInv ==
    ASSUME PeerIInv, NEW n \in Host, NEW u \in Host, RemovePeer(n, u)
    PROVE  PeerIInv'
  <1>1. TableSound(n, peer[n]) /\ peer[n][u] \in PeerRow /\ peer[n][u] # NoPeer
    BY DEF PeerIInv, RemovePeer, ActivePeers, TableSound, RowSound
  <1>2. [peer[n][u] EXCEPT !.active = FALSE] \in PeerRow
        /\ [peer[n][u] EXCEPT !.active = FALSE].key = peer[n][u].key
    BY <1>1 DEF PeerRow
  <1>3. TableSound(n, [peer[n] EXCEPT ![u].active = FALSE])
    BY <1>1, <1>2 DEF TableSound, RowSound
  <1> QED
    BY <1>3, OwnTableStep DEF RemovePeer

\* Refreshing a peer that answers.
LEMMA RefreshPeerIInv ==
    ASSUME PeerIInv, NEW n \in Host, NEW u \in Host, RefreshPeer(n, u)
    PROVE  PeerIInv'
  <1> DEFINE r == [peer[n][u] EXCEPT !.id = u, !.bbox = u, !.key = u]
  <1>1. TableSound(n, peer[n]) /\ peer[n][u] \in PeerRow /\ u # n
    BY DEF PeerIInv, TableSound, RefreshPeer
  <1>2. r \in PeerRow /\ r.key = u
    BY <1>1 DEF PeerRow
  <1> HIDE DEF r
  <1>3. TableSound(n, [peer[n] EXCEPT ![u] = r])
    BY <1>1, <1>2 DEF TableSound, RowSound
  <1>4. SetPeers(n, [peer[n] EXCEPT ![u] = r])
    BY DEF RefreshPeer, r
  <1> QED
    BY <1>3, <1>4, OwnTableStep DEF RefreshPeer

\* A push that verified, or not: the sender's row takes the key that did.
LEMMA AcceptSound ==
    ASSUME NEW n \in Host, NEW m \in Host, m # n, NEW row, TableSound(n, row), NEW key
    PROVE  TableSound(n, Accept(row, m, key))
  <1>1. CASE key # m
    BY <1>1 DEF Accept, Verified
  <1>2. CASE key = m /\ row[m] = NoPeer
    <2>1. Upserted(row[m], NoPeer, NoPeer, m) \in PeerRow
          /\ RowSound(m, Upserted(row[m], NoPeer, NoPeer, m))
      BY <1>2, UpsertedSound DEF TableSound, Maybe
    <2>2. Accept(row, m, key) = [row EXCEPT ![m] = Upserted(row[m], NoPeer, NoPeer, m)]
      BY <1>2 DEF Accept, Verified
    <2> QED
      BY <2>1, <2>2 DEF TableSound
  <1>3. CASE key = m /\ row[m] # NoPeer
    <2>1. row[m] \in PeerRow
      BY <1>3 DEF TableSound
    <2>2. [row[m] EXCEPT !.active = TRUE] \in PeerRow
          /\ [row[m] EXCEPT !.active = TRUE].key = row[m].key
      BY <2>1 DEF PeerRow
    <2>3. Accept(row, m, key) = [row EXCEPT ![m] = [row[m] EXCEPT !.active = TRUE]]
      BY <1>3 DEF Accept, Verified
    <2> QED
      BY <1>3, <2>2, <2>3 DEF TableSound, RowSound
  <1> QED
    BY <1>1, <1>2, <1>3

\* A push: the key is fetched from the URL it is stored under.
LEMMA ReceivePushIInv ==
    ASSUME PeerIInv, NEW n \in Host, NEW m \in Host, ReceivePush(n, m)
    PROVE  PeerIInv'
  <1>1. TableSound(n, peer[n]) /\ m # n
    BY DEF PeerIInv, ReceivePush
  <1>2. ASSUME NEW key, SetPeers(n, Accept(peer[n], m, key))
        PROVE  PeerIInv'
    BY <1>1, <1>2, AcceptSound, OwnTableStep DEF ReceivePush
  <1>3. ASSUME NEW c \in RowsOf(n, m), SetPeers(n, Accept([peer[n] EXCEPT ![c].key = c], m, c))
        PROVE  PeerIInv'
    <2>1. c \in Host /\ c # n /\ peer[n][c] \in PeerRow
      BY <1>1 DEF RowsOf, TableSound
    <2>2. [peer[n][c] EXCEPT !.key = c] \in PeerRow /\ [peer[n][c] EXCEPT !.key = c].key = c
      BY <2>1 DEF PeerRow
    <2>3. TableSound(n, [peer[n] EXCEPT ![c].key = c])
      BY <1>1, <2>1, <2>2 DEF TableSound, RowSound
    <2> QED
      BY <1>1, <1>3, <2>3, AcceptSound, OwnTableStep DEF ReceivePush
  <1>4. ASSUME SetPeers(n, Accept([peer[n] EXCEPT ![m] = Upserted(@, NoPeer, NoPeer, m)], m, m))
        PROVE  PeerIInv'
    <2>1. Upserted(peer[n][m], NoPeer, NoPeer, m) \in PeerRow
          /\ RowSound(m, Upserted(peer[n][m], NoPeer, NoPeer, m))
      BY <1>1, UpsertedSound DEF TableSound, Maybe
    <2>2. TableSound(n, [peer[n] EXCEPT ![m] = Upserted(@, NoPeer, NoPeer, m)])
      BY <1>1, <2>1 DEF TableSound
    <2> QED
      BY <1>1, <1>4, <2>2, AcceptSound, OwnTableStep DEF ReceivePush
  <1> QED
    BY <1>2, <1>3, <1>4 DEF ReceivePush, FetchKey

\* A step of the cron that leaves the tables alone.
LEMMA PullStep ==
    ASSUME PeerIInv, NEW n \in Host, NEW p \in Pull, pull' = [pull EXCEPT ![n] = p],
           p.at \in {"idle", "next", "ingest"}, p.left \subseteq Host \ {n},
           p.at = "ingest" => p.from \in Host \ {n}
    PROVE  pull' \in [Host -> Pull] /\ \A m \in Host : PullSound(m)'
  <1>1. pull' \in [Host -> Pull] /\ \A m \in Host : pull'[m] = IF m = n THEN p ELSE pull[m]
    BY DEF PeerIInv
  <1> QED
    BY <1>1 DEF PeerIInv, PullSound, Pull

LEMMA StartPullIInv ==
    ASSUME PeerIInv, NEW n \in Host, StartPull(n)
    PROVE  PeerIInv'
  <1> DEFINE left == {u \in ActivePeers(n) : ~IsSelfPeer(n, [url |-> u, id |-> peer[n][u].id])}
             p == Pulling("next", left, NoPeer, {})
  <1>1. left \subseteq Host \ {n}
    BY DEF ActivePeers, IsSelfPeer
  <1>2. pull' = [pull EXCEPT ![n] = p]
    BY DEF StartPull
  <1> HIDE DEF left
  <1>3. p \in Pull /\ p.at = "next" /\ p.left = left
    BY <1>1, PullRecord DEF Maybe
  <1> HIDE DEF p
  <1>4. pull' \in [Host -> Pull] /\ \A m \in Host : PullSound(m)'
    BY <1>1, <1>2, <1>3, PullStep
  <1> QED
    BY <1>4 DEF StartPull, PeerOp, PeerIInv, TableSound, RowSound

LEMMA SkipPeerIInv ==
    ASSUME PeerIInv, NEW n \in Host, NEW u \in Host, SkipPeer(n, u)
    PROVE  PeerIInv'
  <1> DEFINE p == Pulling("next", pull[n].left \ {u}, pull[n].from, pull[n].delta)
  <1>0. pull[n] \in Pull /\ pull[n].at = "next"
    BY DEF SkipPeer, PeerIInv
  <1>1. p \in Pull /\ p.at = "next" /\ p.left = pull[n].left \ {u}
    BY <1>0, PullFields, PullRecord
  <1>2. pull' = [pull EXCEPT ![n] = p]
    <2>1. [pull[n] EXCEPT !.left = pull[n].left \ {u}] = p
      BY <1>0, PullFields DEF Pulling
    <2> QED
      BY <2>1 DEF SkipPeer
  <1>3. pull[n].left \subseteq Host \ {n}
    BY DEF PeerIInv, PullSound
  <1> HIDE DEF p
  <1>4. pull' \in [Host -> Pull] /\ \A m \in Host : PullSound(m)'
    BY <1>1, <1>2, <1>3, PullStep
  <1> QED
    BY <1>4 DEF SkipPeer, PeerIInv, TableSound, RowSound

LEMMA EndPullIInv ==
    ASSUME PeerIInv, NEW n \in Host, EndPull(n)
    PROVE  PeerIInv'
  <1>1. NoPull \in Pull /\ NoPull.at = "idle" /\ NoPull.left = {}
    BY PullRecord DEF NoPull, Maybe
  <1>2. pull' \in [Host -> Pull] /\ \A m \in Host : PullSound(m)'
    BY <1>1, PullStep DEF EndPull
  <1> QED
    BY <1>2 DEF EndPull, PeerIInv, TableSound, RowSound

\* The node asked fills in the key of the row that claims to be the caller.
LEMMA GetSnapshotIInv ==
    ASSUME PeerIInv, NEW n \in Host, NEW u \in Host, GetSnapshot(n, u)
    PROVE  PeerIInv'
  <1>1. PICK v \in RowsOf(u, n) :
           LET key == Coalesce(peer[u][v].key, FetchKey(v, n)) IN
           /\ SetPeers(u, [peer[u] EXCEPT ![v].key = key])
           /\ pull' = [pull EXCEPT ![n] =
                IF Verified(key, n) THEN Pulling("ingest", @.left \ {u}, u, SnapshotPeers(u))
                ELSE Pulling("next", @.left \ {u}, NoPeer, {})]
    BY DEF GetSnapshot
  <1>2. TableSound(u, peer[u]) /\ v \in Host /\ v # u /\ peer[u][v] \in PeerRow
        /\ peer[u][v].key \in {v, NoPeer}
    BY <1>1 DEF PeerIInv, TableSound, RowSound, RowsOf
  <1>3. Coalesce(peer[u][v].key, FetchKey(v, n)) = v
    BY <1>2 DEF Coalesce, FetchKey
  <1> DEFINE r == [peer[u][v] EXCEPT !.key = v]
             some == Pulling("ingest", pull[n].left \ {u}, u, SnapshotPeers(u))
             none == Pulling("next", pull[n].left \ {u}, NoPeer, {})
  <1>4. SetPeers(u, [peer[u] EXCEPT ![v] = r])
    BY <1>1, <1>3
  <1>5. r \in PeerRow /\ r.key = v
    BY <1>2 DEF PeerRow
  <1> HIDE DEF r
  <1>6. TableSound(u, [peer[u] EXCEPT ![v] = r])
    BY <1>2, <1>5 DEF TableSound, RowSound
  <1>7. /\ peer' \in [Host -> [Host -> PeerRow \cup {NoPeer}]]
        /\ \A m \in Host : TableSound(m, peer'[m])
        /\ blank' \in SUBSET Host
    BY <1>4, <1>6, SetPeersSound
  <1>8. /\ pull[n] \in Pull /\ pull[n].at = "next"
        /\ pull[n].left \subseteq Host \ {n} /\ u \in pull[n].left
    BY DEF GetSnapshot, PeerIInv, PullSound
  <1>9. SnapshotPeers(u) \subseteq Entry
    BY DEF SnapshotPeers, ActivePeers, Coalesce, Entry, PeerIInv, PeerRow
  <1>10. /\ some \in Pull /\ some.at = "ingest" /\ some.from = u /\ some.left = pull[n].left \ {u}
         /\ none \in Pull /\ none.at = "next" /\ none.left = pull[n].left \ {u}
    BY <1>8, <1>9, PullFields, PullRecord DEF Maybe
  <1>11. pull' = [pull EXCEPT ![n] = some] \/ pull' = [pull EXCEPT ![n] = none]
    BY <1>1
  <1> HIDE DEF some, none
  <1>12. pull' \in [Host -> Pull] /\ \A m \in Host : PullSound(m)'
    BY <1>8, <1>10, <1>11, PullStep
  <1> QED
    BY <1>7, <1>12 DEF GetSnapshot, PeerIInv, TableSound, RowSound

\* The peers of a snapshot come without keys.
LEMMA IngestPeerIInv ==
    ASSUME PeerIInv, NEW n \in Host, NEW e \in pull[n].delta, IngestPeer(n, e)
    PROVE  PeerIInv'
  <1> DEFINE new == Upserted(peer[n][e.url], e.id, e.bbox, NoPeer)
             p == Pulling("ingest", pull[n].left, pull[n].from, pull[n].delta \ {e})
  <1>1. /\ TableSound(n, peer[n]) /\ pull[n] \in Pull /\ pull[n].at = "ingest" /\ PullSound(n)
        /\ e \in Entry /\ e.url # n
    BY DEF PeerIInv, IngestPeer, PullSound, Foreign, IsSelfPeer
  <1>2. e.url \in Host /\ e.id \in Maybe /\ e.bbox \in Maybe
    BY <1>1 DEF Entry, Maybe
  <1>3. new \in PeerRow /\ RowSound(e.url, new)
    BY <1>1, <1>2, UpsertedSound DEF TableSound
  <1>4. SetPeers(n, [peer[n] EXCEPT ![e.url] = new])
    BY DEF IngestPeer
  <1> HIDE DEF new
  <1>5. TableSound(n, [peer[n] EXCEPT ![e.url] = new])
    BY <1>1, <1>2, <1>3 DEF TableSound
  <1>6. /\ peer' \in [Host -> [Host -> PeerRow \cup {NoPeer}]]
        /\ \A m \in Host : TableSound(m, peer'[m])
        /\ blank' \in SUBSET Host
    BY <1>4, <1>5, SetPeersSound
  <1>7. p \in Pull /\ p.at = "ingest" /\ p.from = pull[n].from /\ p.left = pull[n].left
    BY <1>1, PullFields, PullRecord
  <1>8. [pull[n] EXCEPT !.delta = pull[n].delta \ {e}] = p
    BY <1>1, PullFields DEF Pulling
  <1>9. pull' = [pull EXCEPT ![n] = p]
    BY <1>8 DEF IngestPeer
  <1> HIDE DEF p
  <1>10. pull' \in [Host -> Pull] /\ \A m \in Host : PullSound(m)'
    BY <1>1, <1>7, <1>9, PullStep DEF PullSound
  <1> QED
    BY <1>6, <1>10 DEF IngestPeer, PeerIInv, TableSound, RowSound

LEMMA IngestFailsIInv ==
    ASSUME PeerIInv, NEW n \in Host, IngestFails(n)
    PROVE  PeerIInv'
  <1> DEFINE p == Pulling("next", pull[n].left, NoPeer, {})
  <1>1. pull[n] \in Pull /\ pull[n].left \subseteq Host \ {n}
    BY DEF PeerIInv, PullSound
  <1>2. p \in Pull /\ p.at = "next" /\ p.left = pull[n].left
    BY <1>1, PullFields, PullRecord DEF Maybe
  <1>3. pull' = [pull EXCEPT ![n] = p]
    BY DEF IngestFails
  <1> HIDE DEF p
  <1>4. pull' \in [Host -> Pull] /\ \A m \in Host : PullSound(m)'
    BY <1>1, <1>2, <1>3, PullStep
  <1> QED
    BY <1>4 DEF IngestFails, PeerIInv, TableSound, RowSound

\* The peer that answered is noted.
LEMMA NotePeerIInv ==
    ASSUME PeerIInv, NEW n \in Host, NotePeer(n)
    PROVE  PeerIInv'
  <1> DEFINE u == pull[n].from
             p == Pulling("next", pull[n].left, NoPeer, {})
  <1>1. TableSound(n, peer[n]) /\ pull[n] \in Pull /\ u \in Host \ {n} /\ pull[n].left \subseteq Host \ {n}
    BY DEF PeerIInv, NotePeer, PullSound
  <1>2. Upserted(peer[n][u], u, NoPeer, NoPeer) \in PeerRow
        /\ RowSound(u, Upserted(peer[n][u], u, NoPeer, NoPeer))
    BY <1>1, UpsertedSound DEF TableSound, Maybe
  <1>3. TableSound(n, [peer[n] EXCEPT ![u] = Upserted(@, u, NoPeer, NoPeer)])
    BY <1>1, <1>2 DEF TableSound
  <1>4. /\ peer' \in [Host -> [Host -> PeerRow \cup {NoPeer}]]
        /\ \A m \in Host : TableSound(m, peer'[m])
        /\ blank' \in SUBSET Host
    BY <1>3, SetPeersSound DEF NotePeer
  <1>5. p \in Pull /\ p.at = "next" /\ p.left = pull[n].left
    BY <1>1, PullFields, PullRecord DEF Maybe
  <1>6. pull' = [pull EXCEPT ![n] = p]
    BY DEF NotePeer
  <1> HIDE DEF p
  <1>7. pull' \in [Host -> Pull] /\ \A m \in Host : PullSound(m)'
    BY <1>1, <1>5, <1>6, PullStep
  <1> QED
    BY <1>4, <1>7 DEF NotePeer, PeerIInv, TableSound, RowSound

\* PeerIInv is inductive.
LEMMA NextPeerIInv == PeerIInv /\ [PeerNext]_peerVars => PeerIInv'
  <1> SUFFICES ASSUME PeerIInv, [PeerNext]_peerVars PROVE PeerIInv'
    OBVIOUS
  <1>1. CASE UNCHANGED peerVars
    BY <1>1 DEF peerVars, PeerIInv, TableSound, RowSound, PullSound
  <1>2. CASE PeerNext
    BY <1>2, AddPeerIInv, LinkPeerIInv, RemovePeerIInv, ReceivePushIInv, GetSnapshotIInv,
       SkipPeerIInv, RefreshPeerIInv, StartPullIInv, EndPullIInv, IngestPeerIInv, IngestFailsIInv,
       NotePeerIInv, LinkRowIInv
       DEF PeerNext
  <1> QED
    BY <1>1, <1>2

\* The invariant of the peer tables and of the cron's runs.
THEOREM SpecPeerIInv == PeerSpec => []PeerIInv
  <1> QED
    BY InitPeerIInv, NextPeerIInv, PTL DEF PeerSpec

\* The types of the variables are invariant; no node becomes its own peer.
THEOREM PeerTypesCorrect == PeerSpec => []PeerTypeOK
  <1>1. PeerIInv => PeerTypeOK
    BY DEF PeerIInv, TableSound, PullSound, PeerTypeOK, Maybe
  <1> QED
    BY <1>1, SpecPeerIInv, PTL

\* Whatever links, pushes, hearsay and rows with another node's id come together,
\* a signature is never checked with the key of another URL.
THEOREM KeysAreOwn == PeerSpec => []KeyIsOfItsPeer
  <1>1. PeerIInv => KeyIsOfItsPeer
    BY DEF PeerIInv, TableSound, RowSound, KeyIsOfItsPeer
  <1> QED
    BY <1>1, SpecPeerIInv, PTL

-----------------------------------------------------------------------------
(* Where a client is sent. *)

\* The bbox under a URL is the node's own, unless some table once had none for it;
\* so is what a snapshot under way tells of it.
BoxSound(u, r) == r = NoPeer \/ u \in blank \/ r.bbox = u
BoxToBe(u, r) == r = NoPeer \/ u \in blank \/ r.bbox \in {u, NoPeer}
EntryBox(e) == e.url \in blank \/ e.bbox = e.url
Boxes ==
    /\ \A n, u \in Host : BoxSound(u, peer[n][u])
    /\ \A n \in Host : \A e \in pull[n].delta \cup link[n] : EntryBox(e)

\* A row that is left without a bbox is noted in the same step.
LEMMA BoxStep ==
    ASSUME PeerIInv, Boxes, NEW n \in Host, NEW row, SetPeers(n, row),
           \A u \in Host : BoxToBe(u, row[u]),
           \A m \in Host : \A e \in pull'[m].delta \cup link'[m] : EntryBox(e)
    PROVE  Boxes'
  <1>1. /\ \A m \in Host : peer'[m] = IF m = n THEN row ELSE peer[m]
        /\ blank' = blank \cup {u \in Host : row[u] # NoPeer /\ row[u].bbox = NoPeer}
    BY DEF SetPeers, PeerIInv
  <1>2. \A u \in Host : BoxSound(u, row[u])'
    BY <1>1 DEF BoxToBe, BoxSound
  <1>3. \A m, u \in Host : BoxSound(u, peer[m][u])' \/ m = n
    BY <1>1 DEF Boxes, BoxSound
  <1>4. \A m, u \in Host : BoxSound(u, peer[m][u])'
    BY <1>1, <1>2, <1>3 DEF BoxSound
  <1>5. \A m \in Host : \A e \in pull'[m].delta \cup link'[m] : EntryBox(e)'
    BY <1>1 DEF EntryBox
  <1> QED
    BY <1>4, <1>5 DEF Boxes

\* An upsert with the bbox of the URL, or with none.
LEMMA UpsertedBox ==
    ASSUME NEW u \in Host, NEW old, BoxToBe(u, old), NEW id, NEW key,
           NEW bbox, bbox \in {u, NoPeer} \/ u \in blank
    PROVE  BoxToBe(u, Upserted(old, id, bbox, key))
  BY DEF BoxToBe, Upserted, Coalesce

\* The steps on single rows.
LEMMA RowBox ==
    ASSUME PeerIInv, Boxes, NEW n \in Host, NEW u \in Host, NEW r, BoxToBe(u, r),
           SetPeers(n, [peer[n] EXCEPT ![u] = r]),
           \A m \in Host : \A e \in pull'[m].delta \cup link'[m] : EntryBox(e)
    PROVE  Boxes'
  <1>1. peer[n] \in [Host -> PeerRow \cup {NoPeer}]
    BY DEF PeerIInv
  <1>2. \A v \in Host : BoxToBe(v, [peer[n] EXCEPT ![u] = r][v])
    BY <1>1 DEF Boxes, BoxSound, BoxToBe
  <1> QED
    BY <1>2, BoxStep

LEMMA AcceptBox ==
    ASSUME NEW rows \in [Host -> PeerRow \cup {NoPeer}], \A v \in Host : BoxToBe(v, rows[v]),
           NEW m \in Host, NEW key
    PROVE  \A v \in Host : BoxToBe(v, Accept(rows, m, key)[v])
  <1>1. BoxToBe(m, Upserted(rows[m], NoPeer, NoPeer, key))
    BY UpsertedBox
  <1>2. rows[m] # NoPeer => BoxToBe(m, [rows[m] EXCEPT !.active = TRUE])
    BY DEF BoxToBe, PeerRow
  <1> QED
    BY <1>1, <1>2 DEF Accept

LEMMA ReceivePushBoxes ==
    ASSUME PeerIInv, Boxes, NEW n \in Host, NEW m \in Host, ReceivePush(n, m)
    PROVE  Boxes'
  <1>1. /\ peer[n] \in [Host -> PeerRow \cup {NoPeer}] /\ \A v \in Host : BoxToBe(v, peer[n][v])
        /\ \A k \in Host : \A e \in pull'[k].delta \cup link'[k] : EntryBox(e)
    BY DEF PeerIInv, Boxes, BoxSound, BoxToBe, ReceivePush
  <1>2. ASSUME NEW rows \in [Host -> PeerRow \cup {NoPeer}], NEW key,
               \A v \in Host : BoxToBe(v, rows[v]), SetPeers(n, Accept(rows, m, key))
        PROVE  Boxes'
    <2>1. \A v \in Host : BoxToBe(v, Accept(rows, m, key)[v])
      BY <1>2, AcceptBox
    <2> QED
      BY <1>1, <1>2, <2>1, BoxStep
  <1>3. ASSUME NEW c \in RowsOf(n, m), SetPeers(n, Accept([peer[n] EXCEPT ![c].key = c], m, c))
        PROVE  Boxes'
    <2> DEFINE r == [peer[n][c] EXCEPT !.key = c]
               rows == [peer[n] EXCEPT ![c] = r]
    <2>1. c \in Host /\ peer[n][c] \in PeerRow /\ peer[n][c] # NoPeer
      BY <1>1 DEF RowsOf
    <2>2. r \in PeerRow /\ r.bbox = peer[n][c].bbox
      BY <2>1 DEF PeerRow
    <2>3. BoxToBe(c, r)
      BY <1>1, <2>1, <2>2 DEF BoxToBe
    <2>4. SetPeers(n, Accept(rows, m, c))
      BY <1>3
    <2> HIDE DEF r
    <2>5. rows \in [Host -> PeerRow \cup {NoPeer}] /\ \A v \in Host : BoxToBe(v, rows[v])
      BY <1>1, <2>1, <2>2, <2>3
    <2> HIDE DEF rows
    <2> QED
      BY <1>2, <2>4, <2>5
  <1>4. ASSUME SetPeers(n, Accept([peer[n] EXCEPT ![m] = Upserted(@, NoPeer, NoPeer, m)], m, m))
        PROVE  Boxes'
    <2> DEFINE r == Upserted(peer[n][m], NoPeer, NoPeer, m)
               rows == [peer[n] EXCEPT ![m] = r]
    <2>1. r \in PeerRow
      BY UpsertedSound DEF PeerIInv, TableSound, Maybe
    <2>2. BoxToBe(m, r)
      BY <1>1, UpsertedBox
    <2>3. SetPeers(n, Accept(rows, m, m))
      BY <1>4
    <2> HIDE DEF r
    <2>4. rows \in [Host -> PeerRow \cup {NoPeer}] /\ \A v \in Host : BoxToBe(v, rows[v])
      BY <1>1, <2>1, <2>2
    <2> HIDE DEF rows
    <2> QED
      BY <1>2, <2>3, <2>4
  <1>5. ASSUME NEW key, SetPeers(n, Accept(peer[n], m, key)) PROVE Boxes'
    BY <1>1, <1>2, <1>5
  <1> QED
    BY <1>3, <1>4, <1>5 DEF ReceivePush, FetchKey

\* What a node tells of its peers: what the invariant says of its rows.
LEMMA ToldBoxes ==
    ASSUME PeerIInv, Boxes, NEW u \in Host
    PROVE  /\ \A e \in InfoOf(u) : EntryBox(e)
           /\ \A e \in SnapshotPeers(u) : EntryBox(e)
  <1>1. \A v \in ActivePeers(u) : v \in Host /\ (v \in blank \/ peer[u][v].bbox = v)
    BY DEF ActivePeers, Boxes, BoxSound
  <1>2. \A v \in Host : v # NoPeer
    BY PeerAssumption
  <1> QED
    BY <1>1, <1>2 DEF InfoOf, SnapshotPeers, EntryBox, Coalesce

LEMMA LinkPeerBoxes ==
    ASSUME PeerIInv, Boxes, NEW n \in Host, NEW u \in Host, LinkPeer(n, u)
    PROVE  Boxes'
  <1>1. BoxToBe(u, Upserted(peer[n][u], u, u, u))
    <2>1. BoxToBe(u, peer[n][u])
      BY DEF Boxes, BoxSound, BoxToBe
    <2> QED
      BY <2>1, UpsertedBox
  <1>2. SetPeers(n, [peer[n] EXCEPT ![u] = Upserted(peer[n][u], u, u, u)])
    BY DEF LinkPeer
  <1>3. \A m \in Host : link'[m] \subseteq link[m] \cup InfoOf(u) /\ pull'[m] = pull[m]
    BY DEF LinkPeer, PeerIInv
  <1>4. \A m \in Host : \A e \in pull'[m].delta \cup link'[m] : EntryBox(e)
    BY <1>3, ToldBoxes DEF Boxes
  <1> QED
    BY <1>1, <1>2, <1>4, RowBox

\* An entry that is written to the table.
LEMMA EntryRowBox ==
    ASSUME PeerIInv, Boxes, NEW n \in Host, NEW e \in Entry, EntryBox(e), NEW key
    PROVE  BoxToBe(e.url, Upserted(peer[n][e.url], e.id, e.bbox, key))
  <1>1. e.url \in Host
    BY DEF Entry
  <1>2. BoxToBe(e.url, peer[n][e.url])
    BY <1>1 DEF Boxes, BoxSound, BoxToBe
  <1> QED
    BY <1>1, <1>2, UpsertedBox DEF EntryBox

LEMMA LinkRowBoxes ==
    ASSUME PeerIInv, Boxes, NEW n \in Host, NEW e \in link[n], LinkRow(n, e)
    PROVE  Boxes'
  <1>1. PICK key : SetPeers(n, [peer[n] EXCEPT ![e.url] = Upserted(@, e.id, e.bbox, key)])
    BY DEF LinkRow
  <1>2. e \in Entry /\ EntryBox(e) /\ e.url \in Host
    BY DEF PeerIInv, Boxes, Entry
  <1>3. BoxToBe(e.url, Upserted(peer[n][e.url], e.id, e.bbox, key))
    BY <1>2, EntryRowBox
  <1>4. \A m \in Host : link'[m] \subseteq link[m] /\ pull'[m] = pull[m]
    BY DEF LinkRow, PeerIInv
  <1>5. \A m \in Host : \A f \in pull'[m].delta \cup link'[m] : EntryBox(f)
    BY <1>4 DEF Boxes
  <1> QED
    BY <1>1, <1>2, <1>3, <1>5, RowBox

LEMMA OwnRowBoxes ==
    ASSUME PeerIInv, Boxes, NEW n \in Host, NEW u \in Host, AddPeer(n, u) \/ RemovePeer(n, u)
    PROVE  Boxes'
  <1>1. /\ BoxToBe(u, peer[n][u])
        /\ \A m \in Host : \A e \in pull'[m].delta \cup link'[m] : EntryBox(e)
    BY DEF AddPeer, RemovePeer, Boxes, BoxSound, BoxToBe
  <1>2. CASE AddPeer(n, u)
    BY <1>1, <1>2, UpsertedBox, RowBox DEF AddPeer
  <1>3. CASE RemovePeer(n, u)
    <2>1. peer[n][u] \in PeerRow /\ peer[n][u] # NoPeer
      BY <1>3 DEF RemovePeer, ActivePeers, PeerIInv
    <2>2. BoxToBe(u, [peer[n][u] EXCEPT !.active = FALSE])
      BY <1>1, <2>1 DEF BoxToBe, PeerRow
    <2> QED
      BY <1>1, <1>3, <2>2, RowBox DEF RemovePeer
  <1> QED
    BY <1>2, <1>3

LEMMA RefreshPeerBoxes ==
    ASSUME PeerIInv, Boxes, NEW n \in Host, NEW u \in Host, RefreshPeer(n, u)
    PROVE  Boxes'
  <1> DEFINE r == [peer[n][u] EXCEPT !.id = u, !.bbox = u, !.key = u]
  <1>1. peer[n][u] \in PeerRow
    BY DEF RefreshPeer, PeerIInv
  <1>2. BoxToBe(u, r)
    BY <1>1 DEF BoxToBe, PeerRow
  <1>3. SetPeers(n, [peer[n] EXCEPT ![u] = r])
    BY DEF RefreshPeer
  <1>4. \A m \in Host : \A e \in pull'[m].delta \cup link'[m] : EntryBox(e)
    BY DEF RefreshPeer, Boxes
  <1> HIDE DEF r
  <1> QED
    BY <1>2, <1>3, <1>4, RowBox

\* The cron: what it is told is what the teller's rows say, or the teller's own
\* bbox for a node it has none of.
LEMMA PullBoxes ==
    ASSUME PeerIInv, Boxes, NEW n \in Host,
           StartPull(n) \/ EndPull(n) \/ IngestFails(n) \/ \E u \in Host : SkipPeer(n, u)
    PROVE  Boxes'
  <1>1. UNCHANGED <<peer, link, blank>>
    BY DEF StartPull, EndPull, IngestFails, SkipPeer
  <1>2. \A m \in Host : pull'[m].delta \subseteq pull[m].delta
    <2>1. CASE StartPull(n)
      <3>1. PICK left : pull' = [pull EXCEPT ![n] = Pulling("next", left, NoPeer, {})]
        BY <2>1 DEF StartPull
      <3> QED
        BY <3>1 DEF PeerIInv, Pulling
    <2>2. CASE EndPull(n)
      BY <2>2 DEF EndPull, PeerIInv, Pulling, NoPull
    <2>4. CASE IngestFails(n)
      BY <2>4 DEF IngestFails, PeerIInv, Pulling
    <2>3. CASE \E u \in Host : SkipPeer(n, u)
      <3>1. PICK u \in Host : pull' = [pull EXCEPT ![n].left = @ \ {u}]
        BY <2>3 DEF SkipPeer
      <3>2. [pull[n] EXCEPT !.left = @ \ {u}].delta = pull[n].delta
        BY DEF PeerIInv, Pull
      <3> QED
        BY <3>1, <3>2 DEF PeerIInv
    <2> QED
      BY <2>1, <2>2, <2>3, <2>4
  <1> QED
    BY <1>1, <1>2 DEF Boxes, BoxSound, EntryBox

LEMMA GetSnapshotBoxes ==
    ASSUME PeerIInv, Boxes, NEW n \in Host, NEW u \in Host, GetSnapshot(n, u)
    PROVE  Boxes'
  <1>1. PICK v \in RowsOf(u, n) :
           LET key == Coalesce(peer[u][v].key, FetchKey(v, n)) IN
           /\ SetPeers(u, [peer[u] EXCEPT ![v].key = key])
           /\ pull' = [pull EXCEPT ![n] =
                IF Verified(key, n) THEN Pulling("ingest", @.left \ {u}, u, SnapshotPeers(u))
                ELSE Pulling("next", @.left \ {u}, NoPeer, {})]
    BY DEF GetSnapshot
  <1> DEFINE key == Coalesce(peer[u][v].key, FetchKey(v, n))
             r == [peer[u][v] EXCEPT !.key = key]
  <1>2. v \in Host /\ peer[u][v] \in PeerRow /\ peer[u][v] # NoPeer
    BY DEF RowsOf, PeerIInv
  <1>3. SetPeers(u, [peer[u] EXCEPT ![v] = r])
    BY <1>1
  <1>4. BoxToBe(v, r)
    <2> HIDE DEF key
    <2> QED
      BY <1>2 DEF Boxes, BoxSound, BoxToBe, PeerRow
  <1>5. \A m \in Host : \A e \in pull'[m].delta \cup link'[m] : EntryBox(e)
    <2>1. \A m \in Host : m # n => pull'[m] = pull[m]
      BY <1>1 DEF PeerIInv
    <2>2. pull'[n].delta \in {SnapshotPeers(u), {}}
      BY <1>1 DEF Pulling, PeerIInv
    <2>3. UNCHANGED link
      BY DEF GetSnapshot
    <2> QED
      BY <2>1, <2>2, <2>3, ToldBoxes DEF Boxes
  <1> HIDE DEF r
  <1> QED
    BY <1>2, <1>3, <1>4, <1>5, RowBox

LEMMA IngestPeerBoxes ==
    ASSUME PeerIInv, Boxes, NEW n \in Host, NEW e \in pull[n].delta, IngestPeer(n, e)
    PROVE  Boxes'
  <1>1. e \in Entry /\ EntryBox(e) /\ e.url \in Host
    BY DEF PeerIInv, PullSound, Boxes, Entry
  <1>2. BoxToBe(e.url, Upserted(peer[n][e.url], e.id, e.bbox, NoPeer))
    BY <1>1, EntryRowBox
  <1>3. SetPeers(n, [peer[n] EXCEPT ![e.url] = Upserted(peer[n][e.url], e.id, e.bbox, NoPeer)])
    BY DEF IngestPeer
  <1>4. \A m \in Host : pull'[m].delta \subseteq pull[m].delta
    <2>1. [pull[n] EXCEPT !.delta = pull[n].delta \ {e}].delta = pull[n].delta \ {e}
      BY DEF PeerIInv, Pull
    <2> QED
      BY <2>1 DEF IngestPeer, PeerIInv
  <1>5. \A m \in Host : \A f \in pull'[m].delta \cup link'[m] : EntryBox(f)
    BY <1>4 DEF Boxes, IngestPeer
  <1> QED
    BY <1>1, <1>2, <1>3, <1>5, RowBox

LEMMA NotePeerBoxes ==
    ASSUME PeerIInv, Boxes, NEW n \in Host, NotePeer(n)
    PROVE  Boxes'
  <1> DEFINE u == pull[n].from
  <1>1. u \in Host
    BY DEF NotePeer, PeerIInv, PullSound
  <1>2. BoxToBe(u, Upserted(peer[n][u], u, NoPeer, NoPeer))
    <2>1. BoxToBe(u, peer[n][u])
      BY <1>1 DEF Boxes, BoxSound, BoxToBe
    <2> HIDE DEF u
    <2> QED
      BY <1>1, <2>1, UpsertedBox
  <1>3. \A m \in Host : pull'[m].delta \subseteq pull[m].delta
    BY DEF NotePeer, Pulling, PeerIInv
  <1>4. \A m \in Host : \A e \in pull'[m].delta \cup link'[m] : EntryBox(e)
    BY <1>3 DEF Boxes, NotePeer
  <1>5. SetPeers(n, [peer[n] EXCEPT ![u] = Upserted(peer[n][u], u, NoPeer, NoPeer)])
    BY DEF NotePeer
  <1> HIDE DEF u
  <1> QED
    BY <1>1, <1>2, <1>4, <1>5, RowBox

LEMMA NextBoxes == PeerIInv /\ Boxes /\ [PeerNext]_peerVars => Boxes'
  <1> SUFFICES ASSUME PeerIInv, Boxes, [PeerNext]_peerVars PROVE Boxes'
    OBVIOUS
  <1>1. CASE UNCHANGED peerVars
    BY <1>1 DEF peerVars, Boxes, BoxSound, EntryBox
  <1>2. CASE PeerNext
    BY <1>2, OwnRowBoxes, LinkPeerBoxes, ReceivePushBoxes, GetSnapshotBoxes, PullBoxes,
       RefreshPeerBoxes, IngestPeerBoxes, NotePeerBoxes, LinkRowBoxes
       DEF PeerNext
  <1> QED
    BY <1>1, <1>2

\* A client that is sent to a node that does not cover its place was sent to one
\* that some table once held without a bbox.
THEOREM ResolvedPeersCover == PeerSpec => []ResolvedCoversPlace
  <1>1. PeerInit => Boxes
    BY DEF PeerInit, Boxes, BoxSound, NoPull, Pulling
  <1>2. Boxes => ResolvedCoversPlace
    BY DEF Boxes, BoxSound, Resolved, ActivePeers, ResolvedCoversPlace
  <1> QED
    BY <1>1, <1>2, NextBoxes, SpecPeerIInv, PTL DEF PeerSpec
=============================================================================
