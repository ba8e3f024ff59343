------------------------------- MODULE FactMesh -------------------------------
(***************************************************************************)
(* The federation of nodes that exchange accessibility facts.  Each node   *)
(* stores the audits made on it, pushes them once to its peers' /api/inbox *)
(* and periodically pulls every peer's /api/gossip/snapshot into its own   *)
(* /api/gossip/ingest.  Both receiving handlers read the stored facts,     *)
(* merge them in memory and then upsert the merged rows one by one,        *)
(* without a transaction.                                                  *)
(*                                                                         *)
(* The model follows one field of one property at scope "property"; the    *)
(* property is known on every node and inside every node's region.          *)
(***************************************************************************)
EXTENDS FactMerge

CONSTANTS
    NoDelta,    \* no snapshot is waiting to be ingested
    MaxClock,   \* bound: number of timestamps handed out
    MaxFaults,  \* bound: number of crashes and failed upserts
    MaxMerges   \* bound: number of merges in progress on all nodes together

ASSUME BoundAssumption == MaxClock \in Nat /\ MaxFaults \in Nat /\ MaxMerges \in Nat

VARIABLES
    facts,     \* facts[n] is node n's table AccessibilityFact
    clock,     \* the next timestamp; every new Date() reads a fresh one
    pushing,   \* audits stored whose handler has not built its push yet
    network,   \* POST /api/inbox requests under way
    fetched,   \* the snapshot node n's cron has fetched and not yet ingested
    todo,      \* todo[n][h]: merged rows the handler h of n has still to upsert
    faults,
    issued     \* history: every (source, auditor, value, timestamp) an audit made

vars == <<facts, clock, pushing, network, fetched, todo, faults, issued>>

\* The source of an audited fact is the node it was audited on.
Node == Source

Handler == {"inbox", "ingest"}
Issue == [src : Node, by : Auditor, value : Value, ts : Nat]
Message == [to : Node, src : Node, row : Row]

ASSUME NoDeltaAssumption == NoDelta \notin Table

Idle(n, h) == todo[n][h] = EmptyTable

\* Number of merges between their read and their last upsert.
Merges == Cardinality({nh \in Node \X Handler : ~Idle(nh[1], nh[2])})

AuditRow(a, v, at) == [value |-> v, tier |-> "VERIFIED", by |-> a, ts |-> at]

Init ==
    /\ facts = [n \in Node |-> EmptyTable]
    /\ clock = 0
    /\ pushing = {}
    /\ network = {}
    /\ fetched = [n \in Node |-> NoDelta]
    /\ todo = [n \in Node |-> [h \in Handler |-> EmptyTable]]
    /\ faults = 0
    /\ issued = {}

\* POST /api/properties/[id]/accessibility upserts the row keyed by this node:
\* the last audit on a node owns its row and is always VERIFIED.  A confirm
\* audit writes the same row as a plain one with the value it confirms.
SubmitAudit(n, a, v) ==
    /\ clock < MaxClock
    /\ facts' = [facts EXCEPT ![n][n] = AuditRow(a, v, clock)]
    /\ issued' = issued \cup {[src |-> n, by |-> a, value |-> v, ts |-> clock]}
    /\ pushing' = pushing \cup {[src |-> n, by |-> a, value |-> v]}
    /\ clock' = clock + 1
    /\ UNCHANGED <<network, fetched, todo, faults>>

\* The same handler then builds the push with a timestamp of its own and sends
\* it to every peer without waiting; a request that fails is not retried, so
\* one that is lost is one that is never received.
PushFactsToPeers(p) ==
    /\ clock < MaxClock
    /\ pushing' = pushing \ {p}
    /\ network' = network \cup
         {[to |-> m, src |-> p.src, row |-> AuditRow(p.by, p.value, clock)] :
             m \in Node \ {p.src}}
    /\ issued' = issued \cup
         {[src |-> p.src, by |-> p.by, value |-> p.value, ts |-> clock]}
    /\ clock' = clock + 1
    /\ UNCHANGED <<facts, fetched, todo, faults>>

\* The delta an inbox request carries: the one fact of its audit.
PushedDelta(m) == [s \in Node |-> IF s = m.src THEN m.row ELSE NoRow]

\* Both handlers: findMany the stored facts, merge the delta, keep the rows to write.
StartMerge(n, h, delta) ==
    /\ Idle(n, h)
    /\ Merges < MaxMerges
    /\ todo' = [todo EXCEPT ![n][h] = MergeGossipDelta(facts[n], delta)]

InboxReceive(m) ==
    /\ StartMerge(m.to, "inbox", PushedDelta(m))
    /\ network' = network \ {m}
    /\ UNCHANGED <<facts, clock, pushing, fetched, faults, issued>>

\* Mutant: the snapshot presents a relayed fact as the peer's own.
SnapshotAsOwn(p) ==
    [s \in Node |->
        IF s = p /\ facts[p] # EmptyTable
        THEN facts[p][CHOOSE x \in Node : facts[p][x] # NoRow]
        ELSE NoRow]

\* GET /api/gossip/snapshot of node p, asked without "since": all its facts,
\* relayed ones included, each under its own source.
Snapshot(p) == facts[p]

\* GET /api/cron/gossip of node n reads the snapshot of its peer p.
FetchSnapshot(n, p) ==
    /\ n # p
    /\ fetched[n] = NoDelta
    /\ Idle(n, "ingest")
    /\ fetched' = [fetched EXCEPT ![n] = Snapshot(p)]
    /\ UNCHANGED <<facts, clock, pushing, network, todo, faults, issued>>

\* The cron posts the snapshot to its own ingest route, which returns early
\* when the delta holds no fact.
IngestReceive(n) ==
    /\ fetched[n] # NoDelta
    /\ fetched' = [fetched EXCEPT ![n] = NoDelta]
    /\ IF fetched[n] = EmptyTable
       THEN UNCHANGED todo
       ELSE StartMerge(n, "ingest", fetched[n])
    /\ UNCHANGED <<facts, clock, pushing, network, faults, issued>>

\* Mutant: the existing row itself lands in submittedBy.
UpsertRowAsAuthor(existing, merged) ==
    IF existing = NoRow THEN merged ELSE [merged EXCEPT !.by = existing]

\* The upsert of one merged row: an existing row keeps its submittedBy, which
\* the update clause of both handlers omits.
Upsert(existing, merged) ==
    IF existing = NoRow THEN merged ELSE [merged EXCEPT !.by = existing.by]

WriteRow(n, h, s) ==
    /\ todo[n][h][s] # NoRow
    /\ facts' = [facts EXCEPT ![n][s] = Upsert(facts[n][s], todo[n][h][s])]
    /\ todo' = [todo EXCEPT ![n][h][s] = NoRow]
    /\ UNCHANGED <<clock, pushing, network, fetched, faults, issued>>

\* One of the upserts of Promise.all fails; the others are written all the same.
WriteFails(n, h, s) ==
    /\ faults < MaxFaults
    /\ todo[n][h][s] # NoRow
    /\ todo' = [todo EXCEPT ![n][h][s] = NoRow]
    /\ faults' = faults + 1
    /\ UNCHANGED <<facts, clock, pushing, network, fetched, issued>>

\* The process restarts: its tables survive, what its handlers held is gone.
Crash(n) ==
    /\ faults < MaxFaults
    /\ faults' = faults + 1
    /\ pushing' = {p \in pushing : p.src # n}
    /\ fetched' = [fetched EXCEPT ![n] = NoDelta]
    /\ todo' = [todo EXCEPT ![n] = [h \in Handler |-> EmptyTable]]
    /\ UNCHANGED <<facts, clock, network, issued>>

Next ==
    \/ \E n \in Node, a \in Auditor, v \in Value : SubmitAudit(n, a, v)
    \/ \E p \in pushing : PushFactsToPeers(p)
    \/ \E m \in network : InboxReceive(m)
    \/ \E n, p \in Node : FetchSnapshot(n, p)
    \/ \E n \in Node : IngestReceive(n)
    \/ \E n, s \in Node, h \in Handler : WriteRow(n, h, s)
    \/ \E n, s \in Node, h \in Handler : WriteFails(n, h, s)
    \/ \E n \in Node : Crash(n)

Spec == Init /\ [][Next]_vars

FairSpec ==
    /\ Spec
    /\ \A n, p \in Node : SF_vars(FetchSnapshot(n, p))
    /\ \A n \in Node : WF_vars(IngestReceive(n))
    /\ \A n, s \in Node, h \in Handler : WF_vars(WriteRow(n, h, s))
-----------------------------------------------------------------------------
\* The types of the variables.
TypeOK ==
    /\ facts \in [Node -> Table]
    /\ clock \in Nat
    /\ pushing \in SUBSET [src : Node, by : Auditor, value : Value]
    /\ network \in SUBSET Message
    /\ fetched \in [Node -> Table \cup {NoDelta}]
    /\ todo \in [Node -> [Handler -> Table]]
    /\ faults \in Nat
    /\ issued \in SUBSET Issue

\* What a row of source s says was said by an audit on s: its value at its
\* timestamp, and its author at some time.
Genuine(s, row) ==
    /\ \E i \in issued : i.src = s /\ i.value = row.value /\ i.ts = row.ts
    /\ \E i \in issued : i.src = s /\ i.by = row.by

\* However audits, pushes, relays, half-written merges and restarts interleave,
\* no node stores a fact that its source node did not audit at that time.
EveryFactWasAudited ==
    \A n, s \in Node : facts[n][s] # NoRow => Genuine(s, facts[n][s])

\* The nodes on which the value v was ever audited, and its auditors there.
AuditedOn(v) == {i.src : i \in {j \in issued : j.value = v}}
AuditedBy(v) == {i.by : i \in {j \in issued : j.value = v}}

\* A CONFIRMED fact's value was audited on as many different nodes as the
\* threshold asks auditors: relaying one node's fact never confirms it.
ConfirmedNeedsSources ==
    \A n, s \in Node :
        (facts[n][s] # NoRow /\ facts[n][s].tier = "CONFIRMED")
            => Cardinality(AuditedOn(facts[n][s].value)) >= ConfirmThreshold

\* The two statements above of everything that can still become a stored row:
\* merges in progress, snapshots fetched and pushes under way.  A row that is
\* written is only as sound as the copy it was merged from.
Sound(s, row) ==
    row # NoRow =>
        /\ Genuine(s, row)
        /\ row.tier = "CONFIRMED" => Cardinality(AuditedOn(row.value)) >= ConfirmThreshold
SoundTable(table) == \A s \in Node : Sound(s, table[s])

IInv ==
    /\ TypeOK
    /\ \A n \in Node : SoundTable(facts[n])
    /\ \A n \in Node, h \in Handler : SoundTable(todo[n][h])
    /\ \A n \in Node : fetched[n] # NoDelta => SoundTable(fetched[n])
    /\ \A m \in network : Sound(m.src, m.row)

\* Every time that was handed out is past.
TimesPast == clock <= MaxClock /\ \A i \in issued : i.ts < clock

\* The sources that are enough to confirm a value.
Enough == {S \in SUBSET Node : Cardinality(S) >= ConfirmThreshold}

\* The facts without the requests, merges and faults: what audits said, and what
\* the tables hold of it.  Who a row names as its auditor is no part of this.
FactLog == INSTANCE ProvenanceLog WITH
    Holder <- Node, Key <- Node, Owner <- [n \in Node |-> n],
    Datum <- Value, Time <- 0..MaxClock, Quorum <- Enough, Nothing <- NoRow,
    log <- {[key |-> i.src, datum |-> i.value, time |-> i.ts] : i \in issued},
    held <- [n \in Node |-> [s \in Node |->
               IF facts[n][s] = NoRow THEN NoRow
               ELSE [datum |-> facts[n][s].value, time |-> facts[n][s].ts,
                     confirmed |-> facts[n][s].tier = "CONFIRMED"]]]

\* However audits, pushes, relays, half-written merges and restarts interleave, the
\* tables behave as copies of the logs of their sources: an entry is made on its
\* source and at a time of its own, and every other step of a table takes over an
\* entry that was made, confirmed only if enough sources have its value.
ImplementsLog == FactLog!LogSpec

\* ARCHITECTURE.md: a fact is promoted when enough distinct auditors
\* independently submit the same value.
ConfirmedNeedsAuditors ==
    \A n, s \in Node :
        (facts[n][s] # NoRow /\ facts[n][s].tier = "CONFIRMED")
            => Cardinality(AuditedBy(facts[n][s].value)) >= ConfirmThreshold

\* merge.ts: of two facts of the same tier the most recently submitted one wins.
SameTierNewestWins ==
    [][\A n, s \in Node :
         (facts[n][s] # NoRow /\ facts'[n][s].tier = facts[n][s].tier)
             => facts'[n][s].ts >= facts[n][s].ts]_vars

SameFact(a, b) ==
    \/ a = NoRow /\ b = NoRow
    \/ /\ a # NoRow /\ b # NoRow
       /\ <<a.value, a.tier, a.ts>> = <<b.value, b.tier, b.ts>>

\* While no value has enough auditors to be promoted, every node ends up with
\* the same value, tier and timestamp for every source: gossip catches what a
\* lost push, a failed upsert or a crash missed.
Converges == <>[](\A n, m, s \in Node : SameFact(facts[n][s], facts[m][s]))
=============================================================================
