-------------------------- MODULE MetadataOverrides --------------------------
(***************************************************************************)
(* Manual corrections of a property's coordinates and how they reach the   *)
(* other nodes.  A correction is kept as one row per field and per node it *)
(* was made on, beside the property's base data, and resolved at read      *)
(* time.  Rows travel like facts: pushed once to /api/inbox, and pulled in *)
(* snapshots into /api/gossip/ingest.                                      *)
(*                                                                         *)
(* The model follows one property known on every node.  The fields name    *)
(* and location travel in rows of the same kind; lat and lon are the two   *)
(* that only mean something together.                                      *)
(***************************************************************************)
EXTENDS Naturals, FiniteSets

CONSTANTS
    Node,       \* values of sourceNodeId
    Coord,      \* values of lat and of lon
    Base,       \* the property's base position
    Place,      \* bound: the positions that edits ask for
    Region,     \* Region[n]: the positions inside node n's bbox
    Cleared,    \* the value of a row that is back to base (clearedAt is set)
    NoRow,      \* no override stored for this key
    NoDelta,    \* no snapshot is waiting to be ingested
    MaxClock,   \* bound: number of timestamps handed out
    MaxFaults,  \* bound: number of crashes and failed upserts
    Editor,     \* bound: the nodes on which admins edit
    MaxEdits    \* bound: number of PATCH handlers in progress on one node

Field == {"lat", "lon"}
Position == [Field -> Coord]
Row == [value : Coord \cup {Cleared}, ts : Nat]
Table == [Node -> [Field -> Row \cup {NoRow}]]
EmptyRows == [f \in Field |-> NoRow]
EmptyTable == [s \in Node |-> EmptyRows]
Handler == {"inbox", "ingest"}

ASSUME NodeAssumption == IsFiniteSet(Node)
ASSUME BaseAssumption == Base \in Position
ASSUME EditorAssumption == Editor \subseteq Node
ASSUME PlaceAssumption == Place \subseteq Position
ASSUME RegionAssumption == Region \in [Node -> SUBSET Position]
ASSUME ClearedAssumption == Cleared \notin Coord
ASSUME NoRowAssumption == NoRow \notin Row
ASSUME NoDeltaAssumption == NoDelta \notin Table
ASSUME BoundAssumption == MaxClock \in Nat /\ MaxFaults \in Nat /\ MaxEdits \in Nat

VARIABLES
    rows,      \* rows[n] is node n's table PropertyMetadataOverride
    clock,     \* the next timestamp; every reading of the time is a fresh one
    edits,     \* PATCH handlers between reading the time and building their push
    network,   \* POST /api/inbox requests under way
    fetched,   \* the snapshot node n's cron has fetched and not yet ingested
    todo,      \* todo[n][h]: rows the handler h of n has still to upsert
    faults,
    issued     \* history: every row an edit wrote, with the position it was part of

vars == <<rows, clock, edits, network, fetched, todo, faults, issued>>

Edit == [src : Node, to : Position, now : Nat, done : [Field -> Row \cup {NoRow}]]
Message == [to : Node, table : Table]
Issue == [src : Node, field : Field, row : Row, to : Position]
-----------------------------------------------------------------------------
\* resolveEffectiveMetadata: coordinates come from one source, the newest that
\* has both fields active; otherwise from the base row.
Active(row) == row # NoRow /\ row.value # Cleared
Paired(table) == {s \in Node : \A f \in Field : Active(table[s][f])}
NotOlder(own, other) ==
    \A f \in Field : \E g \in Field : own[g].ts >= other[f].ts

ResolveEffective(table) ==
    IF Paired(table) = {} THEN Base
    ELSE LET s == CHOOSE x \in Paired(table) :
                      \A y \in Paired(table) : NotOlder(table[x], table[y])
         IN  [f \in Field |-> table[s][f].value]

EffectiveAt(n) == ResolveEffective(rows[n])

\* Mutant: the merge only ever adds rows.
SupersedesOnlyNothing(incoming, existing) == existing = NoRow

\* Mutant: an incoming row always wins.
SupersedesAlways(incoming, existing) == TRUE

\* The newer timestamp wins per source and field; the incoming row wins a tie.
Supersedes(incoming, existing) == existing = NoRow \/ incoming.ts >= existing.ts

\* applyIncomingMetadataOverrides writes the merged row of every incoming key,
\* the stored row itself when the incoming one is older.
MergeMetadataOverrides(existing, incoming) ==
    [s \in Node |-> [f \in Field |->
        IF incoming[s][f] = NoRow THEN NoRow
        ELSE IF Supersedes(incoming[s][f], existing[s][f]) THEN incoming[s][f]
        ELSE existing[s][f]]]
-----------------------------------------------------------------------------
Idle(n, h) == todo[n][h] = EmptyTable

Init ==
    /\ rows = [n \in Node |-> EmptyTable]
    /\ clock = 0
    /\ edits = {}
    /\ network = {}
    /\ fetched = [n \in Node |-> NoDelta]
    /\ todo = [n \in Node |-> [h \in Handler |-> EmptyTable]]
    /\ faults = 0
    /\ issued = {}

\* PATCH /api/properties/[id] reads the time once for all its fields.  Resetting
\* both coordinates is a PATCH back to the base position.
PatchProperty(n, to) ==
    /\ clock < MaxClock
    /\ Cardinality({e \in edits : e.src = n}) < MaxEdits
    /\ edits' = edits \cup {[src |-> n, to |-> to, now |-> clock, done |-> EmptyRows]}
    /\ clock' = clock + 1
    /\ UNCHANGED <<rows, network, fetched, todo, faults, issued>>

\* Mutant: a field back at its base value is written as null.
OverrideValueNull(f, v) == IF v = Base[f] THEN NoRow ELSE v

\* A field back at its base value clears the override.
OverrideValue(f, v) == IF v = Base[f] THEN Cleared ELSE v

\* The fields are written one after the other in this order.
NextField(e) == IF e.done["lat"] = NoRow THEN "lat" ELSE "lon"

\* The upsert of an edit: an update carries the handler's time, a create the
\* time the database reads when it inserts.
EditRow(e, f) ==
    [value |-> OverrideValue(f, e.to[f]),
     ts |-> IF rows[e.src][e.src][f] = NoRow THEN clock ELSE e.now]

\* pushMetadataOverridesToPeers: the rows just written, under the node's own id.
Push(e, done) ==
    {[to |-> m, table |-> [EmptyTable EXCEPT ![e.src] = done]] : m \in Node \ {e.src}}

WriteOverride(e) ==
    LET f == NextField(e)
        done == [e.done EXCEPT ![f] = EditRow(e, f)]
        created == rows[e.src][e.src][f] = NoRow
    IN  /\ created => clock < MaxClock
        /\ clock' = IF created THEN clock + 1 ELSE clock
        /\ rows' = [rows EXCEPT ![e.src][e.src][f] = EditRow(e, f)]
        /\ issued' = issued \cup
               {[src |-> e.src, field |-> f, row |-> EditRow(e, f), to |-> e.to]}
        /\ IF f = "lon"
           THEN /\ edits' = edits \ {e}
                /\ network' = network \cup Push(e, done)
           ELSE /\ edits' = (edits \ {e}) \cup {[e EXCEPT !.done = done]}
                /\ UNCHANGED network
        /\ UNCHANGED <<fetched, todo, faults>>

\* Both receiving handlers drop the rows of a property whose position, as the
\* receiver resolves it now, is outside its bbox; then they read the stored
\* rows and merge.
StartApply(n, h, incoming) ==
    /\ Idle(n, h)
    /\ IF EffectiveAt(n) \in Region[n]
       THEN todo' = [todo EXCEPT ![n][h] = MergeMetadataOverrides(rows[n], incoming)]
       ELSE UNCHANGED todo

InboxReceive(m) ==
    /\ StartApply(m.to, "inbox", m.table)
    /\ network' = network \ {m}
    /\ UNCHANGED <<rows, clock, edits, fetched, faults, issued>>

\* GET /api/cron/gossip of n reads the snapshot of its peer p: all its rows.
FetchSnapshot(n, p) ==
    /\ n # p
    /\ fetched[n] = NoDelta
    /\ Idle(n, "ingest")
    /\ fetched' = [fetched EXCEPT ![n] = rows[p]]
    /\ UNCHANGED <<rows, clock, edits, network, todo, faults, issued>>

IngestReceive(n) ==
    /\ fetched[n] # NoDelta
    /\ fetched' = [fetched EXCEPT ![n] = NoDelta]
    /\ StartApply(n, "ingest", fetched[n])
    /\ UNCHANGED <<rows, clock, edits, network, faults, issued>>

\* Mutant: the update clause leaves the timestamp alone.
StoredKeepsTime(existing, merged) ==
    IF existing = NoRow THEN merged ELSE [merged EXCEPT !.ts = existing.ts]

\* Mutant: the update clause leaves the value alone.
StoredKeepsValue(existing, merged) ==
    IF existing = NoRow THEN merged ELSE [merged EXCEPT !.value = existing.value]

\* The upsert of a merged row replaces the whole of the stored one.
Stored(existing, merged) == merged

WriteRow(n, h, s, f) ==
    /\ todo[n][h][s][f] # NoRow
    /\ rows' = [rows EXCEPT ![n][s][f] = Stored(rows[n][s][f], todo[n][h][s][f])]
    /\ todo' = [todo EXCEPT ![n][h][s][f] = NoRow]
    /\ UNCHANGED <<clock, edits, network, fetched, faults, issued>>

\* The upserts run one after the other: the first that fails ends the handler.
ApplyFails(n, h) ==
    /\ faults < MaxFaults
    /\ ~Idle(n, h)
    /\ todo' = [todo EXCEPT ![n][h] = EmptyTable]
    /\ faults' = faults + 1
    /\ UNCHANGED <<rows, clock, edits, network, fetched, issued>>

\* A failed upsert ends a PATCH before its push.
EditFails(e) ==
    /\ faults < MaxFaults
    /\ edits' = edits \ {e}
    /\ faults' = faults + 1
    /\ UNCHANGED <<rows, clock, network, fetched, todo, issued>>

Crash(n) ==
    /\ faults < MaxFaults
    /\ edits' = {e \in edits : e.src # n}
    /\ fetched' = [fetched EXCEPT ![n] = NoDelta]
    /\ todo' = [todo EXCEPT ![n] = [h \in Handler |-> EmptyTable]]
    /\ faults' = faults + 1
    /\ UNCHANGED <<rows, clock, network, issued>>

Next ==
    \/ \E n \in Editor, to \in Place : PatchProperty(n, to)
    \/ \E e \in edits : WriteOverride(e)
    \/ \E m \in network : InboxReceive(m)
    \/ \E n, p \in Node : FetchSnapshot(n, p)
    \/ \E n \in Node : IngestReceive(n)
    \/ \E n, s \in Node, h \in Handler, f \in Field : WriteRow(n, h, s, f)
    \/ \E n \in Node, h \in Handler : ApplyFails(n, h)
    \/ \E e \in edits : EditFails(e)
    \/ \E n \in Node : Crash(n)

Spec == Init /\ [][Next]_vars

\* Handlers run to their end unless they fail; the cron visits every peer.
Fairness ==
    /\ WF_vars(\E e \in edits : WriteOverride(e))
    /\ \A n, p \in Node : SF_vars(FetchSnapshot(n, p))
    /\ \A n \in Node : WF_vars(IngestReceive(n))
    /\ \A n \in Node, h \in Handler :
          WF_vars(\E s \in Node, f \in Field : WriteRow(n, h, s, f))

FairSpec == Spec /\ Fairness
-----------------------------------------------------------------------------
\* The types of the variables.
TypeOK ==
    /\ rows \in [Node -> Table]
    /\ clock \in Nat
    /\ edits \in SUBSET Edit
    /\ network \in SUBSET Message
    /\ fetched \in [Node -> Table \cup {NoDelta}]
    /\ todo \in [Node -> [Handler -> Table]]
    /\ faults \in Nat
    /\ issued \in SUBSET Issue

\* A row under source s is one that an edit on s wrote, value and time together.
Genuine(s, f, row) == \E i \in issued : i.src = s /\ i.field = f /\ i.row = row

\* However pushes, snapshots, half-applied deltas and restarts interleave, no
\* node stores an override its source node did not write in exactly that form.
EveryOverrideWasMade ==
    \A n, s \in Node, f \in Field :
        rows[n][s][f] # NoRow => Genuine(s, f, rows[n][s][f])

\* The inductive invariant behind it: the same holds wherever a row can be, in a
\* table, in an edit, on the wire, in a snapshot and among the rows to write.
SoundRows(s, row) == \A f \in Field : row[f] # NoRow => Genuine(s, f, row[f])
SoundTable(table) == \A s \in Node : SoundRows(s, table[s])

IInv ==
    /\ TypeOK
    /\ \A n \in Node : SoundTable(rows[n])
    /\ \A n \in Node, h \in Handler : SoundTable(todo[n][h])
    /\ \A n \in Node : fetched[n] # NoDelta => SoundTable(fetched[n])
    /\ \A m \in network : SoundTable(m.table)
    /\ \A e \in edits : SoundRows(e.src, e.done)

\* The time an edit has read is its own, and none of the rows it has still to write
\* carries it already; no two rows of a field share a time.
TimesSound ==
    /\ clock <= MaxClock
    /\ \A i \in issued : i.row.ts < clock
    /\ \A i, j \in issued :
          i.src = j.src /\ i.field = j.field /\ i.row.ts = j.row.ts => i.row = j.row
    /\ \A e \in edits : e.now < clock /\ e.done["lon"] = NoRow
    /\ \A e, d \in edits : e.src = d.src /\ e.now = d.now => e = d
    /\ \A e \in edits, i \in issued :
          i.src = e.src /\ i.row.ts = e.now => e.done[i.field] # NoRow

\* The overrides without the requests, handlers and faults.  Every field of every
\* source is a key of its own; an override is never confirmed.
History == INSTANCE ProvenanceLog WITH
    Holder <- Node, Key <- Node \X Field, Owner <- [k \in Node \X Field |-> k[1]],
    Datum <- Coord \cup {Cleared}, Time <- 0..MaxClock, Quorum <- {}, Nothing <- NoRow,
    log <- {[key |-> <<i.src, i.field>>, datum |-> i.row.value, time |-> i.row.ts] :
              i \in issued},
    held <- [n \in Node |-> [k \in Node \X Field |->
               IF rows[n][k[1]][k[2]] = NoRow THEN NoRow
               ELSE [datum |-> rows[n][k[1]][k[2]].value, time |-> rows[n][k[1]][k[2]].ts,
                     confirmed |-> FALSE]]]

\* However pushes, snapshots, half-applied deltas and restarts interleave, the
\* overrides a node stores behave as copies of what was edited on their sources: no
\* two edits of a field share a time, so that the newer one is always told apart.
ImplementsLog == History!LogSpec

\* docs/GOSSIP-DEV.md: manual edits win at read time and travel through push and
\* pull.  Once editing stops, a node that is responsible for the position a
\* property has on some node shows it at that position too.
CorrectionsTravel ==
    <>[](\A n, m \in Node : EffectiveAt(m) \in Region[n] => EffectiveAt(n) = EffectiveAt(m))

\* The position a property ends up at is its base position or one that some
\* edit asked for, never the latitude of one edit with the longitude of another.
EditsStayWhole ==
    <>[](\A n \in Node : EffectiveAt(n) \in {Base} \cup {i.to : i \in issued})
=============================================================================
