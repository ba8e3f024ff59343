------------------------------- MODULE NodeData -------------------------------
(***************************************************************************)
(* What an administrator does to the data of one node: saving a region,    *)
(* backup and restore, export and import of everything, and the export and *)
(* re-import of audits around a move.  Each is a sequence of statements    *)
(* between which audits, gossip and OSM imports go on.                     *)
(***************************************************************************)
EXTENDS Naturals

CONSTANTS
    Place,       \* properties, by canonicalId and osmId
    Bbox,        \* the sets of places a region may cover
    NoBbox,      \* no region is set
    FactValue,
    NoFile,      \* nothing saved yet
    MaxIds,      \* bound: property rows ever created
    MaxAdminOps, \* bound: operations of the administrator
    MaxOthers    \* bound: steps of everyone else

ASSUME NodeDataAssumption ==
    /\ Bbox \subseteq SUBSET Place /\ NoBbox \notin Bbox
    /\ MaxIds \in Nat /\ MaxAdminOps \in Nat /\ MaxOthers \in Nat

VARIABLES
    bbox,          \* bbox of the node settings
    reimport,      \* auditedReimportPending of the node settings
    property,      \* property[p]: id of the row of place p, 0 if there is none
    factRow,       \* rows of AccessibilityFact
    nextId,
    arriving,      \* places a gossip handler has let through its bbox filter
    file,          \* the files the administrator holds
    op,            \* the operation under way
    adminOps, otherSteps,
    intruded,      \* history: places others created since the operation began
    touched        \* history: places others wrote a fact of since it began

nodeVars == <<bbox, reimport, property, factRow, nextId, arriving, file, op,
              adminOps, otherSteps, intruded, touched>>
tables == <<property, factRow, nextId>>
settings == <<bbox, reimport>>
\* Left alone by the steps of an operation; by those that begin one; by
\* everyone else.
others == <<arriving, adminOps, otherSteps, intruded, touched>>
beginning == <<arriving, otherSteps>>
admin == <<file, op, adminOps>>

\* AUDITOR facts made here and elsewhere, and OFFICIAL ones.
FactSource == {"local", "remote", "osm"}
FactScope == {"property", "room"}
FactRow == [prop : 1..MaxIds, source : FactSource, scope : FactScope, value : FactValue]
AdminStep == {"idle", "commit", "find", "purge", "purgeGossip", "pending", "backup",
              "wipe", "properties", "facts", "attach", "create", "protect", "insert"}
\* The regions of a save, what an operation noted and what it has left to write.
Idle == [at |-> "idle", old |-> NoBbox, new |-> NoBbox, ids |-> {}, rows |-> {}]

NodeInit ==
    /\ bbox \in Bbox \cup {NoBbox} /\ reimport = FALSE
    /\ property = [p \in Place |-> 0] /\ factRow = {} /\ nextId = 1
    /\ arriving = {}
    /\ file = [backup |-> NoFile, audits |-> NoFile, all |-> NoFile]
    /\ op = Idle /\ adminOps = 0 /\ otherSteps = 0
    /\ intruded = {} /\ touched = {}

Known == {p \in Place : property[p] # 0}
Ids == {property[p] : p \in Known}
PlaceOf(id) == CHOOSE p \in Place : property[p] = id

SameKey(f, g) == f.prop = g.prop /\ f.source = g.source /\ f.scope = g.scope
UpsertFact(f) == {g \in factRow : ~SameKey(f, g)} \cup {f}
CreateFacts(fs) == factRow \cup {f \in fs : ~\E g \in factRow : SameKey(f, g)}
\* Mutant: the facts stay.
DropPropertiesOnly(ids) ==
    /\ property' = [p \in Place |-> IF property[p] \in ids THEN 0 ELSE property[p]]
    /\ UNCHANGED factRow

\* onDelete: Cascade.
DropProperties(ids) ==
    /\ property' = [p \in Place |-> IF property[p] \in ids THEN 0 ELSE property[p]]
    /\ factRow' = {f \in factRow : f.prop \notin ids}

Begin(state) ==
    /\ op.at = "idle"
    /\ adminOps < MaxAdminOps
    /\ adminOps' = adminOps + 1
    /\ op' = state
    /\ intruded' = {} /\ touched' = {}

GoOn(at) == op' = [op EXCEPT !.at = at]
-----------------------------------------------------------------------------
(* What goes on meanwhile. *)

OtherStep == otherSteps < MaxOthers /\ otherSteps' = otherSteps + 1

\* An audit of a stored property, in either scope.
Audit(p, scope, v) ==
    /\ OtherStep
    /\ p \in Known
    /\ factRow' = UpsertFact([prop |-> property[p], source |-> "local",
                              scope |-> scope, value |-> v])
    /\ touched' = touched \cup {p}
    /\ UNCHANGED <<settings, property, nextId, arriving, admin, intruded>>

\* ingestOverpassResult and the receipt of gossip create what is missing; OSM
\* facts only where no audit is.
Create(p, source, v) ==
    LET id == IF p \in Known THEN property[p] ELSE nextId
        f == [prop |-> id, source |-> source, scope |-> "property", value |-> v]
    IN
    /\ id <= MaxIds
    /\ nextId' = IF p \in Known THEN nextId ELSE nextId + 1
    /\ property' = [property EXCEPT ![p] = id]
    /\ factRow' = IF source = "osm" /\ \E g \in factRow : g.prop = id /\ g.source # "osm"
                  THEN factRow ELSE UpsertFact(f)
    /\ intruded' = IF p \in Known THEN intruded ELSE intruded \cup {p}
    /\ touched' = touched \cup {p}

IngestOsm(p, v) ==
    /\ OtherStep
    /\ IF bbox = NoBbox THEN FALSE ELSE p \in bbox
    /\ Create(p, "osm", v)
    /\ UNCHANGED <<settings, arriving, admin>>

\* The inbox reads the bbox, filters, and creates the property later.
FilterGossip(p) ==
    /\ bbox # NoBbox => p \in bbox
    /\ arriving' = arriving \cup {p}
    /\ UNCHANGED <<settings, tables, admin, otherSteps, intruded, touched>>

StoreGossip(p, v) ==
    /\ OtherStep
    /\ p \in arriving
    /\ Create(p, "remote", v)
    /\ arriving' = arriving \ {p}
    /\ UNCHANGED <<settings, admin>>
-----------------------------------------------------------------------------
(* Saving a region. *)

\* Mutant: only a region that grows counts as one inside the other.
IsShrinkReversed(current, proposed) == current \subseteq proposed /\ current # proposed

IsShrink(current, proposed) == proposed \subseteq current /\ current # proposed
IsExpand(current, proposed) == current \subseteq proposed /\ current # proposed

\* classifyBboxChange: regions that overlap in part are a move or an expansion
\* by the share of their union they have in common.
BboxChanges(current, proposed) ==
    CASE current = NoBbox -> {"initial"}
      [] current # NoBbox /\ current = proposed -> {"unchanged"}
      [] current # NoBbox /\ IsShrink(current, proposed) -> {"shrink"}
      [] current # NoBbox /\ IsExpand(current, proposed) -> {"expand"}
      [] OTHER -> IF current \cap proposed = {} THEN {"move"} ELSE {"move", "expand"}

\* saveRegionBbox plans from the settings it reads; a move needs the
\* administrator's word that the audits are exported, not the file.
PlanSave(new) ==
    /\ Begin([Idle EXCEPT !.at = "commit", !.old = bbox, !.new = new])
    /\ UNCHANGED <<settings, tables, beginning, file>>

CommitNodeBbox ==
    /\ op.at = "commit"
    /\ bbox' = op.new
    /\ \E change \in BboxChanges(op.old, op.new) :
         /\ op' = [op EXCEPT !.at = IF change = "shrink" THEN "find" ELSE "pending",
                             !.rows = {change}]
    /\ UNCHANGED <<reimport, tables, file, others>>

Outside(new) == {property[p] : p \in Known \ new}

\* purgeOutsideBbox lists the properties and then deletes those it found.
FindOutside ==
    /\ op.at = "find"
    /\ op' = [op EXCEPT !.at = "purge", !.ids = Outside(op.new)]
    /\ UNCHANGED <<settings, tables, file, others>>

PurgeOutside ==
    /\ op.at = "purge"
    /\ DropProperties(op.ids)
    /\ GoOn("purgeGossip")
    /\ UNCHANGED <<settings, nextId, file, others>>

\* What arrived since keeps its property and loses the facts of other nodes.
PurgeGossipOutside ==
    /\ op.at = "purgeGossip"
    /\ factRow' = {f \in factRow : f.prop \notin Outside(op.new) \/ f.source = "local"}
    /\ GoOn("pending")
    /\ UNCHANGED <<settings, property, nextId, file, others>>

SetReimportPending ==
    /\ op.at = "pending"
    /\ reimport' = ("move" \in op.rows)
    /\ op' = Idle
    /\ UNCHANGED <<bbox, tables, file, others>>
-----------------------------------------------------------------------------
(* Files: every fact with the place and the id of its property. *)

Written(fs) == {[place |-> PlaceOf(f.prop), row |-> f] : f \in fs}

\* The backup reads its tables side by side: here the properties, then the
\* facts, or both at once.
StartBackup ==
    /\ Begin([Idle EXCEPT !.at = "backup", !.rows = {[place |-> p, id |-> property[p]] : p \in Known}])
    /\ UNCHANGED <<settings, tables, beginning, file>>

FinishBackup ==
    /\ op.at = "backup"
    /\ file' = [file EXCEPT !.backup = [properties |-> op.rows, facts |-> factRow,
                                         bbox |-> bbox, reimport |-> reimport]]
    /\ op' = Idle
    /\ UNCHANGED <<settings, tables, others>>

ExportAudits ==
    /\ Begin(Idle)
    /\ file' = [file EXCEPT !.audits = Written({f \in factRow : f.source # "osm"})]
    /\ UNCHANGED <<settings, tables, beginning>>

ExportAll ==
    /\ Begin(Idle)
    /\ file' = [file EXCEPT !.all = [properties |-> Known, facts |-> Written(factRow)]]
    /\ UNCHANGED <<settings, tables, beginning>>
-----------------------------------------------------------------------------
(* Restore: a wipe, then row by row what the backup has and nothing prevents. *)

StartRestore ==
    /\ file.backup # NoFile
    /\ Begin([Idle EXCEPT !.at = "wipe"])
    /\ UNCHANGED <<settings, tables, beginning, file>>

Wipe ==
    /\ op.at = "wipe"
    /\ DropProperties(Ids)
    /\ op' = [op EXCEPT !.at = "properties", !.rows = file.backup.properties]
    /\ UNCHANGED <<settings, nextId, file, others>>

\* A place that came back meanwhile is skipped with a warning.
RestoreProperty ==
    /\ op.at = "properties"
    /\ IF op.rows = {}
       THEN /\ op' = [op EXCEPT !.at = "facts", !.rows = file.backup.facts]
            /\ UNCHANGED property
       ELSE \E r \in op.rows :
              /\ op' = [op EXCEPT !.rows = @ \ {r}]
              /\ property' = IF r.place \in Known THEN property
                             ELSE [property EXCEPT ![r.place] = r.id]
    /\ UNCHANGED <<settings, factRow, nextId, file, others>>

\* Mutant: only the facts of this node are restored.
RestorableOwn(f) == f.prop \in Ids /\ f.source = "local"

\* The foreign key.
Restorable(f) == f.prop \in Ids

\* The scope is left out; a second fact of the key is skipped.  Last come the
\* settings.
RestoreFact ==
    /\ op.at = "facts"
    /\ IF op.rows = {}
       THEN /\ op' = Idle
            /\ bbox' = file.backup.bbox /\ reimport' = file.backup.reimport
            /\ UNCHANGED factRow
       ELSE \E f \in op.rows :
              /\ UNCHANGED settings
              /\ op' = [op EXCEPT !.rows = @ \ {f}]
              /\ factRow' = CreateFacts({g \in {[f EXCEPT !.scope = "property"]} : Restorable(g)})
    /\ UNCHANGED <<property, nextId, file, others>>
-----------------------------------------------------------------------------
(* Re-import of audits, and import of everything. *)

StartReattach ==
    /\ file.audits # NoFile
    /\ Begin([Idle EXCEPT !.at = "attach", !.ids = Known, !.rows = file.audits])
    /\ UNCHANGED <<settings, tables, beginning, file>>

\* Mutant: facts are attached by the id their property had.
LocalIdSame(r) == r.row.prop

\* idMap: the row that has the osmId or canonicalId of the exported property.
LocalId(r) == property[r.place]

\* Fact by fact, over whatever is stored; last the note of the move is cleared.
Reattach ==
    /\ op.at = "attach"
    /\ IF op.rows = {}
       THEN op' = Idle /\ reimport' = FALSE /\ UNCHANGED factRow
       ELSE \E r \in op.rows :
              /\ op' = [op EXCEPT !.rows = @ \ {r}]
              /\ factRow' = IF r.place \in op.ids /\ LocalId(r) \in Ids
                            THEN UpsertFact([r.row EXCEPT !.prop = LocalId(r)]) ELSE factRow
              /\ UNCHANGED reimport
    /\ UNCHANGED <<bbox, property, nextId, file, others>>

StartImportAll ==
    /\ file.all # NoFile
    /\ Begin([Idle EXCEPT !.at = "create", !.ids = file.all.properties])
    /\ UNCHANGED <<settings, tables, beginning, file>>

\* Batches of createMany with skipDuplicates; a retry repeats one.
ImportProperty ==
    /\ op.at = "create"
    /\ IF op.ids = {}
       THEN GoOn("protect") /\ UNCHANGED <<property, nextId>>
       ELSE \E p \in op.ids :
              /\ op' = [op EXCEPT !.ids = @ \ {p}]
              /\ IF p \in Known THEN UNCHANGED <<property, nextId>>
                 ELSE /\ nextId <= MaxIds
                      /\ nextId' = nextId + 1
                      /\ property' = [property EXCEPT ![p] = nextId]
    /\ UNCHANGED <<settings, factRow, file, others>>

\* Facts of properties that have a VERIFIED or CONFIRMED one for the field are
\* left out.
NoteProtected ==
    /\ op.at = "protect"
    /\ op' = [op EXCEPT !.at = "insert",
                        !.rows = {r \in file.all.facts :
                                    ~\E f \in factRow : f.prop = property[r.place] /\ f.source # "osm"}]
    /\ UNCHANGED <<settings, tables, file, others>>

InsertFacts ==
    /\ op.at = "insert"
    /\ factRow' = CreateFacts({[r.row EXCEPT !.prop = property[r.place]] : r \in op.rows})
    /\ op' = Idle
    /\ UNCHANGED <<settings, property, nextId, file, others>>

\* The process stops: the operation is left half done.
NodeRestart ==
    /\ op.at # "idle"
    /\ op' = Idle
    /\ arriving' = {}
    /\ UNCHANGED <<settings, tables, file, adminOps, otherSteps, intruded, touched>>

NodeNext ==
    \/ \E p \in Place : FilterGossip(p)
    \/ \E p \in Place, v \in FactValue :
         \/ \E scope \in FactScope : Audit(p, scope, v)
         \/ IngestOsm(p, v)
         \/ StoreGossip(p, v)
    \/ \E new \in Bbox : PlanSave(new)
    \/ CommitNodeBbox \/ FindOutside \/ PurgeOutside \/ PurgeGossipOutside \/ SetReimportPending
    \/ StartBackup \/ FinishBackup \/ ExportAudits \/ ExportAll
    \/ StartRestore \/ Wipe \/ RestoreProperty \/ RestoreFact
    \/ StartReattach \/ Reattach \/ StartImportAll \/ ImportProperty \/ NoteProtected \/ InsertFacts
    \/ NodeRestart

NodeSpec == NodeInit /\ [][NodeNext]_nodeVars
-----------------------------------------------------------------------------
\* The types of the variables; every fact has its property.
NodeDataTypeOK ==
    /\ bbox \in Bbox \cup {NoBbox} /\ reimport \in BOOLEAN
    /\ property \in [Place -> 0..MaxIds]
    /\ \A p, q \in Known : p # q => property[p] # property[q]
    /\ factRow \in SUBSET FactRow /\ \A f \in factRow : f.prop \in Ids
    /\ nextId \in 1..(MaxIds + 1)
    /\ arriving \in SUBSET Place
    /\ op.at \in AdminStep
    /\ intruded \in SUBSET Place /\ touched \in SUBSET Place

\* When a region that shrinks is saved, no property is left outside it but
\* those that gossip, let through earlier, or an import created meanwhile.
ShrinkLeavesNothingOutside ==
    (op.at = "pending" /\ op.old # NoBbox /\ op.new \subseteq op.old /\ op.new # op.old)
        => \A p \in Known : p \in bbox \/ p \in intruded

\* A restore brings back a fact for every property, field and source of the
\* backup, with a value of the backup, though audits, imports and gossip go on:
\* only a property that others created in the gap loses its facts.
RestoreBringsBack ==
    (op.at = "facts" /\ op.rows = {}) =>
        \A f \in file.backup.facts, r \in file.backup.properties :
            (r.id = f.prop /\ r.place \notin intruded) =>
                \E g \in factRow :
                    /\ g.prop = r.id /\ g.source = f.source /\ g.scope = "property"
                    /\ \/ r.place \in touched
                       \/ \E h \in file.backup.facts :
                            h.prop = f.prop /\ h.source = f.source /\ h.value = g.value

\* After a re-import every exported audit is stored again, in its scope, for
\* each property the node had when it began, whatever id the property has now.
ReattachIsComplete ==
    (op.at = "attach" /\ op.rows = {}) =>
        \A r \in {r \in file.audits : r.place \in op.ids} :
            \E g \in factRow :
                /\ SameKey(g, [r.row EXCEPT !.prop = property[r.place]])
                /\ r.place \in touched \/ g.value = r.row.value
=============================================================================
