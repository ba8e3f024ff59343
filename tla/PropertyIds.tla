----------------------------- MODULE PropertyIds -----------------------------
(***************************************************************************)
(* How a node takes in facts of properties that other nodes know by ids of *)
(* their own: each delta brings its properties, their rows are found or    *)
(* created by canonical id, and the facts get the id of the local row.     *)
(* Deltas of several peers are handled side by side, one statement at a    *)
(* time, while properties are created, renamed, linked and deleted here.   *)
(***************************************************************************)
EXTENDS Naturals, FiniteSets

CONSTANTS
    Sender,          \* peers; each has one delta in the works
    Canonical,           \* canonical ids; also the osmId of the place
    RowId,           \* ids of rows, never given twice; bound: properties made
    NotMade,           \* an id not given yet
    Gone,            \* an id whose row is deleted
    NoOsm,           \* osmId is null
    MaxPropertyOps   \* bound: deltas, and changes made at this node

Property == [place : Canonical, osm : Canonical \cup {NoOsm}]

ASSUME PropertyAssumption ==
    /\ NotMade # Gone /\ NotMade \notin Property /\ Gone \notin Property
    /\ NoOsm \notin Canonical
    /\ MaxPropertyOps \in Nat

VARIABLES
    row,           \* row[i]: the property with id i
    delta,         \* the delta of each peer that is being handled
    attached,          \* stored facts: the id of their property, whose they are, and of what place
    propertyOps,
    answered,      \* history: facts the peer was told have been taken
    named          \* history: the canonical ids each row has had

propertyVars == <<row, delta, attached, propertyOps, answered, named>>

NoDelta == [at |-> "idle", places |-> {}, seen |-> [p \in {} |-> NotMade], bare |-> {},
            left |-> {}, ids |-> [p \in {} |-> NotMade]]

PropertyInit ==
    /\ row = [i \in RowId |-> NotMade]
    /\ delta = [s \in Sender |-> NoDelta]
    /\ attached = {}
    /\ propertyOps = 0
    /\ answered = {} /\ named = {}

PropertyOp == propertyOps < MaxPropertyOps /\ propertyOps' = propertyOps + 1

Live(i) == row[i] \notin {NotMade, Gone}
RowsFor(p) == {i \in RowId : Live(i) /\ row[i].place = p}
Unused == {i \in RowId : row[i] = NotMade}
NewId == CHOOSE i \in Unused : TRUE

\* Mutant: the canonical id is not unique.
TakenOsmOnly(i, new) ==
    \E j \in RowId \ {i} : Live(j) /\ new.osm # NoOsm /\ row[j].osm = new.osm

\* What no second row may have: the canonical id, and an osmId that is not null.
Taken(i, new) ==
    \E j \in RowId \ {i} : Live(j) /\ \/ row[j].place = new.place
                                      \/ new.osm # NoOsm /\ row[j].osm = new.osm

SetRow(i, new) ==
    /\ ~Taken(i, new)
    /\ row' = [row EXCEPT ![i] = new]
    /\ named' = named \cup {<<i, new.place>>}
-----------------------------------------------------------------------------
(* Changes made at this node. *)

\* POST properties, or an import from OpenStreetMap, which knows the osmId.
CreateProperty(p) ==
    /\ PropertyOp
    /\ Unused # {}
    /\ \E osm \in {p, NoOsm} : SetRow(NewId, [place |-> p, osm |-> osm])
    /\ UNCHANGED <<delta, attached, answered>>

\* PATCH properties/:id: another canonical id, if there is no osmId.
RenameProperty(i, p) ==
    /\ PropertyOp
    /\ Live(i) /\ row[i].osm = NoOsm
    /\ SetRow(i, [row[i] EXCEPT !.place = p])
    /\ UNCHANGED <<delta, attached, answered>>

\* PATCH external-ids: any osmId that no other row has.
LinkProperty(i, p) ==
    /\ PropertyOp
    /\ Live(i)
    /\ SetRow(i, [row[i] EXCEPT !.osm = p])
    /\ UNCHANGED <<delta, attached, answered>>

\* DELETE properties/:id, with its facts.
DeleteProperty(i) ==
    /\ PropertyOp
    /\ Live(i)
    /\ row' = [row EXCEPT ![i] = Gone]
    /\ attached' = {f \in attached : f.id # i}
    /\ answered' = answered \ {[sender |-> f.sender, place |-> f.place] :
                                 f \in {f \in attached : f.id = i}}
    /\ UNCHANGED <<delta, named>>
-----------------------------------------------------------------------------
(* POST inbox or gossip ingest: upsertGossipProperties, then the facts. *)

\* The rows of the delta's places are read.
ReceiveDelta(s, places) ==
    LET known == {p \in places : RowsFor(p) # {}} IN
    /\ PropertyOp
    /\ delta[s].at = "idle"
    /\ delta' = [delta EXCEPT ![s] = [NoDelta EXCEPT
         !.at = "upsert", !.places = places, !.left = places,
         !.seen = [p \in known |-> CHOOSE i \in RowsFor(p) : TRUE],
         !.bare = {p \in known : \A i \in RowsFor(p) : row[i].osm = NoOsm}]]
    /\ UNCHANGED <<row, attached, answered, named>>

\* One of the statements that run side by side is done, or has thrown: then the
\* delta is refused, and the others still run.
Done(s, p) == delta' = [delta EXCEPT ![s].left = @ \ {p}]
Threw(s, p) == delta' = [delta EXCEPT ![s].left = @ \ {p},
                                     ![s].at = IF @ \in {"facts", "torn"} THEN "torn" ELSE "refused"]

\* A place that had no row is created; one whose row had no osmId when it was
\* read gets the peer's (NoOsm: the peer has none, or the row had one).
UpsertProperty(s, p) ==
    LET Write(i, new) == \/ SetRow(i, new) /\ Done(s, p)
                         \/ Taken(i, new) /\ Threw(s, p) /\ UNCHANGED <<row, named>>
    IN
    /\ delta[s].at \in {"upsert", "refused"}
    /\ p \in delta[s].left
    /\ \E osm \in {p, NoOsm} :
         IF p \notin DOMAIN delta[s].seen
         THEN Unused # {} /\ Write(NewId, [place |-> p, osm |-> osm])
         ELSE LET i == delta[s].seen[p] IN
              \/ osm = NoOsm /\ Done(s, p) /\ UNCHANGED <<row, named>>
              \/ osm = p /\ p \in delta[s].bare /\ Live(i) /\ Write(i, [row[i] EXCEPT !.osm = p])
              \/ osm = p /\ p \in delta[s].bare /\ ~Live(i) /\ Threw(s, p) /\ UNCHANGED <<row, named>>
    /\ UNCHANGED <<attached, propertyOps, answered>>

\* Mutant: the rows found are taken to be in the order of the places.
IdMapAny(places) ==
    LET rows == UNION {RowsFor(p) : p \in places}
    IN [p \in {p \in places : rows # {}} |-> CHOOSE i \in rows : TRUE]

\* The ids of the places that have a row by now.
IdMap(places) ==
    [p \in {p \in places : RowsFor(p) # {}} |-> CHOOSE i \in RowsFor(p) : TRUE]

ReadIds(s) ==
    /\ delta[s].at = "upsert" /\ delta[s].left = {}
    /\ delta' = [delta EXCEPT ![s].at = "facts", ![s].left = delta[s].places,
                              ![s].ids = IdMap(delta[s].places)]
    /\ UNCHANGED <<row, attached, propertyOps, answered, named>>

\* The fact of a place without a row keeps the peer's id, which no row here has.
StoreFact(s, p) ==
    /\ delta[s].at \in {"facts", "torn"}
    /\ p \in delta[s].left
    /\ IF p \in DOMAIN delta[s].ids /\ Live(delta[s].ids[p])
       THEN /\ attached' = attached \cup {[id |-> delta[s].ids[p], sender |-> s, place |-> p]}
            /\ Done(s, p)
       ELSE Threw(s, p) /\ UNCHANGED attached
    /\ UNCHANGED <<row, propertyOps, answered, named>>

AnswerDelta(s) ==
    /\ delta[s].at = "facts" /\ delta[s].left = {}
    /\ delta' = [delta EXCEPT ![s] = NoDelta]
    \* What was deleted since it was stored is not there any more.
    /\ answered' = answered \cup
         {[sender |-> s, place |-> p] : p \in {p \in delta[s].places : Live(delta[s].ids[p])}}
    /\ UNCHANGED <<row, attached, propertyOps, named>>

RefuseDelta(s) ==
    /\ delta[s].at \in {"refused", "torn"} /\ delta[s].left = {}
    /\ delta' = [delta EXCEPT ![s] = NoDelta]
    /\ UNCHANGED <<row, attached, propertyOps, answered, named>>

PropertyNext ==
    \/ \E p \in Canonical : CreateProperty(p)
    \/ \E i \in RowId : DeleteProperty(i) \/ \E p \in Canonical : RenameProperty(i, p) \/ LinkProperty(i, p)
    \/ \E s \in Sender :
         \/ \E places \in SUBSET Canonical : places # {} /\ ReceiveDelta(s, places)
         \/ \E p \in Canonical : UpsertProperty(s, p) \/ StoreFact(s, p)
         \/ ReadIds(s) \/ AnswerDelta(s) \/ RefuseDelta(s)

PropertySpec == PropertyInit /\ [][PropertyNext]_propertyVars
-----------------------------------------------------------------------------
(* Properties. *)

\* The types of the variables; concurrent deltas never make two rows of one
\* canonical id, or give one osmId to two.
PropertyTypeOK ==
    /\ row \in [RowId -> Property \cup {NotMade, Gone}]
    /\ \A i, j \in RowId : i # j /\ Live(i) /\ Live(j) =>
         /\ row[i].place # row[j].place
         /\ row[i].osm # NoOsm => row[i].osm # row[j].osm
    /\ \A s \in Sender :
         /\ delta[s].at \in {"idle", "upsert", "refused", "facts", "torn"}
         /\ delta[s].left \subseteq delta[s].places /\ delta[s].places \subseteq Canonical
    /\ attached \subseteq [id : RowId, sender : Sender, place : Canonical]
    /\ answered \subseteq [sender : Sender, place : Canonical]
    /\ named \subseteq RowId \X Canonical /\ propertyOps \in Nat

\* A fact that a peer was told is taken is attached until its property is deleted,
\* under a row that is or was of the place the peer means, whatever other
\* deltas and the operators of the node do between the statements of its own.
AnsweredMeansAttached ==
    \A a \in answered : \E f \in attached :
        /\ f.sender = a.sender /\ f.place = a.place
        /\ <<f.id, f.place>> \in named
=============================================================================
