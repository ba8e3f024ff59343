----------------------------- MODULE FactWriters -----------------------------
(***************************************************************************)
(* Everything that writes the facts of one field of one property on one    *)
(* node: auditors' submissions and their deletion, the imports from OSM    *)
(* and Wheelmap, the two AI analyses, and the receipt of gossip.  Each     *)
(* reads the facts first and writes them in later statements.              *)
(***************************************************************************)
EXTENDS FactMerge

CONSTANTS
    Importer,    \* subset of {"osm", "wheelmap", "scan", "vision"}
    Human,       \* the auditors that are people
    Client,      \* concurrent calls of the audit endpoints
    NoCall,      \* idle
    MaxWrites,   \* bound: the clock, which every write and submission advances
    MaxReceipts  \* bound: payloads received

\* Rows carry NODE_ID, NODE_ID:osm, NODE_ID:wheelmap, NODE_ID:ai-agent or the
\* id of another node as source.
SourceOf == [osm |-> "osm", wheelmap |-> "wheelmap", scan |-> "ai-agent", vision |-> "ai-agent"]
AuthorOf == [osm |-> "osm-ingest", wheelmap |-> "wheelmap-sync", scan |-> "ai-agent",
             vision |-> "ai-agent"]
Scope == {"property", "room"}

Submission == [at : Nat, scope : Scope, value : Value, by : Human]
AuditCall == [op : {"audit", "reconcile", "remove", "delete"}, sub : Submission]

ASSUME WritersAssumption ==
    /\ Importer \subseteq DOMAIN SourceOf
    /\ {"local", "remote"} \cup {SourceOf[w] : w \in Importer} \subseteq Source
    /\ Human \cup {AuthorOf[w] : w \in Importer} \subseteq Auditor
    /\ NoCall \notin Value \cup AuditCall
    /\ MaxWrites \in Nat /\ MaxReceipts \in Nat

VARIABLES
    fact,        \* the table AccessibilityFact: fact[scope] is a Table
    submission,  \* the table AuditSubmission
    import,      \* import[w]: the value importer w is about to write
    call,        \* the calls of the audit endpoints under way
    receipt,     \* upserts of a received payload still to be made
    clock, receipts,
    pushed,        \* the audits pushed, which peers may send back
    agreed,      \* history: values promoted in a merge
    late,        \* history: imports that had read the facts before a promotion
    raced,       \* history: two calls of the audit endpoints overlapped
    echoed,      \* history: gossip changed a row of this node's own
    dropped      \* history: the submissions deleted

writersVars == <<fact, submission, import, call, receipt, clock, receipts,
                 pushed, agreed, late, raced, echoed, dropped>>

\* Changed only by the audit endpoints, and only by gossip.
auditOnly == <<submission, call, pushed, raced, dropped>>
gossipOnly == <<receipt, receipts, agreed, late, echoed>>

Upsert == [source : Source, scope : Scope, fact : Row]

WritersInit ==
    /\ fact = [s \in Scope |-> EmptyTable]
    /\ submission = {}
    /\ import = [w \in Importer |-> NoCall]
    /\ call = [c \in Client |-> NoCall]
    /\ receipt = {}
    /\ clock = 0 /\ receipts = 0
    /\ pushed = {} /\ agreed = {} /\ late = {} /\ raced = FALSE /\ echoed = FALSE /\ dropped = {}

\* The stored rows, whatever their scope.
Stored == {fact[s][src] : s \in Scope, src \in Source} \ {NoRow}

Tick == clock < MaxWrites /\ clock' = clock + 1

\* Mutant: the key of the upsert leaves the source out.
SetFactOfScope(s, src, row) == fact' = [fact EXCEPT ![s] = row]

SetFact(s, src, row) == fact' = [fact EXCEPT ![s][src] = row]
-----------------------------------------------------------------------------
(* Imports and analyses. *)

\* Mutant: CONFIRMED fields are not spared.
ProtectedVerifiedOnly(w) == \E row \in Stored : row.tier = "VERIFIED"

\* An import spares fields that are VERIFIED or CONFIRMED from any source; the
\* scan also those that have a guess.
Protected(w) ==
    \E row \in Stored : \/ row.tier \in {"VERIFIED", "CONFIRMED"}
                        \/ w = "scan" /\ row.tier = "AI_GUESS"

\* The importer reads the protected fields and goes on to write (the vision
\* model has answered after the read, OSM and Wheelmap before it).
StartImport(w, v) ==
    /\ import[w] = NoCall
    /\ ~Protected(w)
    /\ import' = [import EXCEPT ![w] = v]
    /\ UNCHANGED <<fact, clock, auditOnly, gossipOnly>>

\* An update writes the value, and the tier only if the AI makes it; the row
\* is always that of the property as a whole.
WriteImport(w) ==
    LET src == SourceOf[w]
        old == fact["property"][src]
        tier == IF src = "ai-agent" THEN "AI_GUESS" ELSE "OFFICIAL"
    IN
    /\ import[w] # NoCall
    /\ Tick
    /\ SetFact("property", src,
         IF old = NoRow
         THEN [value |-> import[w], tier |-> tier, by |-> AuthorOf[w], ts |-> clock']
         ELSE [old EXCEPT !.value = import[w], !.ts = clock',
                          !.tier = IF tier = "AI_GUESS" THEN tier ELSE @])
    /\ import' = [import EXCEPT ![w] = NoCall]
    /\ UNCHANGED <<auditOnly, gossipOnly>>
-----------------------------------------------------------------------------
(* POST accessibility: a submission, then the fact.  A confirmation only    *)
(* restricts the value to the one shown.                                    *)

Busy == {c \in Client : call[c] # NoCall}

BeginCall(c, state) ==
    /\ call[c] = NoCall
    /\ call' = [call EXCEPT ![c] = state]
    /\ raced' = (raced \/ Busy # {})

CreateSubmission(c, a, s, v) ==
    LET new == [at |-> clock + 1, scope |-> s, value |-> v, by |-> a] IN
    /\ Tick
    /\ BeginCall(c, [op |-> "audit", sub |-> new])
    /\ submission' = submission \cup {new}
    /\ UNCHANGED <<fact, import, dropped, pushed, gossipOnly>>

WriteAudit(c) ==
    LET sub == call[c].sub IN
    /\ call[c] # NoCall /\ call[c].op = "audit"
    /\ Tick
    /\ SetFact(sub.scope, "local",
               [value |-> sub.value, tier |-> "VERIFIED", by |-> sub.by, ts |-> clock'])
    /\ pushed' = pushed \cup {[source |-> "local", scope |-> sub.scope,
                           fact |-> fact'[sub.scope]["local"]]}
    /\ call' = [call EXCEPT ![c] = NoCall]
    /\ UNCHANGED <<submission, import, raced, dropped, gossipOnly>>
-----------------------------------------------------------------------------
(* DELETE audit-submissions and reconcileFactsAfterSubmissionDelete. *)

\* Mutant: an older submission counts as newer.
NewerAny(sub) == {o \in submission \ {sub} : o.scope = sub.scope}

\* Mutant: only what others said later counts.
NewerOfOthers(sub) ==
    {o \in submission \ {sub} : o.scope = sub.scope /\ o.at > sub.at /\ o.by # sub.by}

\* Submissions after sub that speak of the same field and scope.
Newer(sub) == {o \in submission \ {sub} : o.scope = sub.scope /\ o.at > sub.at}

\* The submission and the remaining ones are read; with a newer one for the
\* key there is nothing to reconcile.
StartDelete(c, sub) ==
    /\ BeginCall(c, [op |-> IF Newer(sub) = {} THEN "reconcile" ELSE "delete", sub |-> sub])
    /\ UNCHANGED <<fact, submission, import, clock, dropped, pushed, gossipOnly>>

\* The local row still is the one the submission made.
Matches(row, sub) == row.value = sub.value /\ row.by = sub.by

FindFact(c) ==
    LET sub == call[c].sub
        row == fact[sub.scope]["local"]
    IN
    /\ call[c] # NoCall /\ call[c].op = "reconcile"
    /\ call' = [call EXCEPT ![c].op =
                  IF row # NoRow /\ Matches(row, sub) THEN "remove" ELSE "delete"]
    /\ UNCHANGED <<fact, submission, import, clock, raced, dropped, pushed, gossipOnly>>

\* Deleted by id, whatever the row says by now; a row that is gone is an error
\* that leaves the submission.
RemoveFact(c) ==
    LET s == call[c].sub.scope IN
    /\ call[c] # NoCall /\ call[c].op = "remove"
    /\ SetFact(s, "local", NoRow)
    /\ call' = [call EXCEPT ![c] = IF fact[s]["local"] = NoRow THEN NoCall
                                   ELSE [@ EXCEPT !.op = "delete"]]
    /\ UNCHANGED <<submission, import, clock, raced, dropped, pushed, gossipOnly>>

DeleteSubmission(c) ==
    /\ call[c] # NoCall /\ call[c].op = "delete"
    /\ submission' = submission \ {call[c].sub}
    /\ dropped' = dropped \cup {call[c].sub}
    /\ call' = [call EXCEPT ![c] = NoCall]
    /\ UNCHANGED <<fact, import, clock, raced, pushed, gossipOnly>>
-----------------------------------------------------------------------------
(* The receipt of gossip, with the scopes.  Stored facts are read without    *)
(* their scope, so every one of them, merged, is written back as a fact of   *)
(* the property; only the incoming fact has one.                             *)

\* The list the merge starts from: "from" says what the merge does not see.
Read == UNION {{[source |-> src, from |-> s, fact |-> fact[s][src]] :
                  src \in {src \in Source : fact[s][src] # NoRow}} : s \in Scope}

\* The lists mergeGossipDelta may make of the read facts and the incoming u: u
\* takes the place of a fact of its source it supersedes, is left out, or is
\* appended.  It is compared with the first one found; a room fact finds none.
Merged(u) ==
    LET in == [source |-> u.source, from |-> "peer", fact |-> u.fact]
        same == IF u.scope = "room" THEN {} ELSE {r \in Read : r.source = u.source}
    IN IF same = {} THEN {Read \cup {in}}
       ELSE {IF Supersedes(u.fact, r.fact) THEN (Read \ {r}) \cup {in} ELSE Read : r \in same}

\* The scope a merged fact is evaluated and written under.
Target(m, u) == IF m.from = "peer" THEN u.scope ELSE "property"

\* evaluateConfirmed: enough authors of the list agree with m.
Promoted(list, u, m) ==
    LET backing == {o \in list : o.fact.value = m.fact.value /\ Target(o, u) = Target(m, u)}
    IN Cardinality({o.fact.by : o \in backing} \ {NoAuditor}) >= ConfirmThreshold

ReceiveGossip(u) ==
    /\ receipt = {}
    /\ receipts < MaxReceipts
    /\ receipts' = receipts + 1
    /\ \E list \in Merged(u) :
         LET promoted == {m \in list : Promoted(list, u, m)} IN
         /\ receipt' = {[source |-> m.source, scope |-> Target(m, u),
                         fact |-> IF m \in promoted
                                  THEN [m.fact EXCEPT !.tier = "CONFIRMED"] ELSE m.fact] :
                        m \in list}
         /\ agreed' = agreed \cup {m.fact.value : m \in promoted}
    /\ UNCHANGED <<fact, import, clock, late, echoed, auditOnly>>

\* An upsert that finds the row leaves its author; one that creates it leaves
\* the scope out, and fails when the property already has such a row.
WriteMerged(m) ==
    LET old == fact[m.scope][m.source]
        whole == fact["property"][m.source]
    IN
    /\ m \in receipt
    /\ receipt' = receipt \ {m}
    /\ IF old # NoRow
       THEN /\ SetFact(m.scope, m.source, [m.fact EXCEPT !.by = old.by])
            /\ echoed' = (echoed \/ (m.source = "local" /\ old.value # m.fact.value))
       ELSE IF whole # NoRow THEN UNCHANGED <<fact, echoed>>
       ELSE /\ SetFact("property", m.source, m.fact)
            /\ echoed' = (echoed \/ m.source = "local")
    /\ late' = IF m.fact.tier = "CONFIRMED"
               THEN late \cup {SourceOf[w] : w \in {w \in Importer : import[w] # NoCall}}
               ELSE late
    /\ UNCHANGED <<import, clock, receipts, agreed, auditOnly>>

\* What peers send: their own audits, and those of this node relayed.
Incoming ==
    pushed \cup [source : {"remote"}, scope : Scope,
               fact : [value : Value, tier : {"VERIFIED"}, by : Human, ts : {clock}]]

WritersNext ==
    \/ \E w \in Importer : (\E v \in Value : StartImport(w, v)) \/ WriteImport(w)
    \/ \E c \in Client :
         \/ \E a \in Human, s \in Scope, v \in Value : CreateSubmission(c, a, s, v)
         \/ WriteAudit(c)
         \/ \E sub \in submission : StartDelete(c, sub)
         \/ FindFact(c) \/ RemoveFact(c) \/ DeleteSubmission(c)
    \/ \E u \in Incoming : ReceiveGossip(u)
    \/ \E m \in receipt : WriteMerged(m)

WritersSpec == WritersInit /\ [][WritersNext]_writersVars
-----------------------------------------------------------------------------
(* What GET accessibility shows. *)

\* Tiers are compared as strings, after the promotions of evaluateMeshTruth.
StringRank == [AI_GUESS |-> 0, CONFIRMED |-> 1, OFFICIAL |-> 2, VERIFIED |-> 3]

Evaluated(s) == {EvaluateConfirmed(fact[s])[src] : src \in Source} \ {NoRow}

\* The rows one of which is shown for scope s: the first in a list by time.
Shown(s) ==
    {row \in Evaluated(s) :
        \A o \in Evaluated(s) : \/ StringRank[o.tier] < StringRank[row.tier]
                                \/ o.tier = row.tier /\ o.ts <= row.ts}

\* The types of the variables.
WritersTypeOK ==
    /\ fact \in [Scope -> Table]
    /\ submission \in SUBSET Submission /\ dropped \in SUBSET Submission
    /\ import \in [Importer -> Value \cup {NoCall}]
    /\ call \in [Client -> AuditCall \cup {NoCall}]
    /\ receipt \in SUBSET Upsert /\ pushed \in SUBSET Upsert
    /\ clock \in 0..MaxWrites /\ receipts \in 0..MaxReceipts
    /\ agreed \in SUBSET Value /\ late \in SUBSET Source
    /\ raced \in BOOLEAN /\ echoed \in BOOLEAN

\* Whatever is audited and deleted in whatever order, a fact of this node's own
\* has a submission that made it, unless two calls overlapped or a peer sent a
\* deleted audit back: no orphan is left that nobody can delete.
LocalFactHasSubmission ==
    (~raced /\ ~echoed) =>
        \A s \in Scope : fact[s]["local"] # NoRow =>
            \E sub \in submission : sub.scope = s /\ Matches(fact[s]["local"], sub)

\* With the same exceptions, the newest submission for a key is what the node
\* stores, unless a still newer one was deleted: deleting an older submission
\* never takes away what a newer one said.
NewestSubmissionHasFact ==
    (~raced /\ ~echoed /\ Busy = {}) =>
        \A sub \in submission :
            (\A o \in submission \cup dropped : o.scope = sub.scope => o.at <= sub.at)
                => /\ fact[sub.scope]["local"] # NoRow
                   /\ Matches(fact[sub.scope]["local"], sub)

\* A CONFIRMED row has a value that enough authors agreed on in some merge,
\* unless an import that had read the facts before the promotion was stored
\* wrote it: imports leave the tier, so they must never meet a CONFIRMED row.
ConfirmedValueWasAgreed ==
    \A s \in Scope, src \in Source \ late :
        (fact[s][src] # NoRow /\ fact[s][src].tier = "CONFIRMED") => fact[s][src].value \in agreed

\* packages/core/src/merge.ts:10 "return the one with the highest reliability
\* tier": what an auditor reported is never hidden behind an import or a guess.
AuditedFactIsShown ==
    \A s \in Scope :
        (\E o \in Evaluated(s) : o.tier \in {"VERIFIED", "CONFIRMED"})
            => \A row \in Shown(s) : row.tier \in {"VERIFIED", "CONFIRMED"}
=============================================================================
