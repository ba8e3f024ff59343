-------------------------- MODULE FactWriters_proofs --------------------------
(***************************************************************************)
(* Theorems about FactWriters for any sources, people, values, importers   *)
(* and concurrent calls, and any threshold and bounds.                     *)
(***************************************************************************)
EXTENDS FactWriters, TLAPS

-----------------------------------------------------------------------------
(* The types.  What the operators of the actions return comes first.        *)

\* An upsert changes one row of one scope.
LEMMA SetFactSets ==
    ASSUME fact \in [Scope -> Table], NEW s \in Scope, NEW src \in Source,
           NEW row \in Row \cup {NoRow}, SetFact(s, src, row)
    PROVE  /\ fact' \in [Scope -> Table]
           /\ fact'[s][src] = row
           /\ \A t \in Scope, o \in Source :
                 <<t, o>> # <<s, src>> => fact'[t][o] = fact[t][o]
  <1>1. fact' = [fact EXCEPT ![s] = [fact[s] EXCEPT ![src] = row]]
    BY DEF SetFact
  <1>2. fact[s] \in [Source -> Row \cup {NoRow}]
    BY DEF Table
  <1>3. [fact[s] EXCEPT ![src] = row] \in [Source -> Row \cup {NoRow}]
    BY <1>2
  <1> DEFINE T == [fact[s] EXCEPT ![src] = row]
  <1>4. /\ T \in Table /\ T[src] = row
        /\ \A o \in Source : o # src => T[o] = fact[s][o]
    BY <1>2, <1>3 DEF Table
  <1>5. fact' = [fact EXCEPT ![s] = T]
    BY <1>1
  <1> HIDE DEF T
  <1>6. fact' \in [Scope -> Table] /\ fact'[s] = T
    BY <1>4, <1>5
  <1>7. \A t \in Scope : t # s => fact'[t] = fact[t]
    BY <1>5
  <1> QED
    BY <1>4, <1>6, <1>7

\* The rows written by an importer are those of its own source, never "local".
LEMMA ImporterSource ==
    ASSUME NEW w \in Importer
    PROVE  /\ SourceOf[w] \in Source /\ SourceOf[w] # "local"
           /\ AuthorOf[w] \in Auditor
  <1>1. w \in {"osm", "wheelmap", "scan", "vision"}
    BY WritersAssumption DEF SourceOf
  <1> QED
    BY <1>1, WritersAssumption DEF SourceOf, AuthorOf

LEMMA LocalIsSource == "local" \in Source /\ "remote" \in Source /\ Human \subseteq Auditor
  BY WritersAssumption

LEMMA TypeStartImport ==
    ASSUME WritersTypeOK, NEW w \in Importer, NEW v \in Value, StartImport(w, v)
    PROVE  WritersTypeOK'
  BY DEF WritersTypeOK, StartImport, auditOnly, gossipOnly

\* The row an importer leaves.
LEMMA ImportedRow ==
    ASSUME WritersTypeOK, NEW w \in Importer, WriteImport(w)
    PROVE  LET src == SourceOf[w]
               old == fact["property"][src] IN
           /\ \E row \in Row : /\ SetFact("property", src, row)
                               /\ row.tier = "CONFIRMED" => old # NoRow /\ old.tier = "CONFIRMED"
           /\ clock < MaxWrites /\ clock' = clock + 1
           /\ import[w] # NoCall /\ import' = [import EXCEPT ![w] = NoCall]
           /\ UNCHANGED <<auditOnly, gossipOnly>>
  <1> DEFINE src == SourceOf[w]
             old == fact["property"][src]
             tier == IF src = "ai-agent" THEN "AI_GUESS" ELSE "OFFICIAL"
             new == [value |-> import[w], tier |-> tier, by |-> AuthorOf[w], ts |-> clock']
             upd == [old EXCEPT !.value = import[w], !.ts = clock',
                                !.tier = IF tier = "AI_GUESS" THEN tier ELSE old.tier]
  <1>1. /\ import[w] # NoCall /\ clock < MaxWrites /\ clock' = clock + 1
        /\ SetFact("property", src, IF old = NoRow THEN new ELSE upd)
        /\ import' = [import EXCEPT ![w] = NoCall]
        /\ UNCHANGED <<auditOnly, gossipOnly>>
    BY DEF WriteImport, Tick
  <1>2. import[w] \in Value /\ clock' \in Nat /\ tier \in Tier /\ tier # "CONFIRMED"
    BY <1>1, WritersAssumption DEF WritersTypeOK, Tier
  <1>3. old \in Row \cup {NoRow}
    BY ImporterSource DEF WritersTypeOK, Scope, Table
  <1>4. CASE old = NoRow
    <2>1. new \in Row /\ new.tier # "CONFIRMED"
      BY <1>2, ImporterSource DEF Row
    <2> QED
      BY <1>1, <1>4, <2>1
  <1>5. CASE old # NoRow
    <2>1. old \in Row
      BY <1>3, <1>5
    <2>2. upd \in Row /\ (upd.tier = "CONFIRMED" => old.tier = "CONFIRMED")
      BY <1>2, <2>1 DEF Row
    <2> QED
      BY <1>1, <1>5, <2>2
  <1> QED
    BY <1>4, <1>5

LEMMA TypeWriteImport ==
    ASSUME WritersTypeOK, NEW w \in Importer, WriteImport(w)
    PROVE  WritersTypeOK'
  <1> PICK row \in Row : SetFact("property", SourceOf[w], row)
    BY ImportedRow
  <1>1. fact' \in [Scope -> Table]
    BY SetFactSets, ImporterSource DEF WritersTypeOK, Scope
  <1>2. clock' \in 0..MaxWrites
    BY ImportedRow, WritersAssumption DEF WritersTypeOK
  <1>3. import' \in [Importer -> Value \cup {NoCall}]
    BY ImportedRow DEF WritersTypeOK
  <1> QED
    BY <1>1, <1>2, <1>3, ImportedRow DEF WritersTypeOK, auditOnly, gossipOnly

LEMMA TypeCreateSubmission ==
    ASSUME WritersTypeOK, NEW c \in Client, NEW a \in Human, NEW s \in Scope,
           NEW v \in Value, CreateSubmission(c, a, s, v)
    PROVE  WritersTypeOK'
  <1> DEFINE new == [at |-> clock + 1, scope |-> s, value |-> v, by |-> a]
  <1>1. new \in Submission
    BY WritersAssumption DEF WritersTypeOK, Submission
  <1>2. clock' \in 0..MaxWrites
    BY WritersAssumption DEF WritersTypeOK, CreateSubmission, Tick
  <1>3. [op |-> "audit", sub |-> new] \in AuditCall
    BY <1>1 DEF AuditCall
  <1>4. call' \in [Client -> AuditCall \cup {NoCall}] /\ raced' \in BOOLEAN
    BY <1>3 DEF WritersTypeOK, CreateSubmission, BeginCall
  <1> QED
    BY <1>1, <1>2, <1>4 DEF WritersTypeOK, CreateSubmission, gossipOnly

\* A call under way is a record of its type.
LEMMA CallTyped ==
    ASSUME WritersTypeOK, NEW c \in Client, call[c] # NoCall
    PROVE  /\ call[c] \in AuditCall
           /\ call[c].sub \in Submission /\ call[c].sub.scope \in Scope
           /\ call[c].op \in {"audit", "reconcile", "remove", "delete"}
  <1>1. call[c] \in AuditCall
    BY DEF WritersTypeOK
  <1> QED
    BY <1>1 DEF AuditCall, Submission

\* The row an audit leaves.
AuditRow(sub, t) == [value |-> sub.value, tier |-> "VERIFIED", by |-> sub.by, ts |-> t]

LEMMA AuditRowTyped ==
    ASSUME NEW sub \in Submission, NEW t \in Nat
    PROVE  AuditRow(sub, t) \in Row
  BY LocalIsSource DEF AuditRow, Submission, Row, Tier

LEMMA TypeWriteAudit ==
    ASSUME WritersTypeOK, NEW c \in Client, WriteAudit(c)
    PROVE  WritersTypeOK'
  <1> DEFINE sub == call[c].sub
  <1>1. sub \in Submission /\ sub.scope \in Scope
    BY CallTyped DEF WriteAudit
  <1>2. clock' \in 0..MaxWrites /\ clock' \in Nat
    BY WritersAssumption DEF WritersTypeOK, WriteAudit, Tick
  <1>3. SetFact(sub.scope, "local", AuditRow(sub, clock'))
    BY DEF WriteAudit, AuditRow
  <1>4. AuditRow(sub, clock') \in Row
    BY <1>1, <1>2, AuditRowTyped
  <1>5. fact' \in [Scope -> Table] /\ fact'[sub.scope]["local"] \in Row
    BY <1>1, <1>3, <1>4, SetFactSets, LocalIsSource DEF WritersTypeOK
  <1>6. pushed' \in SUBSET Upsert
    BY <1>1, <1>5, LocalIsSource DEF WritersTypeOK, WriteAudit, Upsert
  <1>7. call' \in [Client -> AuditCall \cup {NoCall}]
    BY DEF WriteAudit, WritersTypeOK
  <1> QED
    BY <1>2, <1>5, <1>6, <1>7 DEF WritersTypeOK, WriteAudit, gossipOnly

LEMMA TypeStartDelete ==
    ASSUME WritersTypeOK, NEW c \in Client, NEW sub \in submission, StartDelete(c, sub)
    PROVE  WritersTypeOK'
  <1>1. [op |-> IF Newer(sub) = {} THEN "reconcile" ELSE "delete", sub |-> sub] \in AuditCall
    BY DEF WritersTypeOK, AuditCall
  <1>2. call' \in [Client -> AuditCall \cup {NoCall}] /\ raced' \in BOOLEAN
    BY <1>1 DEF WritersTypeOK, StartDelete, BeginCall
  <1> QED
    BY <1>2 DEF WritersTypeOK, StartDelete, gossipOnly

LEMMA TypeFindFact ==
    ASSUME WritersTypeOK, NEW c \in Client, FindFact(c)
    PROVE  WritersTypeOK'
  <1>1. call[c] \in AuditCall
    BY CallTyped DEF FindFact
  <1>2. PICK op \in {"remove", "delete"} : call' = [call EXCEPT ![c].op = op]
    BY DEF FindFact
  <1>3. [call[c] EXCEPT !.op = op] \in AuditCall
    BY <1>1 DEF AuditCall
  <1>4. call' \in [Client -> AuditCall \cup {NoCall}]
    BY <1>2, <1>3 DEF WritersTypeOK
  <1> QED
    BY <1>4 DEF WritersTypeOK, FindFact, gossipOnly

LEMMA TypeRemoveFact ==
    ASSUME WritersTypeOK, NEW c \in Client, RemoveFact(c)
    PROVE  WritersTypeOK'
  <1>1. call[c] \in AuditCall /\ call[c].sub.scope \in Scope
    BY CallTyped DEF RemoveFact
  <1>2. [call[c] EXCEPT !.op = "delete"] \in AuditCall
    BY <1>1 DEF AuditCall
  <1>3. call' \in [Client -> AuditCall \cup {NoCall}]
    BY <1>2 DEF WritersTypeOK, RemoveFact
  <1>4. fact' \in [Scope -> Table]
    BY <1>1, SetFactSets, LocalIsSource DEF WritersTypeOK, RemoveFact
  <1> QED
    BY <1>3, <1>4 DEF WritersTypeOK, RemoveFact, gossipOnly

LEMMA TypeDeleteSubmission ==
    ASSUME WritersTypeOK, NEW c \in Client, DeleteSubmission(c)
    PROVE  WritersTypeOK'
  <1>1. call[c].sub \in Submission
    BY CallTyped DEF DeleteSubmission
  <1>2. call' \in [Client -> AuditCall \cup {NoCall}]
    BY DEF WritersTypeOK, DeleteSubmission
  <1> QED
    BY <1>1, <1>2 DEF WritersTypeOK, DeleteSubmission, gossipOnly

\* The facts of a list the merge works on, with where each was read from.
ReadFact == [source : Source, from : Scope \cup {"peer"}, fact : Row]

LEMMA IncomingTyped ==
    ASSUME WritersTypeOK, NEW u \in Incoming
    PROVE  u \in Upsert
  <1> DEFINE R == [value : Value, tier : {"VERIFIED"}, by : Human, ts : {clock}]
  <1>1. R \subseteq Row
    BY LocalIsSource, WritersAssumption DEF WritersTypeOK, Row, Tier
  <1>2. u \in pushed \/ u \in [source : {"remote"}, scope : Scope, fact : R]
    BY DEF Incoming
  <1> HIDE DEF R
  <1> QED
    BY <1>1, <1>2, LocalIsSource DEF WritersTypeOK, Upsert

\* Every fact of a merged list is a stored row, or the one received.
LEMMA MergedFacts ==
    ASSUME WritersTypeOK, NEW u \in Upsert, NEW list \in Merged(u), NEW m \in list
    PROVE  /\ m \in ReadFact
           /\ \/ /\ m.from \in Scope /\ fact[m.from][m.source] = m.fact
                 /\ fact[m.from][m.source] # NoRow
              \/ m = [source |-> u.source, from |-> "peer", fact |-> u.fact]
  <1> DEFINE in == [source |-> u.source, from |-> "peer", fact |-> u.fact]
  <1>1. list \subseteq Read \cup {in}
    BY DEF Merged
  <1>2. CASE m = in
    BY <1>2 DEF Upsert, ReadFact
  <1>3. CASE m \in Read
    <2>1. PICK s \in Scope, src \in Source :
              fact[s][src] # NoRow /\ m = [source |-> src, from |-> s, fact |-> fact[s][src]]
      BY <1>3 DEF Read
    <2>2. fact[s][src] \in Row
      BY <2>1 DEF WritersTypeOK, Table
    <2> QED
      BY <2>1, <2>2 DEF ReadFact
  <1> QED
    BY <1>1, <1>2, <1>3

\* What a merge leaves to be written: facts of the list, some promoted.
LEMMA ReceivedFacts ==
    ASSUME WritersTypeOK, NEW u \in Incoming, ReceiveGossip(u), NEW r \in receipt'
    PROVE  /\ r \in Upsert
           /\ \/ r.fact.value \in agreed'
              \/ /\ r.source = u.source /\ r.fact = u.fact
              \/ \E s \in Scope : fact[s][r.source] # NoRow /\ r.fact = fact[s][r.source]
  <1> PICK list \in Merged(u) :
         LET promoted == {m \in list : Promoted(list, u, m)} IN
         /\ receipt' = {[source |-> m.source, scope |-> Target(m, u),
                         fact |-> IF m \in promoted
                                  THEN [m.fact EXCEPT !.tier = "CONFIRMED"] ELSE m.fact] :
                        m \in list}
         /\ agreed' = agreed \cup {m.fact.value : m \in promoted}
    BY DEF ReceiveGossip
  <1> DEFINE promoted == {m \in list : Promoted(list, u, m)}
  <1> PICK m \in list :
         r = [source |-> m.source, scope |-> Target(m, u),
              fact |-> IF m \in promoted
                       THEN [m.fact EXCEPT !.tier = "CONFIRMED"] ELSE m.fact]
    OBVIOUS
  <1>1. u \in Upsert
    BY IncomingTyped
  <1>2. m \in ReadFact
    BY <1>1, MergedFacts
  <1>3. m.source \in Source /\ m.fact \in Row /\ Target(m, u) \in Scope
    BY <1>1, <1>2 DEF ReadFact, Upsert, Target, Scope
  <1>4. CASE m \in promoted
    <2>1. [m.fact EXCEPT !.tier = "CONFIRMED"] \in Row
      BY <1>3 DEF Row, Tier
    <2>2. [m.fact EXCEPT !.tier = "CONFIRMED"].value = m.fact.value
      BY <1>3 DEF Row
    <2> DEFINE F == [m.fact EXCEPT !.tier = "CONFIRMED"]
    <2>3. r = [source |-> m.source, scope |-> Target(m, u), fact |-> F]
      BY <1>4
    <2>4. m.fact.value \in agreed'
      BY <1>4
    <2> HIDE DEF F
    <2>5. r \in Upsert /\ r.fact = F
      BY <1>3, <2>1, <2>3 DEF Upsert, F
    <2> QED
      BY <2>2, <2>4, <2>5 DEF F
  <1>5. CASE m \notin promoted
    <2>1. r = [source |-> m.source, scope |-> Target(m, u), fact |-> m.fact]
      BY <1>5
    <2>2. r \in Upsert /\ r.source = m.source /\ r.fact = m.fact
      BY <1>3, <2>1 DEF Upsert
    <2> QED
      BY <1>1, <2>2, MergedFacts
  <1> QED
    BY <1>4, <1>5

LEMMA TypeReceiveGossip ==
    ASSUME WritersTypeOK, NEW u \in Incoming, ReceiveGossip(u)
    PROVE  WritersTypeOK'
  <1>1. receipt' \in SUBSET Upsert
    BY ReceivedFacts
  <1>2. receipts' \in 0..MaxReceipts
    BY WritersAssumption DEF WritersTypeOK, ReceiveGossip
  <1>3. agreed' \in SUBSET Value
    <2>1. PICK list \in Merged(u) :
            agreed' = agreed \cup {m.fact.value : m \in {m \in list : Promoted(list, u, m)}}
      BY DEF ReceiveGossip
    <2>2. \A m \in list : m.fact.value \in Value
      BY IncomingTyped, MergedFacts DEF ReadFact, Row
    <2> QED
      BY <2>1, <2>2 DEF WritersTypeOK
  <1> QED
    BY <1>1, <1>2, <1>3 DEF WritersTypeOK, ReceiveGossip, auditOnly

\* The three outcomes of an upsert: it updates its row, it fails, it creates a
\* fact of the property as a whole.
LEMMA WrittenRow ==
    ASSUME WritersTypeOK, NEW m \in receipt, WriteMerged(m)
    PROVE  LET old == fact[m.scope][m.source] IN
           /\ m.scope \in Scope /\ m.source \in Source /\ m.fact \in Row
           /\ \/ /\ old # NoRow /\ old \in Row
                 /\ \E row \in Row : /\ row.value = m.fact.value /\ row.tier = m.fact.tier
                                     /\ row.by = old.by /\ SetFact(m.scope, m.source, row)
                 /\ echoed' = (echoed \/ (m.source = "local" /\ old.value # m.fact.value))
              \/ UNCHANGED <<fact, echoed>>
              \/ /\ SetFact("property", m.source, m.fact)
                 /\ echoed' = (echoed \/ m.source = "local")
           /\ receipt' = receipt \ {m}
           /\ late' = IF m.fact.tier = "CONFIRMED"
                      THEN late \cup {SourceOf[w] : w \in {w \in Importer : import[w] # NoCall}}
                      ELSE late
           /\ UNCHANGED <<import, clock, receipts, agreed, auditOnly>>
  <1> DEFINE old == fact[m.scope][m.source]
  <1>1. m.scope \in Scope /\ m.source \in Source /\ m.fact \in Row
    BY DEF WritersTypeOK, Upsert
  <1>2. old \in Row \cup {NoRow}
    BY <1>1 DEF WritersTypeOK, Table
  <1>3. CASE old # NoRow
    <2> DEFINE row == [m.fact EXCEPT !.by = old.by]
    <2>1. old \in Row
      BY <1>2, <1>3
    <2>2. /\ row \in Row /\ row.value = m.fact.value /\ row.tier = m.fact.tier
          /\ row.by = old.by
      BY <1>1, <2>1 DEF Row
    <2>3. /\ SetFact(m.scope, m.source, row)
          /\ echoed' = (echoed \/ (m.source = "local" /\ old.value # m.fact.value))
      BY <1>3 DEF WriteMerged
    <2> HIDE DEF row
    <2> QED
      BY <1>1, <1>3, <2>1, <2>2, <2>3 DEF WriteMerged
  <1>4. CASE old = NoRow
    BY <1>1, <1>4 DEF WriteMerged
  <1> QED
    BY <1>3, <1>4

LEMMA TypeWriteMerged ==
    ASSUME WritersTypeOK, NEW m \in receipt, WriteMerged(m)
    PROVE  WritersTypeOK'
  <1>1. m.scope \in Scope /\ m.source \in Source /\ m.fact \in Row
    BY WrittenRow
  <1>2. fact' \in [Scope -> Table] /\ echoed' \in BOOLEAN
    <2>1. \/ \E row \in Row : SetFact(m.scope, m.source, row)
          \/ UNCHANGED fact
          \/ SetFact("property", m.source, m.fact)
      BY WrittenRow
    <2>2. fact' \in [Scope -> Table]
      BY <1>1, <2>1, SetFactSets DEF WritersTypeOK, Scope
    <2>3. echoed' \in BOOLEAN
      BY WrittenRow DEF WritersTypeOK
    <2> QED
      BY <2>2, <2>3
  <1>3. late' \in SUBSET Source
    BY WrittenRow, ImporterSource DEF WritersTypeOK
  <1> QED
    BY <1>2, <1>3, WrittenRow DEF WritersTypeOK, auditOnly

LEMMA WritersTypeInit == WritersInit => WritersTypeOK
  <1>1. EmptyTable \in Table
    BY DEF Table, EmptyTable
  <1>2. 0 \in 0..MaxWrites /\ 0 \in 0..MaxReceipts
    BY WritersAssumption
  <1> QED
    BY <1>1, <1>2 DEF WritersInit, WritersTypeOK

LEMMA WritersTypeNext == WritersTypeOK /\ [WritersNext]_writersVars => WritersTypeOK'
  <1> SUFFICES ASSUME WritersTypeOK, [WritersNext]_writersVars PROVE WritersTypeOK'
    OBVIOUS
  <1>1. ASSUME UNCHANGED writersVars PROVE WritersTypeOK'
    BY <1>1 DEF writersVars, WritersTypeOK
  <1>2. ASSUME NEW w \in Importer, NEW v \in Value, StartImport(w, v) PROVE WritersTypeOK'
    BY <1>2, TypeStartImport
  <1>3. ASSUME NEW w \in Importer, WriteImport(w) PROVE WritersTypeOK'
    BY <1>3, TypeWriteImport
  <1>4. ASSUME NEW c \in Client, NEW a \in Human, NEW s \in Scope, NEW v \in Value,
               CreateSubmission(c, a, s, v)
        PROVE  WritersTypeOK'
    BY <1>4, TypeCreateSubmission
  <1>5. ASSUME NEW c \in Client, NEW sub \in submission, StartDelete(c, sub)
        PROVE  WritersTypeOK'
    BY <1>5, TypeStartDelete
  <1>6. ASSUME NEW c \in Client,
               WriteAudit(c) \/ FindFact(c) \/ RemoveFact(c) \/ DeleteSubmission(c)
        PROVE  WritersTypeOK'
    BY <1>6, TypeWriteAudit, TypeFindFact, TypeRemoveFact, TypeDeleteSubmission
  <1>7. ASSUME NEW u \in Incoming, ReceiveGossip(u) PROVE WritersTypeOK'
    BY <1>7, TypeReceiveGossip
  <1>8. ASSUME NEW m \in receipt, WriteMerged(m) PROVE WritersTypeOK'
    BY <1>8, TypeWriteMerged
  <1> QED
    BY <1>1, <1>2, <1>3, <1>4, <1>5, <1>6, <1>7, <1>8 DEF WritersNext

\* The variables have their types: whatever is imported, audited, deleted and
\* received, the rows written under the key of their upsert are rows of the
\* fact table.
THEOREM WritersTypesHold == WritersSpec => []WritersTypeOK
  <1> QED
    BY WritersTypeInit, WritersTypeNext, PTL DEF WritersSpec
-----------------------------------------------------------------------------
(* A CONFIRMED row has a value that was agreed on.  The promoted values pass *)
(* through the receipt, and an import under way has met no CONFIRMED row,    *)
(* or its source is among the late ones.                                     *)

\* A row made CONFIRMED has a value promoted in a merge, or a late source.
Justified(row, src) ==
    row # NoRow /\ row.tier = "CONFIRMED" => src \in late \/ row.value \in agreed

ConfirmSound ==
    /\ \A u \in pushed : u.fact.tier # "CONFIRMED"
    /\ \A r \in receipt : Justified(r.fact, r.source)
    /\ \A s \in Scope, src \in Source : Justified(fact[s][src], src)
    /\ \A w \in Importer : import[w] # NoCall /\ SourceOf[w] \notin late =>
          \A s \in Scope, src \in Source :
             fact[s][src] # NoRow => fact[s][src].tier # "CONFIRMED"

LEMMA ConfirmStartImport ==
    ASSUME WritersTypeOK, ConfirmSound, NEW w \in Importer, NEW v \in Value, StartImport(w, v)
    PROVE  ConfirmSound'
  <1>1. \A s \in Scope, src \in Source :
            fact[s][src] # NoRow => fact[s][src].tier # "CONFIRMED"
    BY DEF StartImport, Protected, Stored
  <1>2. \A o \in Importer : import'[o] # NoCall => o = w \/ import[o] # NoCall
    BY DEF StartImport, WritersTypeOK
  <1> QED
    BY <1>1, <1>2 DEF ConfirmSound, Justified, StartImport, auditOnly, gossipOnly

\* An import never meets a CONFIRMED row, or it is a late one.
LEMMA ConfirmWriteImport ==
    ASSUME WritersTypeOK, ConfirmSound, NEW w \in Importer, WriteImport(w)
    PROVE  ConfirmSound'
  <1> DEFINE src == SourceOf[w]
             old == fact["property"][src]
  <1>1. PICK row \in Row : /\ SetFact("property", src, row)
                           /\ row.tier = "CONFIRMED" => old # NoRow /\ old.tier = "CONFIRMED"
    BY ImportedRow
  <1>2. /\ import[w] # NoCall /\ import' = [import EXCEPT ![w] = NoCall]
        /\ UNCHANGED <<auditOnly, gossipOnly>>
    BY ImportedRow
  <1>3. src \in Source /\ "property" \in Scope
    BY ImporterSource DEF Scope
  <1>4. /\ fact'["property"][src] = row
        /\ \A t \in Scope, o \in Source :
              <<t, o>> # <<"property", src>> => fact'[t][o] = fact[t][o]
    BY <1>1, <1>3, SetFactSets DEF WritersTypeOK
  <1>5. row.tier = "CONFIRMED" => src \in late
    BY <1>1, <1>2, <1>3 DEF ConfirmSound
  <1>6. \A s \in Scope, o \in Source : Justified(fact'[s][o], o)
    BY <1>4, <1>5 DEF ConfirmSound, Justified
  <1>7. ASSUME NEW x \in Importer, import'[x] # NoCall, SourceOf[x] \notin late,
               NEW s \in Scope, NEW o \in Source, fact'[s][o] # NoRow
        PROVE  fact'[s][o].tier # "CONFIRMED"
    <2>1. import[x] # NoCall
      BY <1>2, <1>7 DEF WritersTypeOK
    <2>2. \A t \in Scope, q \in Source : fact[t][q] # NoRow => fact[t][q].tier # "CONFIRMED"
      BY <1>7, <2>1 DEF ConfirmSound
    <2> QED
      BY <1>1, <1>3, <1>4, <1>7, <2>2
  <1> QED
    BY <1>2, <1>6, <1>7 DEF ConfirmSound, Justified, auditOnly, gossipOnly

LEMMA ConfirmWriteAudit ==
    ASSUME WritersTypeOK, ConfirmSound, NEW c \in Client, WriteAudit(c)
    PROVE  ConfirmSound'
  <1> DEFINE sub == call[c].sub
             row == AuditRow(sub, clock')
  <1>1. sub \in Submission /\ sub.scope \in Scope /\ clock' \in Nat
    BY CallTyped, WritersAssumption DEF WriteAudit, WritersTypeOK, Tick
  <1>2. row \in Row /\ row.tier = "VERIFIED"
    BY <1>1, AuditRowTyped DEF AuditRow
  <1>3. SetFact(sub.scope, "local", row)
    BY DEF WriteAudit, AuditRow
  <1> HIDE DEF row
  <1>4. /\ fact'[sub.scope]["local"] = row
        /\ \A t \in Scope, o \in Source :
              <<t, o>> # <<sub.scope, "local">> => fact'[t][o] = fact[t][o]
    BY <1>1, <1>2, <1>3, SetFactSets, LocalIsSource DEF WritersTypeOK
  <1>5. \A u \in pushed' : u.fact.tier # "CONFIRMED"
    BY <1>2, <1>4 DEF WriteAudit, ConfirmSound
  <1>6. UNCHANGED <<import, late, agreed, receipt>>
    BY DEF WriteAudit, gossipOnly
  <1> QED
    BY <1>2, <1>4, <1>5, <1>6 DEF ConfirmSound, Justified

LEMMA ConfirmRemoveFact ==
    ASSUME WritersTypeOK, ConfirmSound, NEW c \in Client, RemoveFact(c)
    PROVE  ConfirmSound'
  <1> DEFINE s == call[c].sub.scope
  <1>1. s \in Scope
    BY CallTyped DEF RemoveFact
  <1>2. /\ fact'[s]["local"] = NoRow
        /\ \A t \in Scope, o \in Source : <<t, o>> # <<s, "local">> => fact'[t][o] = fact[t][o]
    BY <1>1, SetFactSets, LocalIsSource DEF WritersTypeOK, RemoveFact
  <1>3. UNCHANGED <<import, late, agreed, receipt, pushed>>
    BY DEF RemoveFact, gossipOnly
  <1> QED
    BY <1>2, <1>3 DEF ConfirmSound, Justified

\* What a peer sends is VERIFIED; the rest of the list is stored already.
LEMMA ConfirmReceiveGossip ==
    ASSUME WritersTypeOK, ConfirmSound, NEW u \in Incoming, ReceiveGossip(u)
    PROVE  ConfirmSound'
  <1>1. u.fact.tier # "CONFIRMED"
    BY DEF Incoming, ConfirmSound
  <1>2. UNCHANGED <<fact, import, late, pushed>> /\ agreed \subseteq agreed'
    BY DEF ReceiveGossip, auditOnly
  <1>3. ASSUME NEW r \in receipt' PROVE Justified(r.fact, r.source)'
    <2>1. CASE r.fact.value \in agreed'
      BY <2>1 DEF Justified
    <2>2. CASE r.fact = u.fact
      BY <1>1, <2>2 DEF Justified
    <2>3. ASSUME NEW s \in Scope, fact[s][r.source] # NoRow, r.fact = fact[s][r.source]
          PROVE  Justified(r.fact, r.source)'
      <3>1. r.source \in Source
        BY ReceivedFacts DEF Upsert
      <3> QED
        BY <1>2, <2>3, <3>1 DEF ConfirmSound, Justified
    <2> QED
      BY <2>1, <2>2, <2>3, ReceivedFacts
  <1> QED
    BY <1>2, <1>3 DEF ConfirmSound, Justified

\* A row that becomes CONFIRMED makes every import under way a late one.
LEMMA ConfirmWriteMerged ==
    ASSUME WritersTypeOK, ConfirmSound, NEW m \in receipt, WriteMerged(m)
    PROVE  ConfirmSound'
  <1>1. /\ m.scope \in Scope /\ m.source \in Source /\ m.fact \in Row
        /\ UNCHANGED <<import, agreed, pushed>> /\ late \subseteq late' /\ receipt' \subseteq receipt
    BY WrittenRow DEF auditOnly
  <1>2. Justified(m.fact, m.source) /\ m.fact # NoRow
    BY <1>1, NoRowAssumption DEF ConfirmSound
  <1>3. ASSUME NEW s \in Scope, NEW o \in Source
        PROVE  \/ fact'[s][o] = fact[s][o]
               \/ fact'[s][o].tier = m.fact.tier /\ fact'[s][o].value = m.fact.value /\ o = m.source
    <2>1. CASE UNCHANGED fact
      BY <2>1
    <2>2. ASSUME NEW t \in Scope, NEW row \in Row, row.value = m.fact.value,
                 row.tier = m.fact.tier, SetFact(t, m.source, row)
          PROVE  \/ fact'[s][o] = fact[s][o]
                 \/ fact'[s][o].tier = m.fact.tier /\ fact'[s][o].value = m.fact.value /\ o = m.source
      BY <1>1, <2>2, SetFactSets DEF WritersTypeOK
    <2> QED
      BY <1>1, <2>1, <2>2, WrittenRow DEF Scope
  <1>4. \A s \in Scope, o \in Source : Justified(fact[s][o], o)'
    BY <1>1, <1>2, <1>3 DEF ConfirmSound, Justified
  <1>5. ASSUME NEW w \in Importer, import[w] # NoCall, SourceOf[w] \notin late',
               NEW s \in Scope, NEW o \in Source, fact'[s][o] # NoRow
        PROVE  fact'[s][o].tier # "CONFIRMED"
    <2>1. m.fact.tier # "CONFIRMED"
      BY <1>5, WrittenRow
    <2>2. fact[s][o] # NoRow => fact[s][o].tier # "CONFIRMED"
      BY <1>1, <1>5 DEF ConfirmSound
    <2> QED
      BY <1>3, <1>5, <2>1, <2>2
  <1> QED
    BY <1>1, <1>4, <1>5 DEF ConfirmSound, Justified

LEMMA ConfirmInit == WritersInit => ConfirmSound
  BY DEF WritersInit, ConfirmSound, Justified, EmptyTable

LEMMA ConfirmNext == WritersTypeOK /\ ConfirmSound /\ [WritersNext]_writersVars => ConfirmSound'
  <1> SUFFICES ASSUME WritersTypeOK, ConfirmSound, [WritersNext]_writersVars
               PROVE  ConfirmSound'
    OBVIOUS
  <1>1. ASSUME UNCHANGED <<fact, import, receipt, pushed, agreed, late>> PROVE ConfirmSound'
    BY <1>1 DEF ConfirmSound, Justified
  <1>2. ASSUME NEW w \in Importer, NEW v \in Value, StartImport(w, v) PROVE ConfirmSound'
    BY <1>2, ConfirmStartImport
  <1>3. ASSUME NEW w \in Importer, WriteImport(w) PROVE ConfirmSound'
    BY <1>3, ConfirmWriteImport
  <1>4. ASSUME NEW c \in Client, NEW a \in Human, NEW s \in Scope, NEW v \in Value,
               CreateSubmission(c, a, s, v)
        PROVE  ConfirmSound'
    BY <1>1, <1>4 DEF CreateSubmission, gossipOnly
  <1>5. ASSUME NEW c \in Client, NEW sub \in submission, StartDelete(c, sub)
        PROVE  ConfirmSound'
    BY <1>1, <1>5 DEF StartDelete, gossipOnly
  <1>6. ASSUME NEW c \in Client, FindFact(c) \/ DeleteSubmission(c) PROVE ConfirmSound'
    BY <1>1, <1>6 DEF FindFact, DeleteSubmission, gossipOnly
  <1>7. ASSUME NEW c \in Client, WriteAudit(c) \/ RemoveFact(c) PROVE ConfirmSound'
    BY <1>7, ConfirmWriteAudit, ConfirmRemoveFact
  <1>8. ASSUME NEW u \in Incoming, ReceiveGossip(u) PROVE ConfirmSound'
    BY <1>8, ConfirmReceiveGossip
  <1>9. ASSUME NEW m \in receipt, WriteMerged(m) PROVE ConfirmSound'
    BY <1>9, ConfirmWriteMerged
  <1>10. ASSUME UNCHANGED writersVars PROVE ConfirmSound'
    BY <1>1, <1>10 DEF writersVars
  <1> QED
    BY <1>2, <1>3, <1>4, <1>5, <1>6, <1>7, <1>8, <1>9, <1>10 DEF WritersNext

\* However imports, audits and receipts interleave, a CONFIRMED row has a value
\* that enough authors agreed on in some merge, unless an import that had read
\* the facts before the promotion was stored wrote it.
THEOREM ConfirmedValuesHold == WritersSpec => []ConfirmedValueWasAgreed
  <1>1. ConfirmSound => ConfirmedValueWasAgreed
    BY DEF ConfirmSound, Justified, ConfirmedValueWasAgreed
  <1>2. WritersSpec => [](WritersTypeOK /\ ConfirmSound)
    BY WritersTypeInit, WritersTypeNext, ConfirmInit, ConfirmNext, PTL DEF WritersSpec
  <1> QED
    BY <1>1, <1>2, PTL
-----------------------------------------------------------------------------
(* The local row and the submissions.  As long as calls have not overlapped  *)
(* and nothing was echoed, at most one call is under way; the local row then *)
(* is that of the newest submission already written, which no delete is      *)
(* about to drop.                                                            *)

\* Submissions are told apart by their time, and those of the calls are known.
SubmissionsSound ==
    /\ \A o \in submission \cup dropped : o.at <= clock
    /\ \A o, p \in submission \cup dropped : o.at = p.at => o = p
    /\ \A c \in Busy : call[c].sub \in submission \cup dropped

\* The call under way has the submission it works on for itself.
CallIsAlone ==
    \A c \in Busy :
        /\ \A d \in Busy : d = c
        /\ call[c].sub \in submission
        /\ call[c].op = "audit" => \A o \in submission : o.at <= call[c].sub.at
        /\ call[c].op \in {"reconcile", "remove"} => Newer(call[c].sub) = {}

\* The submissions of the calls at a given point.
SubsOf(op) == {call[c].sub : c \in {c \in Busy : call[c].op = op}}

OwnedRow(s) ==
    fact[s]["local"] # NoRow =>
        \E f \in submission \ SubsOf("delete") :
            /\ f.scope = s /\ Matches(fact[s]["local"], f)
            /\ \A o \in submission \ SubsOf("audit") : o.scope = s => o.at <= f.at

\* Nothing as new as sub was ever said for its scope.
Newest(sub) == \A o \in submission \cup dropped : o.scope = sub.scope => o.at <= sub.at

IsStored(sub) ==
    fact[sub.scope]["local"] # NoRow /\ Matches(fact[sub.scope]["local"], sub)

OwnSound ==
    (~raced /\ ~echoed) =>
        /\ CallIsAlone
        /\ \A s \in Scope : OwnedRow(s)
        /\ \A sub \in submission \ (SubsOf("audit") \cup SubsOf("delete")) :
              Newest(sub) => IsStored(sub)

WritersIInv == WritersTypeOK /\ SubmissionsSound /\ OwnSound

\* What every action does to the calls under way, seen from call c.
LEMMA OneCall ==
    ASSUME WritersTypeOK, CallIsAlone, NEW c \in Client, call[c] # NoCall
    PROVE  /\ Busy = {c} /\ call[c].sub \in submission
           /\ \A op : SubsOf(op) = IF call[c].op = op THEN {call[c].sub} ELSE {}
  <1>1. Busy = {c} /\ call[c].sub \in submission
    BY DEF CallIsAlone, Busy
  <1> QED
    BY <1>1 DEF SubsOf

\* After a call has begun alone, it is the only one.
LEMMA BegunAlone ==
    ASSUME WritersTypeOK, NEW c \in Client, NEW state \in AuditCall,
           BeginCall(c, state), ~raced'
    PROVE  /\ Busy = {} /\ Busy' = {c} /\ call'[c] = state
           /\ \A op : SubsOf(op) = {}
           /\ \A op : SubsOf(op)' = IF state.op = op THEN {state.sub} ELSE {}
           /\ ~raced
  <1>1. Busy = {} /\ ~raced
    BY DEF BeginCall, WritersTypeOK
  <1>2. state # NoCall
    BY WritersAssumption
  <1>3. call'[c] = state /\ \A d \in Client : d # c => call'[d] = NoCall
    BY <1>1 DEF BeginCall, WritersTypeOK, Busy
  <1>4. Busy' = {c}
    BY <1>2, <1>3 DEF Busy
  <1> QED
    BY <1>1, <1>3, <1>4 DEF SubsOf

LEMMA SoundKept ==
    ASSUME SubmissionsSound, UNCHANGED <<submission, dropped>>,
           clock \in Nat, clock' \in Nat, clock <= clock',
           \A o \in submission \cup dropped : o.at \in Nat,
           \A d \in Client : call'[d] # NoCall =>
              call[d] # NoCall /\ call'[d].sub = call[d].sub
    PROVE  SubmissionsSound'
  BY DEF SubmissionsSound, Busy

LEMMA SubmissionTimes ==
    ASSUME WritersTypeOK, NEW o \in submission \cup dropped
    PROVE  o \in Submission /\ o.at \in Nat /\ o.scope \in Scope
  BY DEF WritersTypeOK, Submission

\* Where only the clock and the facts move.
LEMMA SoundUnlessCalled ==
    ASSUME WritersTypeOK, WritersTypeOK', SubmissionsSound,
           UNCHANGED <<submission, dropped, call>>,
           clock' = clock \/ clock' = clock + 1
    PROVE  SubmissionsSound'
  <1>1. clock \in Nat /\ clock' \in Nat /\ clock <= clock'
    BY WritersAssumption DEF WritersTypeOK
  <1> QED
    BY <1>1, SoundKept, SubmissionTimes

LEMMA SoundCreateSubmission ==
    ASSUME WritersTypeOK, SubmissionsSound, NEW c \in Client, NEW a \in Human,
           NEW s \in Scope, NEW v \in Value, CreateSubmission(c, a, s, v)
    PROVE  SubmissionsSound'
  <1> DEFINE new == [at |-> clock + 1, scope |-> s, value |-> v, by |-> a]
  <1>1. clock \in Nat /\ clock' = clock + 1 /\ new.at = clock + 1
    BY WritersAssumption DEF WritersTypeOK, CreateSubmission, Tick
  <1>2. submission' = submission \cup {new} /\ dropped' = dropped
    BY DEF CreateSubmission
  <1>3. \A d \in Client : call'[d] # NoCall =>
           (call'[d] = call[d] /\ call[d] # NoCall) \/ call'[d].sub = new
    BY DEF CreateSubmission, BeginCall, WritersTypeOK
  <1> HIDE DEF new
  <1>4. \A o \in submission \cup dropped : o.at \in Nat /\ o.at <= clock
    BY SubmissionTimes DEF SubmissionsSound
  <1>5. \A d \in Busy' : call'[d].sub \in submission' \cup dropped'
    BY <1>2, <1>3 DEF SubmissionsSound, Busy
  <1>6. \A o \in submission' \cup dropped' : o.at <= clock'
    BY <1>1, <1>2, <1>4
  <1>7. \A o, p \in submission' \cup dropped' : o.at = p.at => o = p
    BY <1>1, <1>2, <1>4 DEF SubmissionsSound
  <1> QED
    BY <1>5, <1>6, <1>7 DEF SubmissionsSound

LEMMA SoundStartDelete ==
    ASSUME WritersTypeOK, SubmissionsSound, NEW c \in Client, NEW sub \in submission,
           StartDelete(c, sub)
    PROVE  SubmissionsSound'
  <1>1. \A d \in Client : call'[d] # NoCall =>
           (call'[d] = call[d] /\ call[d] # NoCall) \/ call'[d].sub = sub
    BY DEF StartDelete, BeginCall, WritersTypeOK
  <1>2. UNCHANGED <<submission, dropped, clock>>
    BY DEF StartDelete
  <1> QED
    BY <1>1, <1>2 DEF SubmissionsSound, Busy

\* The steps of a call keep its submission.
LEMMA CallSteps ==
    ASSUME WritersTypeOK, NEW c \in Client,
           WriteAudit(c) \/ FindFact(c) \/ RemoveFact(c) \/ DeleteSubmission(c)
    PROVE  /\ call[c] # NoCall
           /\ \A d \in Client : d # c => call'[d] = call[d]
           /\ call'[c] # NoCall => call'[c].sub = call[c].sub
           /\ raced' = raced /\ echoed' = echoed
           /\ clock' = clock \/ clock' = clock + 1
  <1>1. call[c] # NoCall /\ raced' = raced /\ echoed' = echoed
        /\ (clock' = clock \/ clock' = clock + 1)
    BY DEF WriteAudit, FindFact, RemoveFact, DeleteSubmission, gossipOnly, Tick
  <1>2. call[c] \in AuditCall
    BY <1>1, CallTyped
  <1>3. CASE WriteAudit(c) \/ DeleteSubmission(c)
    BY <1>1, <1>3 DEF WriteAudit, DeleteSubmission, WritersTypeOK
  <1>4. ASSUME NEW op, call' = [call EXCEPT ![c] = [call[c] EXCEPT !.op = op]]
        PROVE  /\ \A d \in Client : d # c => call'[d] = call[d]
               /\ call'[c].sub = call[c].sub
    <2>1. [call[c] EXCEPT !.op = op].sub = call[c].sub
      BY <1>2 DEF AuditCall
    <2> QED
      BY <1>4, <2>1 DEF WritersTypeOK
  <1>5. CASE FindFact(c)
    BY <1>1, <1>4, <1>5 DEF FindFact
  <1>6. CASE RemoveFact(c)
    <2>1. \/ call' = [call EXCEPT ![c] = NoCall]
          \/ call' = [call EXCEPT ![c] = [call[c] EXCEPT !.op = "delete"]]
      BY <1>6 DEF RemoveFact
    <2> QED
      BY <1>1, <1>4, <2>1 DEF WritersTypeOK
  <1> QED
    BY <1>3, <1>5, <1>6

LEMMA SoundCallStep ==
    ASSUME WritersTypeOK, WritersTypeOK', SubmissionsSound, NEW c \in Client,
           WriteAudit(c) \/ FindFact(c) \/ RemoveFact(c) \/ DeleteSubmission(c)
    PROVE  SubmissionsSound'
  <1>1. clock \in Nat /\ clock' \in Nat /\ clock <= clock'
    BY CallSteps, WritersAssumption DEF WritersTypeOK
  <1>2. \A d \in Client : call'[d] # NoCall => call[d] # NoCall /\ call'[d].sub = call[d].sub
    BY CallSteps
  <1>3. CASE WriteAudit(c) \/ FindFact(c) \/ RemoveFact(c)
    <2>1. UNCHANGED <<submission, dropped>>
      BY <1>3 DEF WriteAudit, FindFact, RemoveFact
    <2> QED
      BY <1>1, <1>2, <2>1, SoundKept, SubmissionTimes
  <1>4. CASE DeleteSubmission(c)
    <2>1. call[c].sub \in submission \cup dropped
      BY CallSteps DEF SubmissionsSound, Busy
    <2>2. submission' \cup dropped' = submission \cup dropped
      BY <1>4, <2>1 DEF DeleteSubmission
    <2>3. clock' = clock
      BY <1>4 DEF DeleteSubmission
    <2> QED
      BY <1>2, <2>2, <2>3 DEF SubmissionsSound, Busy
  <1> QED
    BY <1>3, <1>4

\* What is written beside the calls leaves the value and the author of a local
\* row, or is known as an echo.
LocalKept ==
    \A s \in Scope :
        \/ fact'[s]["local"] = fact[s]["local"]
        \/ /\ fact[s]["local"] # NoRow /\ fact'[s]["local"] # NoRow
           /\ fact'[s]["local"].value = fact[s]["local"].value
           /\ fact'[s]["local"].by = fact[s]["local"].by

LEMMA OwnKept ==
    ASSUME WritersTypeOK, OwnSound, UNCHANGED <<submission, dropped, call, raced>>,
           ~echoed' => ~echoed /\ LocalKept
    PROVE  OwnSound'
  <1> SUFFICES ASSUME ~raced', ~echoed'
               PROVE  /\ CallIsAlone'
                      /\ \A s \in Scope : OwnedRow(s)'
                      /\ \A sub \in submission' \ (SubsOf("audit") \cup SubsOf("delete"))' :
                            Newest(sub)' => IsStored(sub)'
    BY DEF OwnSound
  <1>1. /\ LocalKept /\ CallIsAlone /\ \A s \in Scope : OwnedRow(s)
        /\ \A sub \in submission \ (SubsOf("audit") \cup SubsOf("delete")) :
              Newest(sub) => IsStored(sub)
    BY DEF OwnSound
  <1>2. Busy' = Busy /\ \A op : SubsOf(op)' = SubsOf(op)
    BY DEF Busy, SubsOf
  <1>3. CallIsAlone'
    BY <1>1, <1>2 DEF CallIsAlone, Newer
  <1>4. ASSUME NEW s \in Scope PROVE OwnedRow(s)'
    <2>1. OwnedRow(s)
      BY <1>1
    <2> QED
      BY <1>1, <1>2, <2>1 DEF OwnedRow, LocalKept, Matches
  <1>5. ASSUME NEW sub \in submission \ (SubsOf("audit") \cup SubsOf("delete")), Newest(sub)'
        PROVE  IsStored(sub)'
    <2>1. IsStored(sub) /\ sub.scope \in Scope
      BY <1>1, <1>5, SubmissionTimes DEF Newest
    <2> QED
      BY <1>1, <2>1 DEF IsStored, LocalKept, Matches
  <1> QED
    BY <1>2, <1>3, <1>4, <1>5

LEMMA OwnWriteImport ==
    ASSUME WritersTypeOK, OwnSound, NEW w \in Importer, WriteImport(w)
    PROVE  OwnSound'
  <1>1. PICK row \in Row : SetFact("property", SourceOf[w], row)
    BY ImportedRow
  <1>2. LocalKept
    BY <1>1, SetFactSets, ImporterSource, LocalIsSource DEF WritersTypeOK, Scope, LocalKept
  <1> QED
    BY <1>2, OwnKept, ImportedRow DEF auditOnly, gossipOnly

\* An upsert that changes what a local row says is an echo.
LEMMA OwnWriteMerged ==
    ASSUME WritersTypeOK, OwnSound, NEW m \in receipt, WriteMerged(m)
    PROVE  OwnSound'
  <1> DEFINE old == fact[m.scope][m.source]
  <1>1. /\ m.scope \in Scope /\ m.source \in Source /\ m.fact \in Row
        /\ UNCHANGED <<submission, dropped, call, raced>>
    BY WrittenRow DEF auditOnly
  <1>2. ASSUME ~echoed' PROVE ~echoed /\ LocalKept
    <2>1. CASE UNCHANGED <<fact, echoed>>
      BY <1>2, <2>1 DEF LocalKept
    <2>2. CASE /\ SetFact("property", m.source, m.fact)
               /\ echoed' = (echoed \/ m.source = "local")
      <3>1. ~echoed /\ m.source # "local"
        BY <1>2, <2>2, WrittenRow DEF WritersTypeOK
      <3> QED
        BY <1>1, <2>2, <3>1, SetFactSets, LocalIsSource DEF WritersTypeOK, Scope, LocalKept
    <2>3. ASSUME old # NoRow, NEW row \in Row, row.value = m.fact.value, row.by = old.by,
                 SetFact(m.scope, m.source, row),
                 echoed' = (echoed \/ (m.source = "local" /\ old.value # m.fact.value))
          PROVE  ~echoed /\ LocalKept
      <3>1. ~echoed /\ (m.source = "local" => old.value = m.fact.value)
        BY <1>2, <2>3 DEF WritersTypeOK
      <3>2. /\ fact'[m.scope][m.source] = row
            /\ \A t \in Scope, o \in Source :
                  <<t, o>> # <<m.scope, m.source>> => fact'[t][o] = fact[t][o]
        BY <1>1, <2>3, SetFactSets DEF WritersTypeOK
      <3>3. row # NoRow
        BY NoRowAssumption
      <3> QED
        BY <1>1, <2>3, <3>1, <3>2, <3>3, LocalIsSource DEF LocalKept
    <2> QED
      BY <2>1, <2>2, <2>3, WrittenRow
  <1> QED
    BY <1>1, <1>2, OwnKept

LEMMA OwnCreateSubmission ==
    ASSUME WritersTypeOK, SubmissionsSound, OwnSound, NEW c \in Client, NEW a \in Human,
           NEW s \in Scope, NEW v \in Value, CreateSubmission(c, a, s, v)
    PROVE  OwnSound'
  <1> DEFINE new == [at |-> clock + 1, scope |-> s, value |-> v, by |-> a]
             state == [op |-> "audit", sub |-> new]
  <1> SUFFICES ASSUME ~raced', ~echoed'
               PROVE  /\ CallIsAlone'
                      /\ \A t \in Scope : OwnedRow(t)'
                      /\ \A sub \in submission' \ (SubsOf("audit") \cup SubsOf("delete"))' :
                            Newest(sub)' => IsStored(sub)'
    BY DEF OwnSound
  <1>1. new \in Submission /\ state \in AuditCall /\ state.sub = new /\ state.op = "audit"
    BY WritersAssumption DEF WritersTypeOK, Submission, AuditCall
  <1>2. /\ BeginCall(c, state) /\ submission' = submission \cup {new} /\ dropped' = dropped
        /\ fact' = fact /\ echoed' = echoed
    BY DEF CreateSubmission, gossipOnly
  <1>3. clock \in Nat /\ new.at = clock + 1
    BY WritersAssumption DEF WritersTypeOK
  <1> HIDE DEF state, new
  <1>4. /\ Busy = {} /\ Busy' = {c} /\ call'[c] = state /\ ~raced
        /\ \A op : SubsOf(op) = {}
        /\ \A op : SubsOf(op)' = IF op = "audit" THEN {new} ELSE {}
    BY <1>1, <1>2, BegunAlone
  <1>5. /\ \A t \in Scope : OwnedRow(t)
        /\ \A sub \in submission : Newest(sub) => IsStored(sub)
    BY <1>2, <1>4 DEF OwnSound
  <1>6. \A o \in submission : o.at \in Nat /\ o.at <= new.at
    BY <1>3, SubmissionTimes DEF SubmissionsSound
  <1>7. CallIsAlone'
    BY <1>1, <1>2, <1>3, <1>4, <1>6 DEF CallIsAlone
  <1>8. ASSUME NEW t \in Scope PROVE OwnedRow(t)'
    <2>1. OwnedRow(t)
      BY <1>5
    <2> QED
      BY <1>2, <1>4, <2>1 DEF OwnedRow
  <1>9. \A sub \in submission' \ (SubsOf("audit") \cup SubsOf("delete"))' :
           Newest(sub)' => IsStored(sub)'
    BY <1>2, <1>4, <1>5 DEF Newest, IsStored
  <1> QED
    BY <1>7, <1>8, <1>9

LEMMA OwnStartDelete ==
    ASSUME WritersTypeOK, SubmissionsSound, OwnSound, NEW c \in Client,
           NEW sub \in submission, StartDelete(c, sub)
    PROVE  OwnSound'
  <1> DEFINE op == IF Newer(sub) = {} THEN "reconcile" ELSE "delete"
             state == [op |-> op, sub |-> sub]
  <1> SUFFICES ASSUME ~raced', ~echoed'
               PROVE  /\ CallIsAlone'
                      /\ \A t \in Scope : OwnedRow(t)'
                      /\ \A x \in submission' \ (SubsOf("audit") \cup SubsOf("delete"))' :
                            Newest(x)' => IsStored(x)'
    BY DEF OwnSound
  <1>1. state \in AuditCall /\ state.sub = sub /\ state.op = op
    BY DEF WritersTypeOK, AuditCall
  <1>2. BeginCall(c, state) /\ UNCHANGED <<fact, submission, dropped, echoed>>
    BY DEF StartDelete, gossipOnly
  <1>3. (op = "reconcile" /\ Newer(sub) = {}) \/ (op = "delete" /\ Newer(sub) # {})
    <2>1. CASE Newer(sub) = {}
      BY <2>1
    <2>2. CASE Newer(sub) # {}
      BY <2>2
    <2> QED
      BY <2>1, <2>2
  <1> HIDE DEF state, op
  <1>4. /\ Busy = {} /\ Busy' = {c} /\ call'[c] = state /\ ~raced
        /\ \A p : SubsOf(p) = {}
        /\ \A p : SubsOf(p)' = IF op = p THEN {sub} ELSE {}
    BY <1>1, <1>2, BegunAlone
  <1>5. /\ \A t \in Scope : OwnedRow(t)
        /\ \A x \in submission : Newest(x) => IsStored(x)
    BY <1>2, <1>4 DEF OwnSound
  <1>6. CallIsAlone'
    BY <1>1, <1>2, <1>3, <1>4 DEF CallIsAlone, Newer
  <1>7. ASSUME NEW t \in Scope, fact[t]["local"] # NoRow
        PROVE  \E f \in submission \ SubsOf("delete")' :
                  /\ f.scope = t /\ Matches(fact[t]["local"], f)
                  /\ \A o \in submission \ SubsOf("audit")' : o.scope = t => o.at <= f.at
    <2>1. OwnedRow(t)
      BY <1>5
    <2>2. PICK f \in submission :
              /\ f.scope = t /\ Matches(fact[t]["local"], f)
              /\ \A o \in submission : o.scope = t => o.at <= f.at
      BY <1>4, <1>7, <2>1 DEF OwnedRow
    <2>3. f \notin SubsOf("delete")'
      <3> SUFFICES ASSUME f = sub, Newer(sub) # {} PROVE FALSE
        BY <1>3, <1>4
      <3>1. PICK o \in submission : o.scope = sub.scope /\ o.at > sub.at
        BY DEF Newer
      <3> QED
        BY <2>2, <3>1, SubmissionTimes
    <2> QED
      BY <2>2, <2>3
  <1>8. \A t \in Scope : OwnedRow(t)'
    BY <1>2, <1>7 DEF OwnedRow
  <1>9. \A x \in submission' \ (SubsOf("audit") \cup SubsOf("delete"))' :
           Newest(x)' => IsStored(x)'
    BY <1>2, <1>5 DEF Newest, IsStored
  <1> QED
    BY <1>6, <1>8, <1>9

\* The claims after a step of the call c, which is alone before it.
LEMMA OwnCallStep ==
    ASSUME WritersTypeOK, OwnSound, ~raced', ~echoed', NEW c \in Client,
           WriteAudit(c) \/ FindFact(c) \/ RemoveFact(c) \/ DeleteSubmission(c)
    PROVE  /\ CallIsAlone /\ Busy = {c} /\ call[c].sub \in submission
           /\ call[c].sub.scope \in Scope
           /\ \A op : SubsOf(op) = IF call[c].op = op THEN {call[c].sub} ELSE {}
           /\ \A s \in Scope : OwnedRow(s)
           /\ \A sub \in submission \ (SubsOf("audit") \cup SubsOf("delete")) :
                 Newest(sub) => IsStored(sub)
           /\ Busy' = IF call'[c] = NoCall THEN {} ELSE {c}
           /\ \A op : SubsOf(op)' = IF call'[c] # NoCall /\ call'[c].op = op
                                    THEN {call[c].sub} ELSE {}
  <1>1. /\ CallIsAlone /\ \A s \in Scope : OwnedRow(s)
        /\ \A sub \in submission \ (SubsOf("audit") \cup SubsOf("delete")) :
              Newest(sub) => IsStored(sub)
    BY CallSteps DEF OwnSound
  <1>2. /\ Busy = {c} /\ call[c].sub \in submission /\ call[c].sub.scope \in Scope
        /\ \A op : SubsOf(op) = IF call[c].op = op THEN {call[c].sub} ELSE {}
    BY <1>1, CallSteps, OneCall, CallTyped
  <1>3. Busy' = IF call'[c] = NoCall THEN {} ELSE {c}
    BY <1>2, CallSteps DEF Busy
  <1>4. \A op : SubsOf(op)' = IF call'[c] # NoCall /\ call'[c].op = op
                              THEN {call[c].sub} ELSE {}
    BY <1>3, CallSteps DEF SubsOf
  <1> QED
    BY <1>1, <1>2, <1>3, <1>4

LEMMA OwnWriteAudit ==
    ASSUME WritersTypeOK, SubmissionsSound, OwnSound, NEW c \in Client, WriteAudit(c)
    PROVE  OwnSound'
  <1> DEFINE sub == call[c].sub
             row == AuditRow(sub, clock')
  <1> SUFFICES ASSUME ~raced', ~echoed'
               PROVE  /\ CallIsAlone'
                      /\ \A t \in Scope : OwnedRow(t)'
                      /\ \A x \in submission' \ (SubsOf("audit") \cup SubsOf("delete"))' :
                            Newest(x)' => IsStored(x)'
    BY DEF OwnSound
  <1>1. /\ call[c].op = "audit" /\ call'[c] = NoCall
        /\ UNCHANGED <<submission, dropped>>
        /\ SetFact(sub.scope, "local", row)
    BY DEF WriteAudit, AuditRow, WritersTypeOK
  <1>2. sub \in Submission /\ clock' \in Nat
    BY CallTyped, CallSteps, WritersAssumption DEF WritersTypeOK
  <1>3. row \in Row /\ row # NoRow /\ Matches(row, sub)
    BY <1>2, AuditRowTyped, NoRowAssumption DEF AuditRow, Matches
  <1> HIDE DEF row
  <1>4. /\ CallIsAlone /\ Busy = {c} /\ sub \in submission /\ sub.scope \in Scope
        /\ SubsOf("audit") = {sub} /\ SubsOf("delete") = {}
        /\ \A s \in Scope : OwnedRow(s)
        /\ \A x \in submission \ {sub} : Newest(x) => IsStored(x)
        /\ Busy' = {} /\ SubsOf("audit")' = {} /\ SubsOf("delete")' = {}
    BY <1>1, OwnCallStep
  <1>5. /\ fact'[sub.scope]["local"] = row
        /\ \A t \in Scope : t # sub.scope => fact'[t]["local"] = fact[t]["local"]
    BY <1>1, <1>3, <1>4, SetFactSets, LocalIsSource DEF WritersTypeOK
  <1>6. \A o \in submission : o.at <= sub.at
    BY <1>1, <1>4 DEF CallIsAlone
  <1>7. ASSUME NEW t \in Scope PROVE OwnedRow(t)'
    <2>1. CASE t = sub.scope
      BY <1>1, <1>3, <1>4, <1>5, <1>6, <2>1 DEF OwnedRow
    <2>2. CASE t # sub.scope
      <3>1. OwnedRow(t)
        BY <1>4
      <3> QED
        BY <1>1, <1>4, <1>5, <2>2, <3>1 DEF OwnedRow
    <2> QED
      BY <2>1, <2>2
  <1>8. ASSUME NEW x \in submission, Newest(x)' PROVE IsStored(x)'
    <2>1. CASE x.scope = sub.scope
      <3>1. sub.at <= x.at /\ x.at <= sub.at
        BY <1>1, <1>4, <1>6, <1>8, <2>1 DEF Newest
      <3>2. x = sub
        BY <1>4, <3>1, SubmissionTimes DEF SubmissionsSound
      <3> QED
        BY <1>3, <1>5, <3>2 DEF IsStored
    <2>2. CASE x.scope # sub.scope
      <3>1. IsStored(x) /\ x.scope \in Scope
        BY <1>1, <1>4, <1>8, <2>2, SubmissionTimes DEF Newest
      <3> QED
        BY <1>5, <2>2, <3>1 DEF IsStored
    <2> QED
      BY <2>1, <2>2
  <1>9. CallIsAlone'
    BY <1>4 DEF CallIsAlone
  <1> QED
    BY <1>1, <1>4, <1>7, <1>8, <1>9

LEMMA OwnFindFact ==
    ASSUME WritersTypeOK, SubmissionsSound, OwnSound, NEW c \in Client, FindFact(c)
    PROVE  OwnSound'
  <1> DEFINE sub == call[c].sub
             row == fact[sub.scope]["local"]
  <1> SUFFICES ASSUME ~raced', ~echoed'
               PROVE  /\ CallIsAlone'
                      /\ \A t \in Scope : OwnedRow(t)'
                      /\ \A x \in submission' \ (SubsOf("audit") \cup SubsOf("delete"))' :
                            Newest(x)' => IsStored(x)'
    BY DEF OwnSound
  <1>1. PICK op \in {"remove", "delete"} :
           /\ call' = [call EXCEPT ![c] = [call[c] EXCEPT !.op = op]]
           /\ op = "delete" => row = NoRow \/ ~Matches(row, sub)
    BY DEF FindFact
  <1>2. call[c].op = "reconcile" /\ UNCHANGED <<fact, submission, dropped>>
    BY DEF FindFact
  <1>3. [call[c] EXCEPT !.op = op] \in AuditCall /\ [call[c] EXCEPT !.op = op].op = op
    BY CallTyped, CallSteps DEF AuditCall
  <1>4. call'[c] # NoCall /\ call'[c].op = op /\ call'[c].sub = sub
    BY <1>1, <1>3, CallSteps, WritersAssumption DEF WritersTypeOK
  <1>5. /\ CallIsAlone /\ Busy = {c} /\ sub \in submission
        /\ SubsOf("audit") = {} /\ SubsOf("delete") = {}
        /\ \A s \in Scope : OwnedRow(s)
        /\ \A x \in submission : Newest(x) => IsStored(x)
        /\ Busy' = {c} /\ SubsOf("audit")' = {}
        /\ SubsOf("delete")' = IF op = "delete" THEN {sub} ELSE {}
    BY <1>2, <1>4, OwnCallStep
  <1>6. CallIsAlone'
    BY <1>2, <1>4, <1>5 DEF CallIsAlone, Newer
  <1>7. ASSUME NEW t \in Scope PROVE OwnedRow(t)'
    <2>1. OwnedRow(t)
      BY <1>5
    <2> QED
      BY <1>1, <1>2, <1>5, <2>1 DEF OwnedRow
  <1>8. \A x \in submission' \ (SubsOf("audit") \cup SubsOf("delete"))' :
           Newest(x)' => IsStored(x)'
    BY <1>2, <1>5 DEF Newest, IsStored
  <1> QED
    BY <1>6, <1>7, <1>8

LEMMA OwnRemoveFact ==
    ASSUME WritersTypeOK, SubmissionsSound, OwnSound, NEW c \in Client, RemoveFact(c)
    PROVE  OwnSound'
  <1> DEFINE sub == call[c].sub
             gone == fact[sub.scope]["local"] = NoRow
  <1> SUFFICES ASSUME ~raced', ~echoed'
               PROVE  /\ CallIsAlone'
                      /\ \A t \in Scope : OwnedRow(t)'
                      /\ \A x \in submission' \ (SubsOf("audit") \cup SubsOf("delete"))' :
                            Newest(x)' => IsStored(x)'
    BY DEF OwnSound
  <1>1. /\ call[c].op = "remove" /\ UNCHANGED <<submission, dropped>>
        /\ SetFact(sub.scope, "local", NoRow)
        /\ gone => call'[c] = NoCall
        /\ ~gone => call'[c] = [call[c] EXCEPT !.op = "delete"]
    BY DEF RemoveFact, WritersTypeOK
  <1>2. /\ [call[c] EXCEPT !.op = "delete"] \in AuditCall
        /\ [call[c] EXCEPT !.op = "delete"].op = "delete"
    BY CallTyped, CallSteps DEF AuditCall
  <1>3. ~gone => call'[c] # NoCall /\ call'[c].op = "delete" /\ call'[c].sub = sub
    BY <1>1, <1>2, CallSteps, WritersAssumption
  <1>4. /\ CallIsAlone /\ Busy = {c} /\ sub \in submission /\ sub.scope \in Scope
        /\ SubsOf("audit") = {} /\ SubsOf("delete") = {}
        /\ \A s \in Scope : OwnedRow(s)
        /\ \A x \in submission : Newest(x) => IsStored(x)
        /\ Busy' = IF gone THEN {} ELSE {c}
        /\ SubsOf("audit")' = {}
        /\ SubsOf("delete")' = IF gone THEN {} ELSE {sub}
    <2>1. /\ CallIsAlone /\ Busy = {c} /\ sub \in submission /\ sub.scope \in Scope
          /\ SubsOf("audit") = {} /\ SubsOf("delete") = {}
          /\ \A s \in Scope : OwnedRow(s)
          /\ \A x \in submission : Newest(x) => IsStored(x)
      BY <1>1, OwnCallStep
    <2>2. /\ Busy' = IF gone THEN {} ELSE {c}
          /\ SubsOf("audit")' = {}
          /\ SubsOf("delete")' = IF gone THEN {} ELSE {sub}
      <3>1. CASE gone
        BY <1>1, <3>1, OwnCallStep
      <3>2. CASE ~gone
        BY <1>3, <3>2, OwnCallStep
      <3> QED
        BY <3>1, <3>2
    <2> QED
      BY <2>1, <2>2
  <1> HIDE DEF gone
  <1>5. /\ fact'[sub.scope]["local"] = NoRow
        /\ \A t \in Scope : t # sub.scope => fact'[t]["local"] = fact[t]["local"]
    BY <1>1, <1>4, SetFactSets, LocalIsSource DEF WritersTypeOK
  <1>6. CallIsAlone'
    BY <1>1, <1>3, <1>4 DEF CallIsAlone
  <1>7. ASSUME NEW t \in Scope PROVE OwnedRow(t)'
    <2>1. OwnedRow(t)
      BY <1>4
    <2> QED
      BY <1>1, <1>4, <1>5, <2>1 DEF OwnedRow
  <1>8. ASSUME NEW x \in submission \ SubsOf("delete")', Newest(x)' PROVE IsStored(x)'
    <2>1. IsStored(x) /\ x.scope \in Scope
      BY <1>1, <1>4, <1>8, SubmissionTimes DEF Newest
    <2>2. x.scope # sub.scope
      <3> SUFFICES ASSUME x.scope = sub.scope PROVE FALSE
        OBVIOUS
      <3>1. ~gone
        BY <2>1 DEF IsStored, gone
      <3>2. x # sub /\ sub.at <= x.at
        BY <1>1, <1>4, <1>8, <3>1 DEF Newest
      <3>3. ~(x.at > sub.at)
        BY <1>1, <1>4, <3>2 DEF CallIsAlone, Newer
      <3>4. x.at = sub.at
        BY <1>4, <3>2, <3>3, SubmissionTimes
      <3> QED
        BY <1>4, <3>2, <3>4 DEF SubmissionsSound
    <2> QED
      BY <1>5, <2>1, <2>2 DEF IsStored
  <1> QED
    BY <1>1, <1>4, <1>6, <1>7, <1>8

LEMMA OwnDeleteSubmission ==
    ASSUME WritersTypeOK, SubmissionsSound, OwnSound, NEW c \in Client, DeleteSubmission(c)
    PROVE  OwnSound'
  <1> DEFINE sub == call[c].sub
  <1> SUFFICES ASSUME ~raced', ~echoed'
               PROVE  /\ CallIsAlone'
                      /\ \A t \in Scope : OwnedRow(t)'
                      /\ \A x \in submission' \ (SubsOf("audit") \cup SubsOf("delete"))' :
                            Newest(x)' => IsStored(x)'
    BY DEF OwnSound
  <1>1. /\ call[c].op = "delete" /\ call'[c] = NoCall /\ fact' = fact
        /\ submission' = submission \ {sub} /\ dropped' = dropped \cup {sub}
    BY DEF DeleteSubmission, WritersTypeOK
  <1>2. /\ Busy = {c} /\ sub \in submission
        /\ SubsOf("audit") = {} /\ SubsOf("delete") = {sub}
        /\ \A s \in Scope : OwnedRow(s)
        /\ \A x \in submission \ {sub} : Newest(x) => IsStored(x)
        /\ Busy' = {} /\ SubsOf("audit")' = {} /\ SubsOf("delete")' = {}
    BY <1>1, OwnCallStep
  <1>3. CallIsAlone'
    BY <1>2 DEF CallIsAlone
  <1>4. ASSUME NEW t \in Scope PROVE OwnedRow(t)'
    <2>1. OwnedRow(t)
      BY <1>2
    <2> QED
      BY <1>1, <1>2, <2>1 DEF OwnedRow
  <1>5. \A x \in submission' : Newest(x)' => IsStored(x)'
    BY <1>1, <1>2 DEF Newest, IsStored
  <1> QED
    BY <1>3, <1>4, <1>5

LEMMA WritersIInvInit == WritersInit => WritersIInv
  <1> SUFFICES ASSUME WritersInit PROVE SubmissionsSound /\ OwnSound
    BY WritersTypeInit DEF WritersIInv
  <1>1. Busy = {} /\ submission = {} /\ dropped = {}
    BY DEF WritersInit, Busy
  <1>2. \A s \in Scope : OwnedRow(s)
    BY LocalIsSource DEF WritersInit, OwnedRow, EmptyTable
  <1> QED
    BY <1>1, <1>2 DEF SubmissionsSound, OwnSound, CallIsAlone

LEMMA WritersIInvNext == WritersIInv /\ [WritersNext]_writersVars => WritersIInv'
  <1> SUFFICES ASSUME WritersTypeOK, SubmissionsSound, OwnSound, [WritersNext]_writersVars
               PROVE  SubmissionsSound' /\ OwnSound'
    BY WritersTypeNext DEF WritersIInv
  <1>0. WritersTypeOK'
    BY WritersTypeNext
  <1> DEFINE Sound == SubmissionsSound' /\ OwnSound'
  <1>1. ASSUME UNCHANGED <<fact, submission, dropped, call, raced, echoed, clock>>
        PROVE  Sound
    BY <1>0, <1>1, SoundUnlessCalled, OwnKept DEF LocalKept
  <1>2. ASSUME NEW w \in Importer, NEW v \in Value, StartImport(w, v) PROVE Sound
    BY <1>1, <1>2 DEF StartImport, auditOnly, gossipOnly
  <1>3. ASSUME NEW w \in Importer, WriteImport(w) PROVE Sound
    BY <1>0, <1>3, OwnWriteImport, ImportedRow, SoundUnlessCalled DEF auditOnly
  <1>4. ASSUME NEW c \in Client, NEW a \in Human, NEW s \in Scope, NEW v \in Value,
               CreateSubmission(c, a, s, v)
        PROVE  Sound
    BY <1>4, SoundCreateSubmission, OwnCreateSubmission
  <1>5. ASSUME NEW c \in Client, NEW sub \in submission, StartDelete(c, sub) PROVE Sound
    BY <1>5, SoundStartDelete, OwnStartDelete
  <1>6. ASSUME NEW c \in Client,
               WriteAudit(c) \/ FindFact(c) \/ RemoveFact(c) \/ DeleteSubmission(c)
        PROVE  Sound
    BY <1>0, <1>6, SoundCallStep, OwnWriteAudit, OwnFindFact, OwnRemoveFact,
       OwnDeleteSubmission
  <1>7. ASSUME NEW u \in Incoming, ReceiveGossip(u) PROVE Sound
    BY <1>1, <1>7 DEF ReceiveGossip, auditOnly
  <1>8. ASSUME NEW m \in receipt, WriteMerged(m) PROVE Sound
    <2>1. UNCHANGED <<submission, dropped, call, clock>>
      BY <1>8 DEF WriteMerged, auditOnly
    <2> QED
      BY <1>0, <1>8, <2>1, OwnWriteMerged, SoundUnlessCalled
  <1>9. ASSUME UNCHANGED writersVars PROVE Sound
    BY <1>1, <1>9 DEF writersVars
  <1> QED
    BY <1>2, <1>3, <1>4, <1>5, <1>6, <1>7, <1>8, <1>9 DEF WritersNext

LEMMA WritersIInvHolds == WritersSpec => []WritersIInv
  <1> QED
    BY WritersIInvInit, WritersIInvNext, PTL DEF WritersSpec

\* Whatever is audited and deleted in whatever order, a fact of this node's own
\* has a submission that made it, unless two calls overlapped or a peer sent a
\* deleted audit back.
THEOREM LocalFactsHaveSubmissions == WritersSpec => []LocalFactHasSubmission
  <1>1. WritersIInv => LocalFactHasSubmission
    BY DEF WritersIInv, OwnSound, OwnedRow, LocalFactHasSubmission
  <1> QED
    BY <1>1, WritersIInvHolds, PTL

\* With the same exceptions, what the newest submission for a key said is what
\* the node stores once no call is under way, unless a still newer one was
\* deleted.
THEOREM NewestSubmissionsHold == WritersSpec => []NewestSubmissionHasFact
  <1>1. WritersIInv => NewestSubmissionHasFact
    <2> SUFFICES ASSUME OwnSound, ~raced, ~echoed, Busy = {}, NEW sub \in submission,
                        Newest(sub)
                 PROVE  IsStored(sub)
      BY DEF WritersIInv, NewestSubmissionHasFact, Newest, IsStored
    <2>1. SubsOf("audit") = {} /\ SubsOf("delete") = {}
      BY DEF SubsOf
    <2> QED
      BY <2>1 DEF OwnSound
  <1> QED
    BY <1>1, WritersIInvHolds, PTL
=============================================================================
