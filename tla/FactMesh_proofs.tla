--------------------------- MODULE FactMesh_proofs ---------------------------
(***************************************************************************)
(* Theorems about FactMesh and FactRaces for any set of nodes, auditors    *)
(* and values, any threshold and any bounds: where facts come from, what   *)
(* confirms them, the log of each source they are copies of, and what may  *)
(* take the place of what.                                                 *)
(***************************************************************************)
EXTENDS FactRaces, FiniteSetTheorems, TLAPS

\* Distinct auditors of a value never outnumber the sources that report it:
\* what evaluateConfirmed counts is bounded by the rows of the table.
LEMMA AgreeingBound ==
    ASSUME NEW table, NEW v
    PROVE  /\ IsFiniteSet(Reporting(table, v))
           /\ Cardinality(Agreeing(table, v)) \in Nat
           /\ Cardinality(Agreeing(table, v)) <= Cardinality(Reporting(table, v))
  <1> DEFINE R == Reporting(table, v)
             A == Agreeing(table, v)
             f == [s \in R |-> table[s].by]
  <1>1. IsFiniteSet(R)
    BY SourceAssumption, FS_Subset DEF Reporting
  <1>2. f \in Surjection(R, A)
    BY DEF Surjection, Agreeing
  <1>3. IsFiniteSet(A) /\ Cardinality(A) <= Cardinality(R)
    BY <1>1, <1>2, FS_Surjection
  <1> QED
    BY <1>1, <1>3, FS_CardinalityType

\* The nodes on which a value was audited are finitely many.
LEMMA AuditedOnFinite ==
    ASSUME issued \in SUBSET Issue, NEW v
    PROVE  /\ IsFiniteSet(AuditedOn(v))
           /\ Cardinality(AuditedOn(v)) \in Nat
  <1>1. AuditedOn(v) \in SUBSET Source
    BY DEF AuditedOn, Issue, Node
  <1> QED
    BY <1>1, SourceAssumption, FS_Subset, FS_CardinalityType

\* The merge of two tables of sound rows only holds sound rows: MergeRow keeps
\* one of its two arguments, and evaluateConfirmed promotes a value only when
\* enough sources report it, each of which audited it.
LEMMA MergeSound ==
    ASSUME issued \in SUBSET Issue,
           NEW t \in Table, NEW d \in Table, SoundTable(t), SoundTable(d)
    PROVE  /\ MergeGossipDelta(t, d) \in Table
           /\ SoundTable(MergeGossipDelta(t, d))
  <1> DEFINE m == [s \in Source |-> MergeRow(t[s], d[s])]
  <1>1. m \in Table
    BY DEF Table, MergeRow
  <1>2. ASSUME NEW s \in Source
        PROVE  Sound(s, m[s])
    BY <1>2 DEF SoundTable, MergeRow, Node
  <1>3. ASSUME NEW s \in Source, m[s] # NoRow, IsConfirmed(m, m[s].value)
        PROVE  Cardinality(AuditedOn(m[s].value)) >= ConfirmThreshold
    <2> DEFINE v == m[s].value
    <2>1. Reporting(m, v) \in SUBSET AuditedOn(v)
      <3> SUFFICES ASSUME NEW x \in Reporting(m, v)
                   PROVE  x \in AuditedOn(v)
        OBVIOUS
      <3>1. x \in Source /\ m[x] # NoRow /\ m[x].value = v
        BY DEF Reporting
      <3>2. PICK i \in issued : i.src = x /\ i.value = m[x].value
        BY <3>1, <1>2 DEF Sound, Genuine
      <3> QED
        BY <3>1, <3>2 DEF AuditedOn
    <2>2. Cardinality(Reporting(m, v)) <= Cardinality(AuditedOn(v))
      BY <2>1, AuditedOnFinite, FS_Subset
    <2>3. Cardinality(Reporting(m, v)) \in Nat
      BY AgreeingBound, FS_CardinalityType
    <2> HIDE DEF m, v
    <2>4. Cardinality(Agreeing(m, v)) >= ConfirmThreshold
      BY <1>3 DEF IsConfirmed, v
    <2>5. Cardinality(AuditedOn(v)) >= ConfirmThreshold
      BY <2>2, <2>3, <2>4, AgreeingBound, AuditedOnFinite, ThresholdAssumption
    <2> QED
      BY <2>5 DEF v
  <1> HIDE DEF m
  <1>4. EvaluateConfirmed(m) \in Table
    <2> SUFFICES ASSUME NEW s \in Source, m[s] \in Row
                 PROVE  [m[s] EXCEPT !.tier = "CONFIRMED"] \in Row
      BY <1>1, NoRowAssumption DEF EvaluateConfirmed, Table
    <2> QED
      BY DEF Row, Tier
  <1>5. ASSUME NEW s \in Source
        PROVE  Sound(s, EvaluateConfirmed(m)[s])
    <2>1. CASE m[s] # NoRow /\ IsConfirmed(m, m[s].value)
      <3> DEFINE r == [m[s] EXCEPT !.tier = "CONFIRMED"]
      <3>1. EvaluateConfirmed(m)[s] = r
        BY <2>1 DEF EvaluateConfirmed
      <3>2. m[s] \in Row
        BY <1>1, <2>1 DEF Table
      <3>3. r.value = m[s].value /\ r.ts = m[s].ts /\ r.by = m[s].by
        BY <3>2 DEF Row
      <3> QED
        BY <3>1, <3>3, <2>1, <1>2, <1>3 DEF Sound, Genuine
    <2>2. CASE ~(m[s] # NoRow /\ IsConfirmed(m, m[s].value))
      BY <2>2, <1>2 DEF EvaluateConfirmed
    <2> QED
      BY <2>1, <2>2
  <1> QED
    BY <1>4, <1>5 DEF MergeGossipDelta, SoundTable, Node, m

\* More audits keep sound rows sound.
LEMMA SoundMonotone ==
    ASSUME issued \subseteq issued', issued' \in SUBSET Issue
    PROVE  \A s, row : Sound(s, row) => Sound(s, row)'
  <1> SUFFICES ASSUME NEW s, NEW row, Sound(s, row) PROVE Sound(s, row)'
    OBVIOUS
  <1>1. Genuine(s, row) => Genuine(s, row)'
    BY DEF Genuine
  <1>2. ASSUME NEW v, Cardinality(AuditedOn(v)) >= ConfirmThreshold
        PROVE  Cardinality(AuditedOn(v)') >= ConfirmThreshold
    <2>1. AuditedOn(v) \in SUBSET AuditedOn(v)' /\ AuditedOn(v)' \in SUBSET Source
      BY DEF AuditedOn, Issue, Node
    <2>2. Cardinality(AuditedOn(v)) <= Cardinality(AuditedOn(v)')
      BY <2>1, SourceAssumption, FS_Subset
    <2>3. Cardinality(AuditedOn(v)) \in Nat /\ Cardinality(AuditedOn(v)') \in Nat
      BY <2>1, SourceAssumption, FS_Subset, FS_CardinalityType
    <2> QED
      BY <1>2, <2>2, <2>3, ThresholdAssumption
  <1> QED
    BY <1>1, <1>2 DEF Sound

\* No row at all is a sound table, in any state.
LEMMA EmptyTableSound ==
    EmptyTable \in Table /\ SoundTable(EmptyTable) /\ SoundTable(EmptyTable)'
  BY DEF EmptyTable, Table, SoundTable, Sound, Node

\* A row stamped and issued in this step is sound after it.
LEMMA AuditRowSound ==
    ASSUME NEW n \in Node, NEW a \in Auditor, NEW v \in Value, NEW t \in Nat,
           issued' = issued \cup {[src |-> n, by |-> a, value |-> v, ts |-> t]}
    PROVE  AuditRow(a, v, t) \in Row /\ Sound(n, AuditRow(a, v, t))'
  <1> DEFINE i == [src |-> n, by |-> a, value |-> v, ts |-> t]
  <1>1. AuditRow(a, v, t) \in Row
    BY DEF AuditRow, Row, Tier
  <1>2. PICK row : row = AuditRow(a, v, t)
    OBVIOUS
  <1>3. row.value = v /\ row.by = a /\ row.ts = t /\ row.tier = "VERIFIED"
    BY <1>2 DEF AuditRow
  <1>4. i \in issued' /\ i.src = n /\ i.by = a /\ i.value = v /\ i.ts = t
    OBVIOUS
  <1>5. Genuine(n, row)'
    BY <1>3, <1>4 DEF Genuine
  <1>6. Sound(n, row)'
    BY <1>3, <1>5 DEF Sound
  <1> QED
    BY <1>1, <1>2, <1>6

\* With no fact anywhere the inductive invariant holds.
LEMMA InitIInv == Init => IInv
  <1> SUFFICES ASSUME Init PROVE IInv
    OBVIOUS
  <1>1. TypeOK
    BY EmptyTableSound DEF Init, TypeOK
  <1>2. \A n \in Node : SoundTable(facts[n])
    BY EmptyTableSound DEF Init
  <1>3. \A n \in Node, h \in Handler : SoundTable(todo[n][h])
    BY EmptyTableSound DEF Init
  <1> QED
    BY <1>1, <1>2, <1>3 DEF IInv, Init

\* The containers of rows after a step, one lemma per kind of update.  A table
\* that a step leaves alone stays sound as the history grows.
LEMMA TableMonotone ==
    ASSUME issued \subseteq issued', issued' \in SUBSET Issue
    PROVE  \A table : SoundTable(table) => SoundTable(table)'
  BY SoundMonotone DEF SoundTable

\* Starting a merge of a sound delta leaves sound rows to write.
LEMMA StartMergeSound ==
    ASSUME IInv, UNCHANGED issued,
           NEW n \in Node, NEW h \in Handler, NEW d \in Table,
           SoundTable(d), StartMerge(n, h, d)
    PROVE  /\ todo' \in [Node -> [Handler -> Table]]
           /\ \A x \in Node, g \in Handler : SoundTable(todo[x][g])'
  <1>1. PICK merged \in Table : SoundTable(merged) /\ merged = MergeGossipDelta(facts[n], d)
    BY MergeSound DEF IInv, TypeOK
  <1>2. todo' = [todo EXCEPT ![n][h] = merged] /\ todo \in [Node -> [Handler -> Table]]
    BY <1>1 DEF StartMerge, IInv, TypeOK
  <1>3. todo' \in [Node -> [Handler -> Table]]
    BY <1>2
  <1>4. ASSUME NEW x \in Node, NEW g \in Handler PROVE SoundTable(todo[x][g])'
    <2>1. PICK new : new = todo'[x][g]
      OBVIOUS
    <2>2. SoundTable(new)
      BY <1>1, <1>2, <2>1 DEF IInv
    <2> QED
      BY <2>1, <2>2, TableMonotone DEF IInv, TypeOK
  <1> QED
    BY <1>3, <1>4

\* Taking a row off the rows to write leaves the others sound.
LEMMA RowDoneSound ==
    ASSUME IInv, UNCHANGED issued,
           NEW n \in Node, NEW s \in Node, NEW h \in Handler,
           todo' = [todo EXCEPT ![n][h][s] = NoRow]
    PROVE  /\ todo' \in [Node -> [Handler -> Table]]
           /\ \A x \in Node, g \in Handler : SoundTable(todo[x][g])'
  <1>1. todo' \in [Node -> [Handler -> Table]]
    BY DEF IInv, TypeOK, Table, Node
  <1>2. ASSUME NEW x \in Node, NEW g \in Handler, NEW y \in Node
        PROVE  Sound(y, todo[x][g][y])'
    <2>1. PICK new : new = todo'[x][g][y]
      OBVIOUS
    <2>2. new = NoRow \/ new = todo[x][g][y]
      BY <2>1 DEF IInv, TypeOK, Table, Node
    <2>3. Sound(y, new)
      BY <2>2 DEF IInv, SoundTable, Sound
    <2> QED
      BY <2>1, <2>3, SoundMonotone DEF IInv, TypeOK
  <1> QED
    BY <1>1, <1>2 DEF SoundTable

\* An audit issues what it stores; every other row keeps its provenance.
LEMMA SubmitAuditIInv ==
    ASSUME IInv, NEW n \in Node, NEW a \in Auditor, NEW v \in Value, SubmitAudit(n, a, v)
    PROVE  IInv'
  <1>1. PICK t \in Nat : t = clock
    BY DEF IInv, TypeOK
  <1>2. issued' = issued \cup {[src |-> n, by |-> a, value |-> v, ts |-> t]}
    BY <1>1 DEF SubmitAudit
  <1>3. issued \subseteq issued' /\ issued' \in SUBSET Issue
    BY <1>2 DEF IInv, TypeOK, Issue
  <1>4. PICK row \in Row : row = AuditRow(a, v, t) /\ Sound(n, row)'
    BY <1>2, AuditRowSound
  <1>5. facts' = [facts EXCEPT ![n][n] = row]
    BY <1>1, <1>4 DEF SubmitAudit
  <1>6. TypeOK'
    BY <1>3, <1>5 DEF SubmitAudit, IInv, TypeOK, Table, Node
  <1>7. ASSUME NEW x \in Node, NEW s \in Node PROVE Sound(s, facts[x][s])'
    <2>1. PICK new : new = facts'[x][s]
      OBVIOUS
    <2>2. CASE x = n /\ s = n
      BY <1>4, <1>5, <2>1, <2>2 DEF IInv, TypeOK, Table, Node
    <2>3. CASE ~(x = n /\ s = n)
      <3>1. new = facts[x][s]
        BY <1>5, <2>1, <2>3 DEF IInv, TypeOK, Table, Node
      <3> QED
        BY <1>3, <2>1, <3>1, SoundMonotone DEF IInv, SoundTable
    <2> QED
      BY <2>2, <2>3
  <1>8. /\ \A x \in Node, h \in Handler : SoundTable(todo[x][h])'
        /\ \A x \in Node : fetched'[x] # NoDelta => SoundTable(fetched[x])'
        /\ \A m \in network' : Sound(m.src, m.row)'
    BY <1>3, TableMonotone, SoundMonotone DEF SubmitAudit, IInv
  <1> QED
    BY <1>6, <1>7, <1>8 DEF IInv, SoundTable

\* A push carries the audit it was built for, under a timestamp it issues.
LEMMA PushIInv ==
    ASSUME IInv, NEW p \in pushing, PushFactsToPeers(p)
    PROVE  IInv'
  <1>1. PICK t \in Nat : t = clock
    BY DEF IInv, TypeOK
  <1>2. p.src \in Node /\ p.by \in Auditor /\ p.value \in Value
    BY DEF IInv, TypeOK
  <1>3. issued' = issued \cup {[src |-> p.src, by |-> p.by, value |-> p.value, ts |-> t]}
    BY <1>1 DEF PushFactsToPeers
  <1>4. issued \subseteq issued' /\ issued' \in SUBSET Issue
    BY <1>2, <1>3 DEF IInv, TypeOK, Issue
  <1>5. PICK row \in Row : row = AuditRow(p.by, p.value, t) /\ Sound(p.src, row)'
    BY <1>2, <1>3, AuditRowSound
  <1>6. PICK sent : sent = {[to |-> m, src |-> p.src, row |-> row] : m \in Node \ {p.src}}
    OBVIOUS
  <1>7. network' = network \cup sent
    BY <1>1, <1>5, <1>6 DEF PushFactsToPeers
  <1>8. TypeOK'
    <2>1. sent \in SUBSET Message
      BY <1>2, <1>6 DEF Message
    <2> QED
      BY <1>4, <1>7, <2>1 DEF PushFactsToPeers, IInv, TypeOK
  <1>9. \A m \in network' : Sound(m.src, m.row)'
    <2>1. \A m \in network : Sound(m.src, m.row)'
      BY <1>4, SoundMonotone DEF IInv
    <2>2. \A m \in sent : Sound(m.src, m.row)'
      BY <1>5, <1>6
    <2> QED
      BY <1>7, <2>1, <2>2
  <1>10. /\ \A x \in Node : SoundTable(facts[x])'
         /\ \A x \in Node, h \in Handler : SoundTable(todo[x][h])'
         /\ \A x \in Node : fetched'[x] # NoDelta => SoundTable(fetched[x])'
    BY <1>4, TableMonotone DEF PushFactsToPeers, IInv
  <1> QED
    BY <1>8, <1>9, <1>10 DEF IInv

\* An inbox request starts a merge of a delta that is sound.
LEMMA InboxReceiveIInv ==
    ASSUME IInv, NEW m \in network, InboxReceive(m)
    PROVE  IInv'
  <1>1. m \in Message /\ Sound(m.src, m.row)
    BY DEF IInv, TypeOK
  <1>2. PICK d \in Table : d = PushedDelta(m) /\ SoundTable(d)
    <2>1. PushedDelta(m) \in Table
      BY <1>1 DEF PushedDelta, Table, Message, Node
    <2>2. SoundTable(PushedDelta(m))
      BY <1>1 DEF PushedDelta, SoundTable, Sound, Node
    <2> QED
      BY <2>1, <2>2
  <1>3. m.to \in Node /\ "inbox" \in Handler /\ UNCHANGED issued
    BY <1>1 DEF Message, Handler, InboxReceive
  <1>4. /\ todo' \in [Node -> [Handler -> Table]]
        /\ \A x \in Node, g \in Handler : SoundTable(todo[x][g])'
    BY <1>2, <1>3, StartMergeSound DEF InboxReceive
  <1>5. TypeOK'
    BY <1>4 DEF InboxReceive, IInv, TypeOK
  <1>6. issued \subseteq issued' /\ issued' \in SUBSET Issue
    BY DEF InboxReceive, IInv, TypeOK
  <1>7. /\ \A x \in Node : SoundTable(facts[x])'
        /\ \A x \in Node : fetched'[x] # NoDelta => SoundTable(fetched[x])'
        /\ \A x \in network' : Sound(x.src, x.row)'
    BY <1>6, TableMonotone, SoundMonotone DEF InboxReceive, IInv
  <1> QED
    BY <1>4, <1>5, <1>7 DEF IInv

\* A snapshot is the table of a peer, and therefore sound.
LEMMA FetchSnapshotIInv ==
    ASSUME IInv, NEW n \in Node, NEW p \in Node, FetchSnapshot(n, p)
    PROVE  IInv'
  <1>1. TypeOK'
    BY DEF FetchSnapshot, Snapshot, IInv, TypeOK
  <1>2. issued \subseteq issued' /\ issued' \in SUBSET Issue
    BY DEF FetchSnapshot, Snapshot, IInv, TypeOK
  <1>3. ASSUME NEW x \in Node, fetched'[x] # NoDelta PROVE SoundTable(fetched[x])'
    <2>1. PICK new : new = fetched'[x]
      OBVIOUS
    <2>2. SoundTable(new)
      BY <1>3, <2>1 DEF FetchSnapshot, Snapshot, IInv, TypeOK
    <2> QED
      BY <1>2, <2>1, <2>2, TableMonotone
  <1>4. /\ \A x \in Node : SoundTable(facts[x])'
        /\ \A x \in Node, g \in Handler : SoundTable(todo[x][g])'
        /\ \A m \in network' : Sound(m.src, m.row)'
    BY <1>2, TableMonotone, SoundMonotone DEF FetchSnapshot, IInv
  <1> QED
    BY <1>1, <1>3, <1>4 DEF IInv

\* Ingesting a snapshot starts a merge of a sound delta or does nothing.
LEMMA IngestReceiveIInv ==
    ASSUME IInv, NEW n \in Node, IngestReceive(n)
    PROVE  IInv'
  <1>1. issued \subseteq issued' /\ issued' \in SUBSET Issue /\ UNCHANGED issued
    BY DEF IngestReceive, IInv, TypeOK
  <1>2. /\ todo' \in [Node -> [Handler -> Table]]
        /\ \A x \in Node, g \in Handler : SoundTable(todo[x][g])'
    <2>1. CASE fetched[n] = EmptyTable
      <3>1. UNCHANGED todo
        BY <2>1 DEF IngestReceive
      <3> QED
        BY <1>1, <3>1, TableMonotone DEF IInv, TypeOK
    <2>2. CASE fetched[n] # EmptyTable
      <3>1. PICK d \in Table : d = fetched[n] /\ SoundTable(d)
        BY DEF IngestReceive, IInv, TypeOK
      <3> QED
        BY <1>1, <2>2, <3>1, StartMergeSound DEF IngestReceive, Handler
    <2> QED
      BY <2>1, <2>2
  <1>3. TypeOK'
    BY <1>2 DEF IngestReceive, IInv, TypeOK
  <1>4. ASSUME NEW x \in Node, fetched'[x] # NoDelta PROVE SoundTable(fetched[x])'
    <2>1. PICK new : new = fetched'[x]
      OBVIOUS
    <2>2. SoundTable(new)
      BY <1>4, <2>1 DEF IngestReceive, IInv, TypeOK
    <2> QED
      BY <1>1, <2>1, <2>2, TableMonotone
  <1>5. /\ \A x \in Node : SoundTable(facts[x])'
        /\ \A m \in network' : Sound(m.src, m.row)'
    BY <1>1, TableMonotone, SoundMonotone DEF IngestReceive, IInv
  <1> QED
    BY <1>2, <1>3, <1>4, <1>5 DEF IInv

\* The upsert of a sound merged row leaves a sound row, although the author of
\* the row it replaces survives: that author audited on the same source.
LEMMA WriteRowIInv ==
    ASSUME IInv, NEW n \in Node, NEW s \in Node, NEW h \in Handler, WriteRow(n, h, s)
    PROVE  IInv'
  <1>1. /\ todo[n][h][s] \in Row /\ Sound(s, todo[n][h][s]) /\ todo[n][h][s] # NoRow
        /\ facts[n][s] \in Row \cup {NoRow} /\ Sound(s, facts[n][s])
    BY DEF WriteRow, IInv, TypeOK, Table, SoundTable, Node
  <1>2. PICK row : row = Upsert(facts[n][s], todo[n][h][s])
    OBVIOUS
  <1>3. row \in Row /\ Sound(s, row)
    <2>1. CASE facts[n][s] = NoRow
      BY <1>1, <1>2, <2>1 DEF Upsert
    <2>2. CASE facts[n][s] # NoRow
      <3>1. PICK old \in Row, new \in Row : old = facts[n][s] /\ new = todo[n][h][s]
        BY <1>1, <2>2
      <3>2. row = [new EXCEPT !.by = old.by]
        BY <1>2, <2>2, <3>1 DEF Upsert
      <3>3. /\ row \in Row
            /\ row.value = new.value /\ row.ts = new.ts /\ row.tier = new.tier
            /\ row.by = old.by
        BY <3>2 DEF Row
      <3> QED
        BY <1>1, <2>2, <3>1, <3>3 DEF Sound, Genuine
    <2> QED
      BY <2>1, <2>2
  <1>4. facts' = [facts EXCEPT ![n][s] = row]
    BY <1>2 DEF WriteRow
  <1>5. facts' \in [Node -> Table]
    BY <1>3, <1>4 DEF IInv, TypeOK, Table, Node
  <1>6. issued \subseteq issued' /\ issued' \in SUBSET Issue /\ UNCHANGED issued
    BY DEF WriteRow, IInv, TypeOK
  <1>7. ASSUME NEW x \in Node, NEW y \in Node PROVE Sound(y, facts[x][y])'
    <2>1. PICK new : new = facts'[x][y]
      OBVIOUS
    <2>2. (x = n /\ y = s /\ new = row) \/ new = facts[x][y]
      BY <1>4, <2>1 DEF IInv, TypeOK, Table, Node
    <2>3. Sound(y, new)
      BY <1>3, <2>2 DEF IInv, SoundTable
    <2> QED
      BY <1>6, <2>1, <2>3, SoundMonotone
  <1>8. /\ todo' \in [Node -> [Handler -> Table]]
        /\ \A x \in Node, g \in Handler : SoundTable(todo[x][g])'
    BY <1>6, RowDoneSound DEF WriteRow
  <1>9. TypeOK'
    BY <1>5, <1>8 DEF WriteRow, IInv, TypeOK
  <1>10. /\ \A x \in Node : fetched'[x] # NoDelta => SoundTable(fetched[x])'
         /\ \A m \in network' : Sound(m.src, m.row)'
    BY <1>6, TableMonotone, SoundMonotone DEF WriteRow, IInv
  <1> QED
    BY <1>7, <1>8, <1>9, <1>10 DEF IInv, SoundTable

\* A failed upsert only forgets a row that was to be written.
LEMMA WriteFailsIInv ==
    ASSUME IInv, NEW n \in Node, NEW s \in Node, NEW h \in Handler, WriteFails(n, h, s)
    PROVE  IInv'
  <1>1. issued \subseteq issued' /\ issued' \in SUBSET Issue /\ UNCHANGED issued
    BY DEF WriteFails, IInv, TypeOK
  <1>2. /\ todo' \in [Node -> [Handler -> Table]]
        /\ \A x \in Node, g \in Handler : SoundTable(todo[x][g])'
    BY <1>1, RowDoneSound DEF WriteFails
  <1>3. TypeOK'
    BY <1>2 DEF WriteFails, IInv, TypeOK
  <1>4. /\ \A x \in Node : SoundTable(facts[x])'
        /\ \A x \in Node : fetched'[x] # NoDelta => SoundTable(fetched[x])'
        /\ \A m \in network' : Sound(m.src, m.row)'
    BY <1>1, TableMonotone, SoundMonotone DEF WriteFails, IInv
  <1> QED
    BY <1>2, <1>3, <1>4 DEF IInv

\* A restart forgets what the handlers held and changes no table.
LEMMA CrashIInv ==
    ASSUME IInv, NEW n \in Node, Crash(n)
    PROVE  IInv'
  <1>1. issued \subseteq issued' /\ issued' \in SUBSET Issue
    BY DEF Crash, IInv, TypeOK
  <1>2. TypeOK'
    BY EmptyTableSound DEF Crash, IInv, TypeOK
  <1>3. ASSUME NEW x \in Node, NEW g \in Handler PROVE SoundTable(todo[x][g])'
    <2>1. PICK new : new = todo'[x][g]
      OBVIOUS
    <2>2. new = EmptyTable \/ new = todo[x][g]
      BY <2>1 DEF Crash, IInv, TypeOK
    <2>3. SoundTable(new)
      BY <2>2, EmptyTableSound DEF IInv
    <2> QED
      BY <1>1, <2>1, <2>3, TableMonotone
  <1>4. ASSUME NEW x \in Node, fetched'[x] # NoDelta PROVE SoundTable(fetched[x])'
    <2>1. PICK new : new = fetched'[x]
      OBVIOUS
    <2>2. SoundTable(new)
      BY <1>4, <2>1 DEF Crash, IInv, TypeOK
    <2> QED
      BY <1>1, <2>1, <2>2, TableMonotone
  <1>5. /\ \A x \in Node : SoundTable(facts[x])'
        /\ \A m \in network' : Sound(m.src, m.row)'
    BY <1>1, TableMonotone, SoundMonotone DEF Crash, IInv
  <1> QED
    BY <1>2, <1>3, <1>4, <1>5 DEF IInv

\* Every step preserves the inductive invariant.
LEMMA NextIInv == IInv /\ [Next]_vars => IInv'
  <1> SUFFICES ASSUME IInv, [Next]_vars PROVE IInv'
    OBVIOUS
  <1>1. CASE UNCHANGED vars
    <2>1. issued \subseteq issued' /\ issued' \in SUBSET Issue
      BY <1>1 DEF vars, IInv, TypeOK
    <2>2. TypeOK'
      BY <1>1 DEF vars, IInv, TypeOK
    <2> QED
      BY <1>1, <2>1, <2>2, TableMonotone, SoundMonotone DEF vars, IInv
  <1>2. CASE Next
    BY <1>2, SubmitAuditIInv, PushIInv, InboxReceiveIInv, FetchSnapshotIInv,
       IngestReceiveIInv, WriteRowIInv, WriteFailsIInv, CrashIInv DEF Next
  <1> QED
    BY <1>1, <1>2

\* Every reachable state satisfies the inductive invariant.
THEOREM SpecIInv == Spec => []IInv
  BY InitIInv, NextIInv, PTL DEF Spec

\* The types of all variables.
THEOREM TypeCorrect == Spec => []TypeOK
  <1>1. IInv => TypeOK
    BY DEF IInv
  <1> QED
    BY SpecIInv, <1>1, PTL

\* No node ever stores a value that the row's source did not audit at the row's
\* timestamp, whatever was relayed, half written, lost or overtaken.
THEOREM Provenance == Spec => []EveryFactWasAudited
  <1>1. IInv => EveryFactWasAudited
    BY DEF IInv, EveryFactWasAudited, SoundTable, Sound
  <1> QED
    BY SpecIInv, <1>1, PTL

\* A CONFIRMED fact's value was audited on at least ConfirmThreshold nodes.
THEOREM ConfirmedHonesty == Spec => []ConfirmedNeedsSources
  <1>1. IInv => ConfirmedNeedsSources
    BY DEF IInv, ConfirmedNeedsSources, SoundTable, Sound
  <1> QED
    BY SpecIInv, <1>1, PTL
-----------------------------------------------------------------------------
(* FactMesh implements ProvenanceLog. *)

\* Every time handed out is past: a step that issues an audit reads the clock
\* and moves it on.
LEMMA IssuingTimesPast ==
    ASSUME IInv, TimesPast, clock < MaxClock, clock' = clock + 1,
           NEW i, i.ts = clock, issued' = issued \cup {i}
    PROVE  TimesPast'
  <1>1. clock \in Nat /\ \A j \in issued : j.ts \in Nat
    BY DEF IInv, TypeOK, Issue
  <1> QED
    BY <1>1, BoundAssumption DEF TimesPast

LEMMA NextTimesPast == IInv /\ TimesPast /\ [Next]_vars => TimesPast'
  <1> SUFFICES ASSUME IInv, TimesPast, [Next]_vars PROVE TimesPast'
    OBVIOUS
  <1>1. ASSUME NEW n \in Node, NEW a \in Auditor, NEW v \in Value, SubmitAudit(n, a, v)
        PROVE  TimesPast'
    <2>1. [src |-> n, by |-> a, value |-> v, ts |-> clock].ts = clock
      OBVIOUS
    <2> QED
      BY <1>1, <2>1, IssuingTimesPast DEF SubmitAudit
  <1>2. ASSUME NEW p \in pushing, PushFactsToPeers(p)
        PROVE  TimesPast'
    <2>1. [src |-> p.src, by |-> p.by, value |-> p.value, ts |-> clock].ts = clock
      OBVIOUS
    <2> QED
      BY <1>2, <2>1, IssuingTimesPast DEF PushFactsToPeers
  <1>3. CASE UNCHANGED <<clock, issued>>
    BY <1>3 DEF TimesPast
  <1>4. Next => \/ \E n \in Node, a \in Auditor, v \in Value : SubmitAudit(n, a, v)
                \/ \E p \in pushing : PushFactsToPeers(p)
                \/ UNCHANGED <<clock, issued>>
    BY DEF Next, InboxReceive, FetchSnapshot, IngestReceive, WriteRow, WriteFails, Crash
  <1> QED
    BY <1>1, <1>2, <1>3, <1>4 DEF vars

LEMMA InitTimesPast == Init => TimesPast
  BY BoundAssumption DEF Init, TimesPast

\* What the refinement maps the history and the tables to.
EntryOf(i) == [key |-> i.src, datum |-> i.value, time |-> i.ts]
LogOf == {EntryOf(i) : i \in issued}
HeldRow(row) ==
    IF row = NoRow THEN NoRow
    ELSE [datum |-> row.value, time |-> row.ts, confirmed |-> row.tier = "CONFIRMED"]
HeldBy == [n \in Node |-> [s \in Node |-> HeldRow(facts[n][s])]]

LEMMA EntryFields ==
    \A i : /\ EntryOf(i).key = i.src
           /\ EntryOf(i).datum = i.value
           /\ EntryOf(i).time = i.ts
  BY DEF EntryOf

\* With no fact anywhere nothing is logged and nothing held.
LEMMA InitLog == Init => FactLog!LogInit
  <1> SUFFICES ASSUME Init PROVE FactLog!LogInit
    OBVIOUS
  <1>1. LogOf = {}
    BY DEF Init, LogOf
  <1>2. HeldBy = [n \in Node |-> [s \in Node |-> NoRow]]
    BY DEF Init, HeldBy, HeldRow, EmptyTable, Node
  <1> QED
    BY <1>1, <1>2 DEF FactLog!LogInit, LogOf, EntryOf, HeldBy, HeldRow

\* A step that writes one row.
Puts(n, s, row) == facts' = [facts EXCEPT ![n][s] = row]

\* A row written is a copy written.
LEMMA RowHeld ==
    ASSUME facts \in [Node -> Table], NEW n \in Node, NEW s \in Node, NEW row, Puts(n, s, row)
    PROVE  HeldBy' = [HeldBy EXCEPT ![n][s] = HeldRow(row)]
  <1>1. ASSUME NEW x \in Node, NEW y \in Node
        PROVE  facts'[x][y] = IF x = n /\ y = s THEN row ELSE facts[x][y]
    BY DEF Puts, Table, Node
  <1>2. HeldBy' = [x \in Node |-> [y \in Node |->
                     IF x = n /\ y = s THEN HeldRow(row) ELSE HeldRow(facts[x][y])]]
    BY <1>1 DEF HeldBy
  <1> QED
    BY <1>2 DEF HeldBy

\* An audit that is issued is an entry published at a time of its own, whether its
\* node stores it in the same step or has stored it before.
LEMMA IssuePublishes ==
    ASSUME IInv, TimesPast, clock < MaxClock,
           NEW n \in Node, NEW a \in Auditor, NEW v \in Value,
           issued' = issued \cup {[src |-> n, by |-> a, value |-> v, ts |-> clock]},
           \/ HeldBy' = HeldBy
           \/ HeldBy' = [HeldBy EXCEPT ![n][n] = HeldRow(AuditRow(a, v, clock))]
    PROVE  FactLog!LogNext
  <1>1. PICK t \in 0..MaxClock : t = clock
    BY BoundAssumption DEF IInv, TypeOK
  <1>2. PICK i : i = [src |-> n, by |-> a, value |-> v, ts |-> t]
    OBVIOUS
  <1>3. PICK e : e = EntryOf(i)
    OBVIOUS
  <1>4. e = [key |-> n, datum |-> v, time |-> t]
    BY <1>2, <1>3 DEF EntryOf
  <1>5. \A x \in LogOf : x.time # t
    <2> SUFFICES ASSUME NEW j \in issued PROVE EntryOf(j).time # t
      BY DEF LogOf
    <2>1. j.ts \in Nat /\ j.ts < clock /\ clock \in Nat
      BY DEF TimesPast, Issue, IInv, TypeOK
    <2> QED
      BY <1>1, <2>1, EntryFields
  <1>6. LogOf' = LogOf \cup {e}
    <2>1. issued' = issued \cup {i}
      BY <1>1, <1>2
    <2> QED
      BY <1>3, <2>1 DEF LogOf
  <1>7. LogOf' # LogOf
    BY <1>4, <1>5, <1>6
  <1>8. HeldRow(AuditRow(a, v, t)) = FactLog!Copy(e, FALSE)
    <2>1. AuditRow(a, v, t) \in Row
      BY <1>1, BoundAssumption DEF AuditRow, Row, Tier
    <2> QED
      BY <1>4, <2>1, NoRowAssumption DEF HeldRow, AuditRow, FactLog!Copy
  <1>9. HeldBy' \in {HeldBy, [HeldBy EXCEPT ![n][n] = FactLog!Copy(e, FALSE)]}
    BY <1>1, <1>8
  <1>10. [x \in Node |-> x][e.key] = n /\ e.key = n
    BY <1>4
  <1>11. FactLog!Publish(e)
    BY <1>4, <1>5, <1>6, <1>9, <1>10 DEF FactLog!Publish, LogOf, EntryOf, HeldBy, HeldRow
  <1>12. FactLog!Publish(FactLog!Entry(n, v, t))
    BY <1>4, <1>11 DEF FactLog!Entry
  <1> QED
    BY <1>7, <1>12 DEF FactLog!LogNext, LogOf, EntryOf

\* The logs that hold a value are those of the nodes it was audited on.
LEMMA LogKeys == \A v : FactLog!KeysOf(v) = AuditedOn(v)
  <1> SUFFICES ASSUME NEW v PROVE FactLog!KeysOf(v) = AuditedOn(v)
    OBVIOUS
  <1>1. {x \in LogOf : x.datum = v} = {EntryOf(i) : i \in {j \in issued : j.value = v}}
    BY EntryFields DEF LogOf
  <1>2. {e.key : e \in {x \in LogOf : x.datum = v}} = AuditedOn(v)
    BY <1>1, EntryFields DEF AuditedOn
  <1> QED
    BY <1>2 DEF FactLog!KeysOf, LogOf, EntryOf

\* The upsert of a merged row takes over an entry of the log of its source.
LEMMA WriteRowAdopts ==
    ASSUME IInv, NEW n \in Node, NEW s \in Node, NEW h \in Handler, WriteRow(n, h, s)
    PROVE  FactLog!LogNext
  <1>1. PICK new \in Row : new = todo[n][h][s] /\ Sound(s, new)
    BY DEF WriteRow, IInv, TypeOK, Table, SoundTable, Node
  <1>2. PICK row : row = Upsert(facts[n][s], new)
    OBVIOUS
  <1>3. /\ row \in Row
        /\ row.value = new.value /\ row.ts = new.ts /\ row.tier = new.tier
    <2>1. CASE facts[n][s] = NoRow
      BY <1>2, <2>1 DEF Upsert
    <2>2. CASE facts[n][s] # NoRow
      <3>1. facts[n][s] \in Row
        BY <2>2 DEF IInv, TypeOK, Table, Node
      <3> QED
        BY <1>2, <2>2, <3>1 DEF Upsert, Row
    <2> QED
      BY <2>1, <2>2
  <1>4. PICK i \in issued : i.src = s /\ i.value = row.value /\ i.ts = row.ts
    BY <1>1, <1>3, NoRowAssumption DEF Sound, Genuine
  <1>5. PICK e \in LogOf : e.key = s /\ e.datum = row.value /\ e.time = row.ts
    BY <1>4, EntryFields DEF LogOf
  <1>6. PICK c \in BOOLEAN : c = (row.tier = "CONFIRMED")
    OBVIOUS
  <1>7. c => FactLog!KeysOf(e.datum) \in Enough
    <2>1. AuditedOn(e.datum) \in SUBSET Node
      BY DEF IInv, TypeOK, AuditedOn, Issue
    <2>2. c => Cardinality(AuditedOn(e.datum)) >= ConfirmThreshold
      BY <1>1, <1>3, <1>5, <1>6, NoRowAssumption DEF Sound
    <2> QED
      BY <2>1, <2>2, LogKeys DEF Enough
  <1>8. HeldRow(row) = [datum |-> e.datum, time |-> e.time, confirmed |-> c]
    BY <1>3, <1>5, <1>6, NoRowAssumption DEF HeldRow
  <1>9. HeldBy' = [HeldBy EXCEPT ![n][s] = HeldRow(row)]
    <2>1. Puts(n, s, row) /\ facts \in [Node -> Table]
      BY <1>1, <1>2 DEF WriteRow, Puts, IInv, TypeOK
    <2> QED
      BY <2>1, RowHeld
  <1>10. UNCHANGED issued
    BY DEF WriteRow
  <1>11. FactLog!Adopt(n, e, c)
    <2>1. LogOf' = LogOf
      BY <1>10 DEF LogOf
    <2>2. HeldBy' = [HeldBy EXCEPT ![n][e.key] = FactLog!Copy(e, c)]
      BY <1>5, <1>8, <1>9 DEF FactLog!Copy
    <2> QED
      BY <1>7, <2>1, <2>2 DEF FactLog!Adopt, LogOf, EntryOf, HeldBy, HeldRow
  <1> QED
    BY <1>5, <1>6, <1>11 DEF FactLog!LogNext, LogOf, EntryOf

\* Every step publishes an entry, takes one over or leaves logs and copies alone.
LEMMA NextLog ==
    ASSUME IInv, TimesPast, [Next]_vars
    PROVE  FactLog!LogNext \/ UNCHANGED <<LogOf, HeldBy>>
  <1>1. CASE UNCHANGED <<facts, issued>>
    BY <1>1 DEF LogOf, HeldBy
  <1>2. ASSUME NEW n \in Node, NEW a \in Auditor, NEW v \in Value, SubmitAudit(n, a, v)
        PROVE  FactLog!LogNext
    <2>1. HeldBy' = [HeldBy EXCEPT ![n][n] = HeldRow(AuditRow(a, v, clock))]
      <3>1. PICK row : row = AuditRow(a, v, clock)
        OBVIOUS
      <3>2. Puts(n, n, row) /\ facts \in [Node -> Table]
        BY <1>2, <3>1 DEF SubmitAudit, Puts, IInv, TypeOK
      <3> QED
        BY <3>1, <3>2, RowHeld
    <2> QED
      BY <1>2, <2>1, IssuePublishes DEF SubmitAudit
  <1>3. ASSUME NEW p \in pushing, PushFactsToPeers(p)
        PROVE  FactLog!LogNext
    <2>1. p.src \in Node /\ p.by \in Auditor /\ p.value \in Value
      BY DEF IInv, TypeOK
    <2>2. HeldBy' = HeldBy
      BY <1>3 DEF PushFactsToPeers, HeldBy
    <2> QED
      BY <1>3, <2>1, <2>2, IssuePublishes DEF PushFactsToPeers
  <1>4. Next => \/ \E n \in Node, a \in Auditor, v \in Value : SubmitAudit(n, a, v)
                \/ \E p \in pushing : PushFactsToPeers(p)
                \/ \E n, s \in Node, h \in Handler : WriteRow(n, h, s)
                \/ UNCHANGED <<facts, issued>>
    BY DEF Next, InboxReceive, FetchSnapshot, IngestReceive, WriteFails, Crash
  <1> QED
    BY <1>1, <1>2, <1>3, <1>4, WriteRowAdopts DEF vars

\* Nodes that audit, push, relay, merge, fail and restart implement logs and copies
\* of their entries, for any number of nodes, auditors and values.
THEOREM MeshImplementsLog == Spec => ImplementsLog
  <1>1. IInv /\ TimesPast /\ [Next]_vars => [FactLog!LogNext]_(FactLog!logVars)
    BY NextLog DEF FactLog!logVars, LogOf, EntryOf, HeldBy, HeldRow
  <1>2. Init => FactLog!LogInit
    BY InitLog
  <1> QED
    BY <1>1, <1>2, SpecIInv, InitTimesPast, NextTimesPast, PTL
    DEF Spec, ImplementsLog, FactLog!LogSpec
-----------------------------------------------------------------------------
(* FactRaces: what a stored fact gives way to. *)

\* What a merge makes of a stored row is ahead of it: MergeRow takes an incoming row
\* of a higher tier or a newer time only, and evaluateConfirmed demotes no row.
LEMMA MergeAdvances ==
    ASSUME NEW t \in Table, NEW d \in Table, NEW s \in Source, t[s] # NoRow
    PROVE  /\ MergeGossipDelta(t, d)[s] \in Row
           /\ Advances(MergeGossipDelta(t, d)[s], t[s])
  <1>1. PICK old \in Row : old = t[s]
    BY DEF Table
  <1>2. PICK m : m = [x \in Source |-> MergeRow(t[x], d[x])]
    OBVIOUS
  <1>3. PICK row \in Row : row = m[s]
    BY <1>1, <1>2 DEF Table, MergeRow
  <1>4. row = old \/ Supersedes(row, old)
    BY <1>1, <1>2, <1>3 DEF MergeRow
  <1>5. PICK new : new = MergeGossipDelta(t, d)[s]
    OBVIOUS
  <1>6. new = row \/ new = [row EXCEPT !.tier = "CONFIRMED"]
    BY <1>2, <1>3, <1>5 DEF MergeGossipDelta, EvaluateConfirmed
  <1>7. /\ new \in Row /\ new.value = row.value /\ new.ts = row.ts
        /\ new.tier = row.tier \/ new.tier = "CONFIRMED"
    BY <1>6 DEF Row, Tier
  <1>8. Advances(new, old)
    <2>1. old \in Row /\ row \in Row /\ new \in Row /\ old # NoRow /\ new # NoRow
      BY <1>1, <1>7, NoRowAssumption
    <2>2. \A r \in Row : r.tier \in Tier /\ r.ts \in Nat
      BY DEF Row
    <2>3. \A k \in Tier : TierRank[k] \in 0..3 /\ (TierRank[k] = 3 => k = "CONFIRMED")
      BY DEF Tier, TierRank
    <2>4. TierRank["CONFIRMED"] = 3 /\ "CONFIRMED" \in Tier
      BY DEF Tier, TierRank
    <2>5. CASE row = old
      <3>1. CASE new.tier = old.tier
        BY <1>7, <2>1, <2>5, <3>1 DEF Advances, SameFact
      <3>2. CASE new.tier # old.tier
        BY <1>7, <2>1, <2>2, <2>3, <2>4, <2>5, <3>2 DEF Advances
      <3> QED
        BY <3>1, <3>2
    <2>6. CASE row.ts > old.ts
      BY <1>7, <2>6 DEF Advances
    <2>7. CASE TierRank[row.tier] > TierRank[old.tier]
      BY <1>7, <2>1, <2>2, <2>3, <2>4, <2>7 DEF Advances
    <2> QED
      BY <1>4, <2>5, <2>6, <2>7 DEF Supersedes
  <1> QED
    BY <1>1, <1>5, <1>7, <1>8

\* A merge that starts does so where none is in progress, on the stored facts.
LEMMA StartMergeRows ==
    ASSUME IInv, NEW x \in Node, NEW g \in Handler, NEW d \in Table, StartMerge(x, g, d),
           UNCHANGED facts,
           NEW n \in Node, NEW s \in Node, NEW h \in Handler
    PROVE  \/ todo'[n][h][s] = todo[n][h][s]
           \/ /\ todo[n][h][s] = NoRow
              /\ UNCHANGED facts
              /\ \E e \in Table : todo'[n][h][s] = MergeGossipDelta(facts[n], e)[s]
  <1>1. PICK merged : merged = MergeGossipDelta(facts[x], d)
    OBVIOUS
  <1>2. todo' = [todo EXCEPT ![x][g] = merged] /\ todo \in [Node -> [Handler -> Table]]
    BY <1>1 DEF StartMerge, IInv, TypeOK
  <1>3. CASE n = x /\ h = g
    <2>1. todo'[n][h][s] = merged[s]
      BY <1>2, <1>3
    <2>2. todo[n][h][s] = NoRow
      BY <1>3 DEF StartMerge, Idle, EmptyTable, Node
    <2> QED
      BY <1>1, <1>3, <2>1, <2>2
  <1>4. CASE ~(n = x /\ h = g)
    BY <1>2, <1>4
  <1> QED
    BY <1>3, <1>4

\* A row that waits to be upserted has waited before, or comes from a merge that
\* read the facts as they are stored.
LEMMA WaitingRow ==
    ASSUME IInv, [Next]_vars, NEW n \in Node, NEW s \in Node, NEW h \in Handler,
           todo'[n][h][s] # NoRow
    PROVE  \/ todo'[n][h][s] = todo[n][h][s]
           \/ /\ todo[n][h][s] = NoRow
              /\ UNCHANGED facts
              /\ \E d \in Table : todo'[n][h][s] = MergeGossipDelta(facts[n], d)[s]
  <1> DEFINE Goal == \/ todo'[n][h][s] = todo[n][h][s]
                     \/ /\ todo[n][h][s] = NoRow
                        /\ UNCHANGED facts
                        /\ \E d \in Table : todo'[n][h][s] = MergeGossipDelta(facts[n], d)[s]
  <1>1. CASE UNCHANGED todo
    BY <1>1
  <1>2. ASSUME NEW x \in Node, NEW y \in Node, NEW g \in Handler,
               todo' = [todo EXCEPT ![x][g][y] = NoRow]
        PROVE  Goal
    BY <1>2 DEF IInv, TypeOK, Table, Node
  <1>3. ASSUME NEW x \in Node, todo' = [todo EXCEPT ![x] = [g \in Handler |-> EmptyTable]]
        PROVE  Goal
    BY <1>3 DEF IInv, TypeOK, EmptyTable, Node
  <1>4. ASSUME NEW m \in network, InboxReceive(m)
        PROVE  Goal
    <2>1. m.to \in Node /\ "inbox" \in Handler /\ PushedDelta(m) \in Table
      BY DEF IInv, TypeOK, Message, Handler, PushedDelta, Table, Node
    <2> QED
      BY <1>4, <2>1, StartMergeRows DEF InboxReceive
  <1>5. ASSUME NEW x \in Node, IngestReceive(x)
        PROVE  Goal
    <2>1. "ingest" \in Handler /\ fetched[x] \in Table
      BY <1>5 DEF IInv, TypeOK, Handler, IngestReceive
    <2> QED
      BY <1>5, <2>1, StartMergeRows DEF IngestReceive
  <1>6. Next => \/ UNCHANGED todo
                \/ \E x, y \in Node, g \in Handler : todo' = [todo EXCEPT ![x][g][y] = NoRow]
                \/ \E x \in Node : todo' = [todo EXCEPT ![x] = [g \in Handler |-> EmptyTable]]
                \/ \E m \in network : InboxReceive(m)
                \/ \E x \in Node : IngestReceive(x)
    BY DEF Next, SubmitAudit, PushFactsToPeers, FetchSnapshot, WriteRow, WriteFails, Crash
  <1> QED
    BY <1>1, <1>2, <1>3, <1>4, <1>5, <1>6 DEF vars

\* A stored fact stays, is replaced by an audit of this moment, or by the upsert of
\* a merged row.
LEMMA StoredRow ==
    ASSUME IInv, [Next]_vars, NEW n \in Node, NEW s \in Node
    PROVE  \/ facts'[n][s] = facts[n][s]
           \/ \E a \in Auditor, v \in Value : facts'[n][s] = AuditRow(a, v, clock)
           \/ \E h \in Handler :
                /\ todo[n][h][s] # NoRow /\ todo'[n][h][s] = NoRow
                /\ facts'[n][s] = Upsert(facts[n][s], todo[n][h][s])
  <1> DEFINE Goal == \/ facts'[n][s] = facts[n][s]
                     \/ \E a \in Auditor, v \in Value : facts'[n][s] = AuditRow(a, v, clock)
                     \/ \E h \in Handler :
                          /\ todo[n][h][s] # NoRow /\ todo'[n][h][s] = NoRow
                          /\ facts'[n][s] = Upsert(facts[n][s], todo[n][h][s])
  <1>1. CASE UNCHANGED facts
    BY <1>1
  <1>2. ASSUME NEW x \in Node, NEW a \in Auditor, NEW v \in Value, SubmitAudit(x, a, v)
        PROVE  Goal
    BY <1>2 DEF SubmitAudit, IInv, TypeOK, Table, Node
  <1>3. ASSUME NEW x \in Node, NEW y \in Node, NEW h \in Handler, WriteRow(x, h, y)
        PROVE  Goal
    <2>1. CASE x = n /\ y = s
      BY <1>3, <2>1 DEF WriteRow, IInv, TypeOK, Table, Node
    <2>2. CASE ~(x = n /\ y = s)
      BY <1>3, <2>2 DEF WriteRow, IInv, TypeOK, Table, Node
    <2> QED
      BY <2>1, <2>2
  <1>4. Next => \/ UNCHANGED facts
                \/ \E x \in Node, a \in Auditor, v \in Value : SubmitAudit(x, a, v)
                \/ \E x, y \in Node, h \in Handler : WriteRow(x, h, y)
    BY DEF Next, PushFactsToPeers, InboxReceive, FetchSnapshot, IngestReceive, WriteFails, Crash
  <1> QED
    BY <1>1, <1>2, <1>3, <1>4 DEF vars

\* An upsert differs from the merged row in its author only.
LEMMA UpsertKeeps ==
    ASSUME NEW old \in Row \cup {NoRow}, NEW new \in Row
    PROVE  /\ Upsert(old, new) \in Row
           /\ Upsert(old, new).value = new.value
           /\ Upsert(old, new).tier = new.tier
           /\ Upsert(old, new).ts = new.ts
  BY DEF Upsert, Row

\* Rows that say the same are ahead of the same rows.
LEMMA AdvancesAlike ==
    ASSUME NEW old, NEW new \in Row, NEW row \in Row,
           row.value = new.value, row.tier = new.tier, row.ts = new.ts, Advances(new, old)
    PROVE  Advances(row, old)
  BY NoRowAssumption DEF Advances, SameFact

\* No audit is as new as one that is made now.
LEMMA AuditAdvances ==
    ASSUME IInv, TimesPast, NEW n \in Node, NEW s \in Node, facts[n][s] # NoRow,
           NEW a \in Auditor, NEW v \in Value
    PROVE  Advances(AuditRow(a, v, clock), facts[n][s])
  <1>1. Sound(s, facts[n][s])
    BY DEF IInv, SoundTable
  <1>2. PICK i \in issued : i.ts = facts[n][s].ts
    BY <1>1 DEF Sound, Genuine
  <1>3. i.ts \in Nat /\ clock \in Nat /\ i.ts < clock
    BY DEF IInv, TypeOK, Issue, TimesPast
  <1> QED
    BY <1>2, <1>3 DEF Advances, AuditRow

\* The history starts empty, and is well typed whatever the step.
LEMMA InitRaceIInv == RaceInit => RaceIInv
  <1> SUFFICES ASSUME RaceInit PROVE RaceIInv
    OBVIOUS
  <1>1. IInv /\ TimesPast
    BY InitIInv, InitTimesPast DEF RaceInit
  <1>2. overtaken \in [Node -> [Handler -> SUBSET Node]]
    BY DEF RaceInit
  <1>3. Ahead
    BY DEF RaceInit, Init, Ahead, EmptyTable, Node
  <1> QED
    BY <1>1, <1>2, <1>3 DEF RaceIInv

\* A row that is read, merged and not overtaken stays ahead of what is stored.
LEMMA NextAhead ==
    ASSUME RaceIInv, RaceNext
    PROVE  Ahead'
  <1> SUFFICES ASSUME NEW n \in Node, NEW s \in Node, NEW h \in Handler,
                      todo'[n][h][s] # NoRow, facts'[n][s] # NoRow, s \notin overtaken'[n][h]
               PROVE  Advances(todo'[n][h][s], facts'[n][s])
    BY DEF Ahead, Advances, SameFact
  <1>1. IInv /\ [Next]_vars
    BY DEF RaceIInv, RaceNext
  <1>2. s \notin Overtaken(n, h)
    BY DEF RaceNext
  <1>3. CASE todo[n][h][s] = NoRow
    <2>1. UNCHANGED facts
      BY <1>1, <1>3, WaitingRow
    <2>2. PICK d \in Table : todo'[n][h][s] = MergeGossipDelta(facts[n], d)[s]
      BY <1>1, <1>3, WaitingRow
    <2>3. facts[n] \in Table /\ facts[n][s] # NoRow /\ s \in Source
      BY <1>1, <2>1 DEF IInv, TypeOK, Node
    <2> QED
      BY <2>1, <2>2, <2>3, MergeAdvances
  <1>4. CASE todo[n][h][s] # NoRow
    <2>1. todo'[n][h][s] = todo[n][h][s]
      BY <1>1, <1>4, WaitingRow
    <2> SUFFICES ASSUME ~Advances(todo'[n][h][s], facts'[n][s]) PROVE FALSE
      OBVIOUS
    <2>2. s \notin overtaken[n][h] /\ facts'[n][s] = facts[n][s]
      BY <1>2, <1>4 DEF Overtaken
    <2> QED
      BY <1>4, <2>1, <2>2 DEF RaceIInv, Ahead
  <1> QED
    BY <1>3, <1>4

LEMMA NextRaceIInv == RaceIInv /\ [RaceNext]_raceVars => RaceIInv'
  <1> SUFFICES ASSUME RaceIInv, [RaceNext]_raceVars PROVE RaceIInv'
    OBVIOUS
  <1>1. IInv' /\ TimesPast'
    BY NextIInv, NextTimesPast DEF RaceIInv, RaceNext, raceVars
  <1>2. CASE UNCHANGED raceVars
    BY <1>1, <1>2 DEF RaceIInv, raceVars, vars, Ahead, Advances, SameFact
  <1>3. CASE RaceNext
    <2>1. overtaken' \in [Node -> [Handler -> SUBSET Node]]
      BY <1>3 DEF RaceNext, Overtaken
    <2> QED
      BY <1>1, <1>3, <2>1, NextAhead DEF RaceIInv
  <1> QED
    BY <1>2, <1>3

\* Every reachable state satisfies the invariant of the races.
THEOREM RaceSpecIInv == RaceSpec => []RaceIInv
  BY InitRaceIInv, NextRaceIInv, PTL DEF RaceSpec

\* A stored fact gives way only to one of a higher tier or a newer time, unless
\* another handler or an audit wrote the row while a merge held it, for any number
\* of nodes and handlers under way.
THEOREM OnlyRaces == RaceSpec => OnlyRacesLoseFacts
  <1>1. ASSUME RaceIInv, RaceNext, NEW n \in Node, NEW s \in Node, facts[n][s] # NoRow
        PROVE  Advances(facts'[n][s], facts[n][s]) \/ LostToRace(n, s)
    <2>1. IInv /\ TimesPast /\ [Next]_vars
      BY <1>1 DEF RaceIInv, RaceNext
    <2>2. PICK old \in Row : old = facts[n][s] /\ old # NoRow
      BY <1>1, <2>1 DEF IInv, TypeOK, Table, Node
    <2>3. CASE facts'[n][s] = facts[n][s]
      BY <2>2, <2>3 DEF Advances, SameFact
    <2>4. CASE \E a \in Auditor, v \in Value : facts'[n][s] = AuditRow(a, v, clock)
      BY <1>1, <2>1, <2>4, AuditAdvances
    <2>5. ASSUME NEW h \in Handler, todo[n][h][s] # NoRow, todo'[n][h][s] = NoRow,
                 facts'[n][s] = Upsert(facts[n][s], todo[n][h][s])
          PROVE  Advances(facts'[n][s], facts[n][s]) \/ LostToRace(n, s)
      <3>1. CASE s \in overtaken[n][h]
        BY <2>5, <3>1 DEF LostToRace
      <3>2. CASE s \notin overtaken[n][h]
        <4>1. PICK new \in Row : new = todo[n][h][s]
          BY <2>1, <2>5 DEF IInv, TypeOK, Table, Node
        <4>2. Advances(new, old)
          BY <1>1, <2>2, <2>5, <3>2, <4>1 DEF RaceIInv, Ahead
        <4>3. PICK row \in Row : /\ row = Upsert(old, new)
                                 /\ row.value = new.value /\ row.tier = new.tier
                                 /\ row.ts = new.ts
          BY UpsertKeeps
        <4>4. Advances(row, old)
          BY <4>2, <4>3, AdvancesAlike
        <4> QED
          BY <2>2, <2>5, <4>1, <4>3, <4>4
      <3> QED
        BY <3>1, <3>2
    <2> QED
      BY <2>1, <2>3, <2>4, <2>5, StoredRow
  <1>2. RaceIInv /\ [RaceNext]_raceVars =>
          [\A n, s \in Node :
             facts[n][s] # NoRow => Advances(facts'[n][s], facts[n][s]) \/ LostToRace(n, s)]_raceVars
    BY <1>1
  <1> QED
    BY <1>2, RaceSpecIInv, PTL DEF RaceSpec, OnlyRacesLoseFacts
=============================================================================
