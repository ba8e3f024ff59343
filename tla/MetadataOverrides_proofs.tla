----------------------- MODULE MetadataOverrides_proofs -----------------------
(***************************************************************************)
(* Theorems about MetadataOverrides and OverrideRaces for any set of       *)
(* nodes, positions and regions and any bounds.                            *)
(***************************************************************************)
EXTENDS OverrideRaces, TLAPS

\* No row at all is a sound table, in any state.
LEMMA EmptyTableSound ==
    /\ EmptyRows \in [Field -> Row \cup {NoRow}]
    /\ EmptyTable \in Table
    /\ \A s : SoundRows(s, EmptyRows) /\ SoundRows(s, EmptyRows)'
    /\ SoundTable(EmptyTable) /\ SoundTable(EmptyTable)'
  BY DEF EmptyRows, EmptyTable, Table, SoundTable, SoundRows

\* More edits keep sound rows and sound tables sound.
LEMMA SoundMonotone ==
    ASSUME issued \subseteq issued'
    PROVE  /\ \A s, row : SoundRows(s, row) => SoundRows(s, row)'
           /\ \A table : SoundTable(table) => SoundTable(table)'
  BY DEF SoundTable, SoundRows, Genuine

\* applyIncomingMetadataOverrides takes each row from one of its two arguments.
LEMMA MergeSound ==
    ASSUME NEW t \in Table, NEW d \in Table, SoundTable(t), SoundTable(d)
    PROVE  /\ MergeMetadataOverrides(t, d) \in Table
           /\ SoundTable(MergeMetadataOverrides(t, d))
  <1>1. MergeMetadataOverrides(t, d) \in Table
    BY DEF MergeMetadataOverrides, Table
  <1>2. ASSUME NEW s \in Node, NEW f \in Field
        PROVE  MergeMetadataOverrides(t, d)[s][f] \in {NoRow, t[s][f], d[s][f]}
    BY DEF MergeMetadataOverrides
  <1> QED
    BY <1>1, <1>2 DEF SoundTable, SoundRows

\* Starting to apply a sound delta leaves sound rows to write, whether the
\* receiver is responsible for the property or drops the rows.
LEMMA StartApplySound ==
    ASSUME IInv, UNCHANGED issued,
           NEW n \in Node, NEW h \in Handler, NEW d \in Table,
           SoundTable(d), StartApply(n, h, d)
    PROVE  /\ todo' \in [Node -> [Handler -> Table]]
           /\ \A x \in Node, g \in Handler : SoundTable(todo[x][g])'
  <1>1. PICK merged \in Table :
            SoundTable(merged) /\ merged = MergeMetadataOverrides(rows[n], d)
    BY MergeSound DEF IInv, TypeOK
  <1>2. todo' \in {todo, [todo EXCEPT ![n][h] = merged]}
    BY <1>1 DEF StartApply
  <1>3. todo \in [Node -> [Handler -> Table]]
    BY DEF IInv, TypeOK
  <1>4. todo' \in [Node -> [Handler -> Table]]
    BY <1>2, <1>3
  <1>5. ASSUME NEW x \in Node, NEW g \in Handler PROVE SoundTable(todo[x][g])'
    <2>1. PICK new : new = todo'[x][g]
      OBVIOUS
    <2>2. new = merged \/ new = todo[x][g]
      BY <1>2, <1>3, <2>1
    <2>3. SoundTable(new)
      BY <1>1, <2>2 DEF IInv
    <2> QED
      BY <2>1, <2>3, SoundMonotone
  <1> QED
    BY <1>4, <1>5

\* Every container a step leaves alone stays sound as the history grows.
LEMMA OthersSound ==
    ASSUME IInv, issued \subseteq issued'
    PROVE  /\ UNCHANGED rows => \A x \in Node : SoundTable(rows[x])'
           /\ UNCHANGED todo => \A x \in Node, g \in Handler : SoundTable(todo[x][g])'
           /\ UNCHANGED fetched =>
                  \A x \in Node : fetched'[x] # NoDelta => SoundTable(fetched[x])'
           /\ network' \subseteq network => \A m \in network' : SoundTable(m.table)'
           /\ edits' \subseteq edits => \A e \in edits' : SoundRows(e.src, e.done)'
  BY SoundMonotone DEF IInv

\* With no override anywhere the inductive invariant holds.
LEMMA InitIInv == Init => IInv
  BY EmptyTableSound DEF Init, IInv, TypeOK

\* A PATCH starts with no field written.
LEMMA PatchPropertyIInv ==
    ASSUME IInv, NEW n \in Node, NEW to \in Position, PatchProperty(n, to)
    PROVE  IInv'
  <1> PICK t \in Nat : t = clock
    BY DEF IInv, TypeOK
  <1> PICK e : e = [src |-> n, to |-> to, now |-> t, done |-> EmptyRows]
    OBVIOUS
  <1>1. e \in Edit /\ e.src = n /\ e.done = EmptyRows
    BY EmptyTableSound DEF Edit
  <1>2. edits' = edits \cup {e}
    BY DEF PatchProperty
  <1>3. TypeOK'
    BY <1>1, <1>2 DEF PatchProperty, IInv, TypeOK
  <1>4. \A x \in edits' : SoundRows(x.src, x.done)'
    <2>1. SoundRows(e.src, e.done)'
      BY <1>1, EmptyTableSound
    <2>2. \A x \in edits : SoundRows(x.src, x.done)'
      BY SoundMonotone DEF PatchProperty, IInv
    <2> QED
      BY <1>2, <2>1, <2>2
  <1> QED
    BY <1>3, <1>4, OthersSound DEF PatchProperty, IInv

\* The row an edit writes has its type, whichever clock stamped it.
LEMMA EditRowType ==
    ASSUME IInv, NEW e \in edits, NEW f \in Field
    PROVE  EditRow(e, f) \in Row
  <1>1. e.src \in Node /\ e.to \in Position /\ e.now \in Nat /\ clock \in Nat
    BY DEF IInv, TypeOK, Edit
  <1>2. OverrideValue(f, e.to[f]) \in Coord \cup {Cleared}
    BY <1>1 DEF OverrideValue, Position
  <1> QED
    BY <1>1, <1>2 DEF EditRow, Row

\* An edit issues the row it stores; its push carries only such rows.
LEMMA WriteOverrideIInv ==
    ASSUME IInv, NEW e \in edits, WriteOverride(e)
    PROVE  IInv'
  <1>1. PICK f \in Field : f = NextField(e)
    BY DEF NextField, Field
  <1>2. PICK row \in Row : row = EditRow(e, f)
    BY EditRowType
  <1>3. PICK done : done = [e.done EXCEPT ![f] = row]
    OBVIOUS
  <1>4. PICK i : i = [src |-> e.src, field |-> f, row |-> row, to |-> e.to]
    OBVIOUS
  <1>5. /\ e.src \in Node /\ e.to \in Position /\ e.now \in Nat
        /\ e.done \in [Field -> Row \cup {NoRow}] /\ e \in Edit
        /\ SoundRows(e.src, e.done)
    BY DEF IInv, TypeOK, Edit
  <1>6. /\ rows' = [rows EXCEPT ![e.src][e.src][f] = row]
        /\ issued' = issued \cup {i}
        /\ clock' = clock + 1 \/ clock' = clock
        /\ UNCHANGED <<fetched, todo, faults>>
    BY <1>1, <1>2, <1>4 DEF WriteOverride
  <1>7. \/ edits' = edits \ {e} /\ network' = network \cup Push(e, done)
        \/ edits' = (edits \ {e}) \cup {[e EXCEPT !.done = done]} /\ UNCHANGED network
    BY <1>1, <1>2, <1>3 DEF WriteOverride
  <1>8. i \in Issue /\ i.src = e.src /\ i.field = f /\ i.row = row
    BY <1>4, <1>5 DEF Issue
  <1>9. issued \subseteq issued' /\ Genuine(e.src, f, row)'
    BY <1>6, <1>8 DEF Genuine
  <1>10. done \in [Field -> Row \cup {NoRow}] /\ SoundRows(e.src, done)'
    <2>1. done \in [Field -> Row \cup {NoRow}]
      BY <1>3, <1>5
    <2>2. ASSUME NEW g \in Field, done[g] # NoRow PROVE Genuine(e.src, g, done[g])'
      <3>1. CASE g = f
        BY <1>3, <1>5, <1>9, <3>1
      <3>2. CASE g # f
        <4>1. done[g] = e.done[g]
          BY <1>3, <1>5, <3>2
        <4>2. SoundRows(e.src, e.done)'
          BY <1>5, <1>9, SoundMonotone
        <4> QED
          BY <2>2, <4>1, <4>2 DEF SoundRows
      <3> QED
        BY <3>1, <3>2
    <2> QED
      BY <2>1, <2>2, <1>3, <1>6 DEF SoundRows
  <1>11. rows' \in [Node -> Table] /\ \A x \in Node : SoundTable(rows[x])'
    <2>1. rows' \in [Node -> Table]
      BY <1>5, <1>6 DEF IInv, TypeOK, Table
    <2>2. ASSUME NEW x \in Node, NEW s \in Node, NEW g \in Field, rows'[x][s][g] # NoRow
          PROVE  Genuine(s, g, rows[x][s][g])'
      <3>1. CASE x = e.src /\ s = e.src /\ g = f
        BY <1>5, <1>6, <1>9, <3>1 DEF IInv, TypeOK, Table
      <3>2. CASE ~(x = e.src /\ s = e.src /\ g = f)
        <4>1. rows'[x][s][g] = rows[x][s][g]
          BY <1>5, <1>6, <3>2 DEF IInv, TypeOK, Table
        <4>2. Genuine(s, g, rows[x][s][g])
          BY <2>2, <4>1 DEF IInv, SoundTable, SoundRows
        <4> QED
          BY <1>9, <4>1, <4>2 DEF Genuine
      <3> QED
        BY <3>1, <3>2
    <2> QED
      BY <2>1, <2>2 DEF SoundTable, SoundRows
  <1>12. network' \in SUBSET Message /\ \A m \in network' : SoundTable(m.table)'
    <2>1. PICK table : table = [EmptyTable EXCEPT ![e.src] = done]
      OBVIOUS
    <2>2. table \in Table
      BY <1>5, <1>10, <2>1, EmptyTableSound DEF Table
    <2>3. SoundTable(table)'
      <3>1. \A s \in Node : table[s] \in {done, EmptyRows} /\ (s # e.src => table[s] = EmptyRows)
        BY <1>5, <2>1 DEF EmptyTable
      <3> QED
        BY <1>10, <3>1, <2>1, EmptyTableSound DEF SoundTable
    <2>4. \A m \in Push(e, done) : m \in Message /\ m.table = table
      <3>1. Push(e, done) = {[to |-> m, table |-> table] : m \in Node \ {e.src}}
        BY <2>1 DEF Push
      <3> QED
        BY <2>2, <3>1 DEF Message
    <2>5. \A m \in network : m \in Message /\ SoundTable(m.table)'
      BY <1>9, SoundMonotone DEF IInv, TypeOK
    <2>6. network' \subseteq network \cup Push(e, done)
      BY <1>7
    <2> QED
      BY <2>3, <2>4, <2>5, <2>6
  <1>13. edits' \in SUBSET Edit /\ \A x \in edits' : SoundRows(x.src, x.done)'
    <2>1. PICK next : next = [e EXCEPT !.done = done]
      OBVIOUS
    <2>2. next \in Edit /\ next.src = e.src /\ next.done = done
      BY <1>5, <1>10, <2>1 DEF Edit
    <2>3. \A x \in edits : x \in Edit /\ SoundRows(x.src, x.done)'
      BY <1>9, SoundMonotone DEF IInv, TypeOK
    <2>4. edits' \subseteq edits \cup {next}
      BY <1>7, <2>1
    <2> QED
      BY <1>10, <2>2, <2>3, <2>4
  <1>14. TypeOK'
    BY <1>6, <1>8, <1>11, <1>12, <1>13 DEF IInv, TypeOK
  <1>15. /\ \A x \in Node, g \in Handler : SoundTable(todo[x][g])'
         /\ \A x \in Node : fetched'[x] # NoDelta => SoundTable(fetched[x])'
    BY <1>6, <1>9, OthersSound
  <1> QED
    BY <1>11, <1>12, <1>13, <1>14, <1>15 DEF IInv

\* An inbox request brings sound rows to apply.
LEMMA InboxReceiveIInv ==
    ASSUME IInv, NEW m \in network, InboxReceive(m)
    PROVE  IInv'
  <1>1. m.to \in Node /\ m.table \in Table /\ SoundTable(m.table) /\ "inbox" \in Handler
    BY DEF IInv, TypeOK, Message, Handler
  <1>2. /\ todo' \in [Node -> [Handler -> Table]]
        /\ \A x \in Node, g \in Handler : SoundTable(todo[x][g])'
    BY <1>1, StartApplySound DEF InboxReceive
  <1>3. TypeOK'
    BY <1>2 DEF InboxReceive, IInv, TypeOK
  <1> QED
    BY <1>2, <1>3, OthersSound DEF InboxReceive, IInv

\* A snapshot is the table of a peer, and therefore sound.
LEMMA FetchSnapshotIInv ==
    ASSUME IInv, NEW n \in Node, NEW p \in Node, FetchSnapshot(n, p)
    PROVE  IInv'
  <1>1. TypeOK'
    BY DEF FetchSnapshot, IInv, TypeOK
  <1>2. ASSUME NEW x \in Node, fetched'[x] # NoDelta PROVE SoundTable(fetched[x])'
    <2>1. PICK new : new = fetched'[x]
      OBVIOUS
    <2>2. SoundTable(new)
      BY <1>2, <2>1 DEF FetchSnapshot, IInv, TypeOK
    <2> QED
      BY <2>1, <2>2, SoundMonotone DEF FetchSnapshot
  <1> QED
    BY <1>1, <1>2, OthersSound DEF FetchSnapshot, IInv

\* Ingesting a snapshot brings sound rows to apply.
LEMMA IngestReceiveIInv ==
    ASSUME IInv, NEW n \in Node, IngestReceive(n)
    PROVE  IInv'
  <1>1. PICK d \in Table : d = fetched[n] /\ SoundTable(d)
    BY DEF IngestReceive, IInv, TypeOK
  <1>2. /\ todo' \in [Node -> [Handler -> Table]]
        /\ \A x \in Node, g \in Handler : SoundTable(todo[x][g])'
    BY <1>1, StartApplySound DEF IngestReceive, Handler
  <1>3. TypeOK'
    BY <1>2 DEF IngestReceive, IInv, TypeOK
  <1>4. ASSUME NEW x \in Node, fetched'[x] # NoDelta PROVE SoundTable(fetched[x])'
    <2>1. PICK new : new = fetched'[x]
      OBVIOUS
    <2>2. SoundTable(new)
      BY <1>4, <2>1 DEF IngestReceive, IInv, TypeOK
    <2> QED
      BY <2>1, <2>2, SoundMonotone DEF IngestReceive
  <1> QED
    BY <1>2, <1>3, <1>4, OthersSound DEF IngestReceive, IInv

\* The upsert of a merged row stores that row whole, value and time together.
LEMMA WriteRowIInv ==
    ASSUME IInv, NEW n \in Node, NEW s \in Node, NEW h \in Handler, NEW f \in Field,
           WriteRow(n, h, s, f)
    PROVE  IInv'
  <1>1. PICK row \in Row : row = todo[n][h][s][f] /\ Genuine(s, f, row)
    BY DEF WriteRow, IInv, TypeOK, Table, SoundTable, SoundRows
  <1>2. rows' = [rows EXCEPT ![n][s][f] = row]
    BY <1>1 DEF WriteRow, Stored
  <1>3. rows' \in [Node -> Table]
    BY <1>2 DEF IInv, TypeOK, Table
  <1>4. todo' = [todo EXCEPT ![n][h][s][f] = NoRow] /\ UNCHANGED issued
    BY DEF WriteRow
  <1>5. todo' \in [Node -> [Handler -> Table]]
    BY <1>4 DEF IInv, TypeOK, Table
  <1>6. TypeOK'
    BY <1>3, <1>5 DEF WriteRow, IInv, TypeOK
  <1>7. ASSUME NEW x \in Node, NEW y \in Node, NEW g \in Field, rows'[x][y][g] # NoRow
        PROVE  Genuine(y, g, rows[x][y][g])'
    <2>1. PICK new : new = rows'[x][y][g]
      OBVIOUS
    <2>2. (x = n /\ y = s /\ g = f /\ new = row) \/ new = rows[x][y][g]
      BY <1>2, <2>1 DEF IInv, TypeOK, Table
    <2>3. Genuine(y, g, new)
      BY <1>1, <1>7, <2>1, <2>2 DEF IInv, SoundTable, SoundRows
    <2> QED
      BY <1>4, <2>1, <2>3 DEF Genuine
  <1>8. ASSUME NEW x \in Node, NEW k \in Handler, NEW y \in Node, NEW g \in Field,
               todo'[x][k][y][g] # NoRow
        PROVE  Genuine(y, g, todo[x][k][y][g])'
    <2>1. PICK new : new = todo'[x][k][y][g]
      OBVIOUS
    <2>2. new = NoRow \/ new = todo[x][k][y][g]
      BY <1>4, <2>1 DEF IInv, TypeOK, Table
    <2>3. Genuine(y, g, new)
      BY <1>8, <2>1, <2>2 DEF IInv, SoundTable, SoundRows
    <2> QED
      BY <1>4, <2>1, <2>3 DEF Genuine
  <1>9. /\ \A x \in Node : SoundTable(rows[x])'
        /\ \A x \in Node, k \in Handler : SoundTable(todo[x][k])'
    BY <1>7, <1>8 DEF SoundTable, SoundRows
  <1> QED
    BY <1>6, <1>9, OthersSound DEF WriteRow, IInv

\* A failed upsert forgets the rows its handler had left.
LEMMA ApplyFailsIInv ==
    ASSUME IInv, NEW n \in Node, NEW h \in Handler, ApplyFails(n, h)
    PROVE  IInv'
  <1>1. TypeOK'
    BY EmptyTableSound DEF ApplyFails, IInv, TypeOK
  <1>2. ASSUME NEW x \in Node, NEW g \in Handler PROVE SoundTable(todo[x][g])'
    <2>1. PICK new : new = todo'[x][g]
      OBVIOUS
    <2>2. new = EmptyTable \/ new = todo[x][g]
      BY <2>1 DEF ApplyFails, IInv, TypeOK
    <2>3. SoundTable(new)
      BY <2>2, EmptyTableSound DEF IInv
    <2> QED
      BY <2>1, <2>3, SoundMonotone DEF ApplyFails
  <1> QED
    BY <1>1, <1>2, OthersSound DEF ApplyFails, IInv

\* An edit that fails leaves the rows it has already written.
LEMMA EditFailsIInv ==
    ASSUME IInv, NEW e \in edits, EditFails(e)
    PROVE  IInv'
  <1>1. TypeOK'
    BY DEF EditFails, IInv, TypeOK
  <1> QED
    BY <1>1, OthersSound DEF EditFails, IInv

\* A restart forgets what the handlers held and changes no table.
LEMMA CrashIInv ==
    ASSUME IInv, NEW n \in Node, Crash(n)
    PROVE  IInv'
  <1>1. TypeOK'
    BY EmptyTableSound DEF Crash, IInv, TypeOK
  <1>2. ASSUME NEW x \in Node, NEW g \in Handler PROVE SoundTable(todo[x][g])'
    <2>1. PICK new : new = todo'[x][g]
      OBVIOUS
    <2>2. new = EmptyTable \/ new = todo[x][g]
      BY <2>1 DEF Crash, IInv, TypeOK
    <2>3. SoundTable(new)
      BY <2>2, EmptyTableSound DEF IInv
    <2> QED
      BY <2>1, <2>3, SoundMonotone DEF Crash
  <1>3. ASSUME NEW x \in Node, fetched'[x] # NoDelta PROVE SoundTable(fetched[x])'
    <2>1. PICK new : new = fetched'[x]
      OBVIOUS
    <2>2. SoundTable(new)
      BY <1>3, <2>1 DEF Crash, IInv, TypeOK
    <2> QED
      BY <2>1, <2>2, SoundMonotone DEF Crash
  <1>4. edits' \subseteq edits
    BY DEF Crash
  <1> QED
    BY <1>1, <1>2, <1>3, <1>4, OthersSound DEF Crash, IInv

\* Every step preserves the inductive invariant.
LEMMA NextIInv == IInv /\ [Next]_vars => IInv'
  <1> SUFFICES ASSUME IInv, [Next]_vars PROVE IInv'
    OBVIOUS
  <1>1. CASE UNCHANGED vars
    <2>1. TypeOK'
      BY <1>1 DEF vars, IInv, TypeOK
    <2> QED
      BY <1>1, <2>1, OthersSound DEF vars, IInv
  <1>2. CASE Next
    <2>1. CASE \E n \in Editor, to \in Place : PatchProperty(n, to)
      BY <2>1, PatchPropertyIInv, EditorAssumption, PlaceAssumption
    <2> QED
      BY <1>2, <2>1, WriteOverrideIInv, InboxReceiveIInv, FetchSnapshotIInv,
         IngestReceiveIInv, WriteRowIInv, ApplyFailsIInv, EditFailsIInv, CrashIInv DEF Next
  <1> QED
    BY <1>1, <1>2

\* Every reachable state satisfies the inductive invariant.
THEOREM SpecIInv == Spec => []IInv
  BY InitIInv, NextIInv, PTL DEF Spec

\* The types of all variables.
THEOREM TypeCorrect == Spec => []TypeOK
  <1>1. IInv => TypeOK
    BY DEF IInv
  <1> QED
    BY SpecIInv, <1>1, PTL

\* No node ever stores an override, value and time together, that its source
\* node did not write, whatever was relayed, half applied, lost or overtaken.
THEOREM OverridesGenuine == Spec => []EveryOverrideWasMade
  <1>1. IInv => EveryOverrideWasMade
    BY DEF IInv, EveryOverrideWasMade, SoundTable, SoundRows
  <1> QED
    BY SpecIInv, <1>1, PTL
-----------------------------------------------------------------------------
(* The times of overrides. *)

\* What a step of an edit does: it writes the row of a field that it has not written
\* yet, under the time the edit has read or, when there was no row, under a new one.
Written(e, f, row) ==
    /\ f = NextField(e) /\ e.done[f] = NoRow
    /\ row.value \in Coord \cup {Cleared}
    /\ \/ /\ rows[e.src][e.src][f] = NoRow
          /\ row.ts = clock /\ clock < MaxClock /\ clock' = clock + 1
       \/ /\ rows[e.src][e.src][f] # NoRow
          /\ row.ts = e.now /\ clock' = clock
    /\ rows' = [rows EXCEPT ![e.src][e.src][f] = row]
    /\ issued' = issued \cup {[src |-> e.src, field |-> f, row |-> row, to |-> e.to]}
    /\ \/ edits' = edits \ {e}
       \/ /\ f = "lat"
          /\ edits' = (edits \ {e}) \cup {[e EXCEPT !.done = [e.done EXCEPT !["lat"] = row]]}

LEMMA WriteOverrideWrites ==
    ASSUME IInv, TimesSound, NEW e \in edits, WriteOverride(e)
    PROVE  \E f \in Field, row \in Row : Written(e, f, row)
  <1>1. PICK f \in Field : f = NextField(e)
    BY DEF NextField, Field
  <1>2. PICK row \in Row : row = EditRow(e, f)
    BY EditRowType
  <1>3. e \in Edit /\ e.done[f] = NoRow
    BY <1>1 DEF IInv, TypeOK, TimesSound, NextField
  <1>4. /\ row.value \in Coord \cup {Cleared}
        /\ row.ts = IF rows[e.src][e.src][f] = NoRow THEN clock ELSE e.now
    BY <1>2 DEF EditRow, Row
  <1>5. /\ rows' = [rows EXCEPT ![e.src][e.src][f] = row]
        /\ issued' = issued \cup {[src |-> e.src, field |-> f, row |-> row, to |-> e.to]}
        /\ rows[e.src][e.src][f] = NoRow => clock < MaxClock /\ clock' = clock + 1
        /\ rows[e.src][e.src][f] # NoRow => clock' = clock
    BY <1>1, <1>2 DEF WriteOverride
  <1>6. \/ edits' = edits \ {e}
        \/ f = "lat" /\ edits' = (edits \ {e}) \cup {[e EXCEPT !.done = [e.done EXCEPT ![f] = row]]}
    BY <1>1, <1>2 DEF WriteOverride, NextField
  <1>7. Written(e, f, row)
    BY <1>1, <1>3, <1>4, <1>5, <1>6 DEF Written
  <1> QED
    BY <1>7

\* The edit that goes on after its first field: its time is the same, and the other
\* field is still to be written.
LEMMA EditGoesOn ==
    ASSUME NEW e \in Edit, NEW row \in Row
    PROVE  LET next == [e EXCEPT !.done = [e.done EXCEPT !["lat"] = row]]
           IN  /\ next.src = e.src /\ next.now = e.now
               /\ next.done["lat"] = row /\ next.done["lon"] = e.done["lon"]
               /\ next # e \/ e.done["lat"] = row
  BY DEF Edit, Field

\* No row of a field has the time that an edit gives it.
LEMMA WrittenIsNew ==
    ASSUME IInv, TimesSound, NEW e \in edits, NEW f \in Field, NEW row \in Row,
           Written(e, f, row)
    PROVE  /\ \A i \in issued : i.src = e.src /\ i.field = f => i.row.ts # row.ts
           /\ row.ts < clock' /\ clock' <= MaxClock
  <1>1. \A i \in issued : i \in Issue /\ i.row.ts \in Nat /\ i.row.ts < clock
    BY DEF IInv, TypeOK, TimesSound, Issue, Row
  <1>2. e.now \in Nat /\ e.now < clock /\ clock \in Nat /\ clock <= MaxClock
    BY DEF IInv, TypeOK, TimesSound, Edit
  <1>3. CASE row.ts = clock /\ clock < MaxClock /\ clock' = clock + 1
    BY <1>1, <1>2, <1>3, BoundAssumption
  <1>4. CASE row.ts = e.now /\ clock' = clock
    BY <1>1, <1>2, <1>4 DEF TimesSound, Written
  <1> QED
    BY <1>3, <1>4 DEF Written

\* The first two parts of TimesSound: times are past, and tell the rows of a field apart.
LEMMA WrittenTimes ==
    ASSUME IInv, TimesSound, NEW e \in edits, NEW f \in Field, NEW row \in Row,
           Written(e, f, row)
    PROVE  /\ \A i \in issued' : i.row.ts < clock'
           /\ \A i, j \in issued' :
                i.src = j.src /\ i.field = j.field /\ i.row.ts = j.row.ts => i.row = j.row
  <1>1. PICK w : w = [src |-> e.src, field |-> f, row |-> row, to |-> e.to]
    OBVIOUS
  <1>2. w.src = e.src /\ w.field = f /\ w.row = row
    BY <1>1
  <1>3. issued' = issued \cup {w}
    BY <1>1 DEF Written
  <1>4. \A i \in issued : i.row.ts \in Nat /\ i.row.ts < clock
    BY DEF IInv, TypeOK, TimesSound, Issue, Row
  <1>5. clock \in Nat /\ e.now \in Nat /\ (clock' = clock \/ clock' = clock + 1)
    BY DEF IInv, TypeOK, Edit, Written
  <1> QED
    BY <1>2, <1>3, <1>4, <1>5, WrittenIsNew DEF TimesSound

LEMMA WriteOverrideTimes ==
    ASSUME IInv, TimesSound, NEW e \in edits, NEW f \in Field, NEW row \in Row,
           Written(e, f, row)
    PROVE  TimesSound'
  <1>1. PICK w : w = [src |-> e.src, field |-> f, row |-> row, to |-> e.to]
    OBVIOUS
  <1>2. w.src = e.src /\ w.field = f /\ w.row = row
    BY <1>1
  <1>3. issued' = issued \cup {w}
    BY <1>1 DEF Written
  <1>4. PICK next : next = [e EXCEPT !.done = [e.done EXCEPT !["lat"] = row]]
    OBVIOUS
  <1>5. /\ next.src = e.src /\ next.now = e.now
        /\ next.done["lat"] = row /\ next.done["lon"] = NoRow
    BY <1>4, EditGoesOn DEF IInv, TypeOK, TimesSound
  <1>6. edits' = edits \ {e} \/ (f = "lat" /\ edits' = (edits \ {e}) \cup {next})
    BY <1>4 DEF Written
  <1>7. /\ clock \in Nat /\ (clock' = clock \/ clock' = clock + 1)
        /\ \A x \in edits : x.now \in Nat /\ x.now < clock /\ x.done["lon"] = NoRow
    BY DEF IInv, TypeOK, Edit, Written, TimesSound
  <1>8. \A x \in edits' : x.now < clock' /\ x.done["lon"] = NoRow
    BY <1>5, <1>6, <1>7
  <1>9. \A x, y \in edits' : x.src = y.src /\ x.now = y.now => x = y
    BY <1>5, <1>6 DEF TimesSound
  <1>10. ASSUME NEW x \in edits', NEW i \in issued', i.src = x.src, i.row.ts = x.now
         PROVE  x.done[i.field] # NoRow
    <2>1. PICK y \in edits : /\ y.src = x.src /\ y.now = x.now
                             /\ y.done["lon"] = x.done["lon"] /\ (y = x \/ x = next)
                             /\ y = e <=> x = next
                             /\ x = next => f = "lat"
      BY <1>5, <1>6, <1>7, NoRowAssumption DEF TimesSound
    <2>2. CASE i \in issued
      <3>1. y.done[i.field] # NoRow
        BY <1>10, <2>1, <2>2 DEF TimesSound
      <3>2. i.field \in Field
        BY <2>2 DEF IInv, TypeOK, Issue
      <3> QED
        BY <1>5, <2>1, <3>1, <3>2, NoRowAssumption DEF Field
    <2>3. CASE i = w
      <3>1. row.ts = e.now
        BY <1>2, <1>7, <1>10, <2>1, <2>3 DEF Written
      <3>2. y = e
        BY <1>2, <1>10, <2>1, <2>3, <3>1 DEF TimesSound
      <3> QED
        BY <1>2, <1>5, <2>1, <2>3, <3>2, NoRowAssumption
    <2> QED
      BY <1>3, <2>2, <2>3
  <1> QED
    BY <1>8, <1>9, <1>10, WrittenIsNew, WrittenTimes DEF TimesSound

LEMMA PatchTimes ==
    ASSUME IInv, TimesSound, NEW n \in Node, NEW to \in Position, PatchProperty(n, to)
    PROVE  TimesSound'
  <1>1. PICK t \in Nat : t = clock
    BY DEF IInv, TypeOK
  <1>2. PICK e : e = [src |-> n, to |-> to, now |-> t, done |-> EmptyRows]
    OBVIOUS
  <1>3. e.now = t /\ e.done["lon"] = NoRow
    BY <1>2 DEF EmptyRows, Field
  <1>4. edits' = edits \cup {e} /\ clock' = t + 1 /\ t < MaxClock /\ UNCHANGED issued
    BY <1>1, <1>2 DEF PatchProperty
  <1>5. /\ \A x \in edits : x.now \in Nat /\ x.now < t
        /\ \A i \in issued : i.row.ts \in Nat /\ i.row.ts < t
    BY <1>1 DEF IInv, TypeOK, TimesSound, Edit, Issue, Row
  <1>6. t + 1 <= MaxClock
    BY <1>4, BoundAssumption
  <1> QED
    BY <1>3, <1>4, <1>5, <1>6 DEF TimesSound

\* Times stay sound: an edit reads a time of its own and writes each field once.
LEMMA NextTimes == IInv /\ TimesSound /\ [Next]_vars => TimesSound'
  <1> SUFFICES ASSUME IInv, TimesSound, [Next]_vars PROVE TimesSound'
    OBVIOUS
  <1>1. CASE UNCHANGED <<clock, issued>> /\ edits' \subseteq edits
    BY <1>1 DEF TimesSound
  <1>2. ASSUME NEW e \in edits, WriteOverride(e) PROVE TimesSound'
    BY <1>2, WriteOverrideWrites, WriteOverrideTimes
  <1>3. CASE \E n \in Editor, to \in Place : PatchProperty(n, to)
    BY <1>3, PatchTimes, EditorAssumption, PlaceAssumption
  <1>4. Next => \/ \E n \in Editor, to \in Place : PatchProperty(n, to)
                \/ \E e \in edits : WriteOverride(e)
                \/ UNCHANGED <<clock, issued>> /\ edits' \subseteq edits
    BY DEF Next, InboxReceive, FetchSnapshot, IngestReceive, WriteRow, ApplyFails, EditFails, Crash
  <1> QED
    BY <1>1, <1>2, <1>3, <1>4 DEF vars

LEMMA InitTimes == Init => TimesSound
  BY BoundAssumption DEF Init, TimesSound
-----------------------------------------------------------------------------
(* MetadataOverrides implements ProvenanceLog. *)

\* What the refinement maps the history and the tables to.
EntryOf(i) == [key |-> <<i.src, i.field>>, datum |-> i.row.value, time |-> i.row.ts]
LogOf == {EntryOf(i) : i \in issued}
HeldRow(row) ==
    IF row = NoRow THEN NoRow
    ELSE [datum |-> row.value, time |-> row.ts, confirmed |-> FALSE]
HeldBy == [n \in Node |-> [k \in Node \X Field |-> HeldRow(rows[n][k[1]][k[2]])]]

LEMMA EntryFields ==
    \A i : /\ EntryOf(i).key = <<i.src, i.field>>
           /\ EntryOf(i).datum = i.row.value
           /\ EntryOf(i).time = i.row.ts
  BY DEF EntryOf

\* With no override anywhere nothing is logged and nothing held.
LEMMA InitLog == Init => History!LogInit
  <1> SUFFICES ASSUME Init PROVE History!LogInit
    OBVIOUS
  <1>1. LogOf = {}
    BY DEF Init, LogOf
  <1>2. \A n \in Node, k \in Node \X Field : HeldRow(rows[n][k[1]][k[2]]) = NoRow
    BY DEF Init, HeldRow, EmptyTable, EmptyRows
  <1>3. HeldBy = [n \in Node |-> [k \in Node \X Field |-> NoRow]]
    BY <1>2 DEF HeldBy
  <1> QED
    BY <1>1, <1>3 DEF History!LogInit, LogOf, EntryOf, HeldBy, HeldRow

\* A step that writes one row.
Puts(n, s, f, row) == rows' = [rows EXCEPT ![n][s][f] = row]

\* A row written is a copy written.
LEMMA RowHeld ==
    ASSUME rows \in [Node -> Table], NEW n \in Node, NEW s \in Node, NEW f \in Field, NEW row,
           Puts(n, s, f, row)
    PROVE  HeldBy' = [HeldBy EXCEPT ![n][<<s, f>>] = HeldRow(row)]
  <1>1. ASSUME NEW x \in Node, NEW k \in Node \X Field
        PROVE  rows'[x][k[1]][k[2]] = IF x = n /\ k = <<s, f>> THEN row ELSE rows[x][k[1]][k[2]]
    BY DEF Puts, Table
  <1>2. HeldBy' = [x \in Node |-> [k \in Node \X Field |->
                     IF x = n /\ k = <<s, f>> THEN HeldRow(row)
                     ELSE HeldRow(rows[x][k[1]][k[2]])]]
    BY <1>1 DEF HeldBy
  <1> QED
    BY <1>2 DEF HeldBy

\* A field that an edit writes is an entry published at a time of its own.
LEMMA WriteOverridePublishes ==
    ASSUME IInv, TimesSound, NEW e \in edits, WriteOverride(e)
    PROVE  History!LogNext
  <1>1. PICK f \in Field, row \in Row : Written(e, f, row)
    BY WriteOverrideWrites
  <1>2. PICK n \in Node : n = e.src
    BY DEF IInv, TypeOK, Edit
  <1>3. PICK t \in 0..MaxClock : t = row.ts
    <2>1. row.ts \in Nat
      BY DEF Row
    <2>2. clock \in Nat /\ (clock' = clock \/ clock' = clock + 1)
      BY <1>1 DEF IInv, TypeOK, Written
    <2>3. row.ts < clock' /\ clock' <= MaxClock
      BY <1>1, WrittenIsNew
    <2> QED
      BY <2>1, <2>2, <2>3, BoundAssumption
  <1>4. PICK v \in Coord \cup {Cleared} : v = row.value
    BY DEF Row
  <1>5. PICK i : i = [src |-> n, field |-> f, row |-> row, to |-> e.to]
    OBVIOUS
  <1>6. PICK x : x = EntryOf(i)
    OBVIOUS
  <1>7. x = [key |-> <<n, f>>, datum |-> v, time |-> t]
    BY <1>3, <1>4, <1>5, <1>6 DEF EntryOf
  <1>8. \A y \in LogOf : y.key = <<n, f>> => y.time # t
    <2> SUFFICES ASSUME NEW j \in issued, EntryOf(j).key = <<n, f>> PROVE EntryOf(j).time # t
      BY DEF LogOf
    <2>1. j.src = n /\ j.field = f
      BY EntryFields
    <2> QED
      BY <1>1, <1>2, <1>3, <2>1, EntryFields, WrittenIsNew
  <1>9. LogOf' = LogOf \cup {x}
    <2>1. issued' = issued \cup {i}
      BY <1>1, <1>2, <1>5 DEF Written
    <2> QED
      BY <1>6, <2>1 DEF LogOf
  <1>10. LogOf' # LogOf
    BY <1>7, <1>8, <1>9
  <1>11. HeldBy' = [HeldBy EXCEPT ![n][<<n, f>>] = History!Copy(x, FALSE)]
    <2>1. HeldBy' = [HeldBy EXCEPT ![n][<<n, f>>] = HeldRow(row)]
      <3>1. Puts(n, n, f, row) /\ rows \in [Node -> Table]
        BY <1>1, <1>2 DEF Written, Puts, IInv, TypeOK
      <3> QED
        BY <3>1, RowHeld
    <2>2. HeldRow(row) = History!Copy(x, FALSE)
      BY <1>3, <1>4, <1>7, NoRowAssumption DEF HeldRow, History!Copy
    <2> QED
      BY <2>1, <2>2
  <1>12. x.key = <<n, f>> /\ [k \in Node \X Field |-> k[1]][x.key] = n
    BY <1>7
  <1>13. History!Publish(x)
    BY <1>7, <1>8, <1>9, <1>11, <1>12 DEF History!Publish, LogOf, EntryOf, HeldBy, HeldRow
  <1>14. History!Publish(History!Entry(<<n, f>>, v, t)) /\ <<n, f>> \in Node \X Field
    BY <1>7, <1>13 DEF History!Entry
  <1> QED
    BY <1>10, <1>14 DEF History!LogNext, LogOf, EntryOf

\* The upsert of a merged row takes over an entry of the log of its source and field.
LEMMA WriteRowAdopts ==
    ASSUME IInv, NEW n \in Node, NEW s \in Node, NEW h \in Handler, NEW f \in Field,
           WriteRow(n, h, s, f)
    PROVE  History!LogNext
  <1>1. PICK row \in Row : row = todo[n][h][s][f] /\ Genuine(s, f, row)
    BY DEF WriteRow, IInv, TypeOK, Table, SoundTable, SoundRows
  <1>2. PICK i \in issued : i.src = s /\ i.field = f /\ i.row = row
    BY <1>1 DEF Genuine
  <1>3. PICK x \in LogOf : x.key = <<s, f>> /\ x.datum = row.value /\ x.time = row.ts
    BY <1>2, EntryFields DEF LogOf
  <1>4. Puts(n, s, f, row) /\ UNCHANGED issued /\ rows \in [Node -> Table]
    BY <1>1 DEF WriteRow, Stored, Puts, IInv, TypeOK
  <1>5. HeldBy' = [HeldBy EXCEPT ![n][x.key] = History!Copy(x, FALSE)]
    <2>1. HeldBy' = [HeldBy EXCEPT ![n][<<s, f>>] = HeldRow(row)]
      BY <1>4, RowHeld
    <2>2. HeldRow(row) = History!Copy(x, FALSE)
      BY <1>3, NoRowAssumption DEF HeldRow, History!Copy
    <2> QED
      BY <1>3, <2>1, <2>2
  <1>6. LogOf' = LogOf
    BY <1>4 DEF LogOf
  <1>7. History!Adopt(n, x, FALSE)
    BY <1>5, <1>6 DEF History!Adopt, LogOf, EntryOf, HeldBy, HeldRow
  <1> QED
    BY <1>3, <1>7 DEF History!LogNext, LogOf, EntryOf

\* Every step publishes an entry, takes one over or leaves logs and copies alone.
LEMMA NextLog ==
    ASSUME IInv, TimesSound, [Next]_vars
    PROVE  History!LogNext \/ UNCHANGED <<LogOf, HeldBy>>
  <1>1. CASE UNCHANGED <<rows, issued>>
    BY <1>1 DEF LogOf, HeldBy
  <1>2. Next => \/ \E e \in edits : WriteOverride(e)
                \/ \E n, s \in Node, h \in Handler, f \in Field : WriteRow(n, h, s, f)
                \/ UNCHANGED <<rows, issued>>
    BY DEF Next, PatchProperty, InboxReceive, FetchSnapshot, IngestReceive, ApplyFails,
       EditFails, Crash
  <1> QED
    BY <1>1, <1>2, WriteOverridePublishes, WriteRowAdopts DEF vars

\* Nodes that edit, push, relay, merge, fail and restart implement logs and copies of
\* their entries, for any number of nodes, positions and regions.
THEOREM OverridesImplementLog == Spec => ImplementsLog
  <1>1. IInv /\ TimesSound /\ [Next]_vars => [History!LogNext]_(History!logVars)
    BY NextLog DEF History!logVars, LogOf, EntryOf, HeldBy, HeldRow
  <1>2. Init => History!LogInit
    BY InitLog
  <1> QED
    BY <1>1, <1>2, SpecIInv, InitTimes, NextTimes, PTL
    DEF Spec, ImplementsLog, History!LogSpec
-----------------------------------------------------------------------------
(* OverrideRaces: what a stored override gives way to. *)

\* Two rows of a source and field with one time are one row.
LEMMA OneRowPerTime ==
    ASSUME TimesSound, NEW s, NEW f, NEW new, NEW old,
           Genuine(s, f, new), Genuine(s, f, old), new.ts = old.ts
    PROVE  new = old
  BY DEF TimesSound, Genuine

\* What a merge makes of a stored row is ahead of it: the incoming row is newer, or
\* it is the stored row itself.
LEMMA MergeAdvances ==
    ASSUME IInv, TimesSound, NEW n \in Node, NEW d \in Table, SoundTable(d),
           NEW s \in Node, NEW f \in Field, rows[n][s][f] # NoRow,
           MergeMetadataOverrides(rows[n], d)[s][f] # NoRow
    PROVE  Advances(MergeMetadataOverrides(rows[n], d)[s][f], rows[n][s][f])
  <1>1. PICK old \in Row : old = rows[n][s][f] /\ Genuine(s, f, old)
    BY DEF IInv, TypeOK, Table, SoundTable, SoundRows
  <1>2. PICK new \in Row : new = d[s][f] /\ Genuine(s, f, new)
    BY DEF MergeMetadataOverrides, Table, SoundTable, SoundRows
  <1>3. \/ MergeMetadataOverrides(rows[n], d)[s][f] = old
        \/ new.ts >= old.ts /\ MergeMetadataOverrides(rows[n], d)[s][f] = new
    BY <1>1, <1>2 DEF MergeMetadataOverrides, Supersedes
  <1>4. new.ts \in Nat /\ old.ts \in Nat
    BY DEF Row
  <1> QED
    BY <1>1, <1>2, <1>3, <1>4, OneRowPerTime DEF Advances

\* Rows are taken up where none wait, from a delta that is sound.
LEMMA StartApplyRows ==
    ASSUME IInv, NEW x \in Node, NEW g \in Handler, NEW d \in Table, SoundTable(d),
           StartApply(x, g, d), UNCHANGED rows,
           NEW n \in Node, NEW s \in Node, NEW h \in Handler, NEW f \in Field
    PROVE  \/ todo'[n][h][s][f] = todo[n][h][s][f]
           \/ /\ todo[n][h][s][f] = NoRow
              /\ UNCHANGED rows
              /\ \E e \in Table : /\ SoundTable(e)
                                  /\ todo'[n][h][s][f] = MergeMetadataOverrides(rows[n], e)[s][f]
  <1>1. PICK merged : merged = MergeMetadataOverrides(rows[x], d)
    OBVIOUS
  <1>2. /\ todo' = [todo EXCEPT ![x][g] = merged] \/ todo' = todo
        /\ todo \in [Node -> [Handler -> Table]]
    BY <1>1 DEF StartApply, IInv, TypeOK
  <1>3. CASE n = x /\ h = g /\ todo' # todo
    <2>1. todo'[n][h][s][f] = merged[s][f]
      BY <1>2, <1>3
    <2>2. todo[n][h][s][f] = NoRow
      BY <1>3 DEF StartApply, Idle, EmptyTable, EmptyRows
    <2> QED
      BY <1>1, <1>3, <2>1, <2>2
  <1>4. CASE ~(n = x /\ h = g /\ todo' # todo)
    BY <1>2, <1>4
  <1> QED
    BY <1>3, <1>4

\* A row that waits to be written has waited before, or comes from a merge of sound
\* rows with the rows as they are stored.
LEMMA WaitingRow ==
    ASSUME IInv, [Next]_vars,
           NEW n \in Node, NEW s \in Node, NEW h \in Handler, NEW f \in Field,
           todo'[n][h][s][f] # NoRow
    PROVE  \/ todo'[n][h][s][f] = todo[n][h][s][f]
           \/ /\ todo[n][h][s][f] = NoRow
              /\ UNCHANGED rows
              /\ \E d \in Table : /\ SoundTable(d)
                                  /\ todo'[n][h][s][f] = MergeMetadataOverrides(rows[n], d)[s][f]
  <1> DEFINE Goal ==
        \/ todo'[n][h][s][f] = todo[n][h][s][f]
        \/ /\ todo[n][h][s][f] = NoRow
           /\ UNCHANGED rows
           /\ \E d \in Table : /\ SoundTable(d)
                               /\ todo'[n][h][s][f] = MergeMetadataOverrides(rows[n], d)[s][f]
  <1>1. CASE UNCHANGED todo
    BY <1>1
  <1>2. ASSUME NEW x \in Node, NEW y \in Node, NEW g \in Handler, NEW k \in Field,
               todo' = [todo EXCEPT ![x][g][y][k] = NoRow]
        PROVE  Goal
    BY <1>2 DEF IInv, TypeOK, Table
  <1>3. ASSUME NEW x \in Node, NEW g \in Handler, todo' = [todo EXCEPT ![x][g] = EmptyTable]
        PROVE  Goal
    BY <1>3 DEF IInv, TypeOK, EmptyTable, EmptyRows
  <1>4. ASSUME NEW x \in Node, todo' = [todo EXCEPT ![x] = [g \in Handler |-> EmptyTable]]
        PROVE  Goal
    BY <1>4 DEF IInv, TypeOK, EmptyTable, EmptyRows
  <1>5. ASSUME NEW m \in network, InboxReceive(m)
        PROVE  Goal
    <2>1. m.to \in Node /\ "inbox" \in Handler /\ m.table \in Table /\ SoundTable(m.table)
      BY DEF IInv, TypeOK, Message, Handler
    <2> QED
      BY <1>5, <2>1, StartApplyRows DEF InboxReceive
  <1>6. ASSUME NEW x \in Node, IngestReceive(x)
        PROVE  Goal
    <2>1. "ingest" \in Handler /\ fetched[x] \in Table /\ SoundTable(fetched[x])
      BY <1>6 DEF IInv, TypeOK, Handler, IngestReceive
    <2> QED
      BY <1>6, <2>1, StartApplyRows DEF IngestReceive
  <1>7. CASE \E x, y \in Node, g \in Handler, k \in Field : WriteRow(x, g, y, k)
    <2>1. PICK x \in Node, y \in Node, g \in Handler, k \in Field : WriteRow(x, g, y, k)
      BY <1>7
    <2>2. todo' = [todo EXCEPT ![x][g][y][k] = NoRow]
      BY <2>1 DEF WriteRow
    <2> QED
      BY <1>2, <2>2
  <1>8. CASE \/ \E x \in Editor, to \in Place : PatchProperty(x, to)
             \/ \E e \in edits : WriteOverride(e) \/ EditFails(e)
             \/ \E x, p \in Node : FetchSnapshot(x, p)
    BY <1>1, <1>8 DEF PatchProperty, WriteOverride, EditFails, FetchSnapshot
  <1>9. CASE \E x \in Node, g \in Handler : ApplyFails(x, g)
    BY <1>3, <1>9 DEF ApplyFails
  <1>10. CASE \E x \in Node : Crash(x)
    BY <1>4, <1>10 DEF Crash
  <1> HIDE DEF Goal
  <1> QED
    BY <1>1, <1>5, <1>6, <1>7, <1>8, <1>9, <1>10 DEF Next, vars, Goal

\* An override stays, is written by an edit on this node, or is the write of a row
\* that waited.
LEMMA StoredRow ==
    ASSUME IInv, TimesSound, [Next]_vars, NEW n \in Node, NEW s \in Node, NEW f \in Field
    PROVE  \/ rows'[n][s][f] = rows[n][s][f]
           \/ \E e \in edits, row \in Row :
                e.src = n /\ s = n /\ Written(e, f, row) /\ rows'[n][s][f] = row
           \/ \E h \in Handler :
                /\ todo[n][h][s][f] # NoRow /\ todo'[n][h][s][f] = NoRow
                /\ rows'[n][s][f] = todo[n][h][s][f]
  <1> DEFINE Goal ==
        \/ rows'[n][s][f] = rows[n][s][f]
        \/ \E e \in edits, row \in Row :
             e.src = n /\ s = n /\ Written(e, f, row) /\ rows'[n][s][f] = row
        \/ \E h \in Handler :
             /\ todo[n][h][s][f] # NoRow /\ todo'[n][h][s][f] = NoRow
             /\ rows'[n][s][f] = todo[n][h][s][f]
  <1>1. CASE UNCHANGED rows
    BY <1>1
  <1>2. ASSUME NEW e \in edits, WriteOverride(e)
        PROVE  Goal
    <2>1. PICK g \in Field, row \in Row : Written(e, g, row)
      BY <1>2, WriteOverrideWrites
    <2>2. PICK x \in Node : x = e.src
      BY DEF IInv, TypeOK, Edit
    <2>3. rows' = [rows EXCEPT ![x][x][g] = row] /\ rows \in [Node -> Table]
      BY <2>1, <2>2 DEF Written, IInv, TypeOK
    <2>4. CASE n = x /\ s = x /\ f = g
      BY <2>1, <2>2, <2>3, <2>4 DEF Table
    <2>5. CASE ~(n = x /\ s = x /\ f = g)
      BY <2>3, <2>5 DEF Table
    <2> QED
      BY <2>4, <2>5
  <1>3. ASSUME NEW x \in Node, NEW y \in Node, NEW h \in Handler, NEW g \in Field,
               WriteRow(x, h, y, g)
        PROVE  Goal
    <2>1. CASE x = n /\ y = s /\ g = f
      BY <1>3, <2>1 DEF WriteRow, Stored, IInv, TypeOK, Table
    <2>2. CASE ~(x = n /\ y = s /\ g = f)
      BY <1>3, <2>2 DEF WriteRow, IInv, TypeOK, Table
    <2> QED
      BY <2>1, <2>2
  <1>4. Next => \/ UNCHANGED rows
                \/ \E e \in edits : WriteOverride(e)
                \/ \E x, y \in Node, h \in Handler, g \in Field : WriteRow(x, h, y, g)
    BY DEF Next, PatchProperty, InboxReceive, FetchSnapshot, IngestReceive, ApplyFails,
       EditFails, Crash
  <1> QED
    BY <1>1, <1>2, <1>3, <1>4 DEF vars

\* An edit in progress was in progress before with at least the same fields to write,
\* or reads its time now.
LEMMA OpenEdit ==
    ASSUME IInv, TimesSound, [Next]_vars, NEW e \in edits'
    PROVE  \/ \E d \in edits : /\ d.src = e.src /\ d.now = e.now
                               /\ \A f \in Field : e.done[f] = NoRow => d.done[f] = NoRow
           \/ e.now = clock /\ UNCHANGED <<rows, issued>>
  <1>1. CASE edits' \subseteq edits
    BY <1>1
  <1>2. ASSUME NEW n \in Editor, NEW to \in Place, PatchProperty(n, to)
        PROVE  \/ e \in edits
               \/ e.now = clock /\ UNCHANGED <<rows, issued>>
    BY <1>2 DEF PatchProperty
  <1>3. ASSUME NEW x \in edits, WriteOverride(x)
        PROVE  \/ e \in edits
               \/ /\ x.src = e.src /\ x.now = e.now
                  /\ \A f \in Field : e.done[f] = NoRow => x.done[f] = NoRow
    <2>1. PICK g \in Field, row \in Row : Written(x, g, row)
      BY <1>3, WriteOverrideWrites
    <2>2. PICK next : next = [x EXCEPT !.done = [x.done EXCEPT !["lat"] = row]]
      OBVIOUS
    <2>3. /\ next.src = x.src /\ next.now = x.now
          /\ next.done["lat"] = row /\ next.done["lon"] = x.done["lon"]
      BY <2>2, EditGoesOn DEF IInv, TypeOK
    <2>4. e \in edits \/ e = next
      BY <2>1, <2>2 DEF Written
    <2> QED
      BY <2>3, <2>4, NoRowAssumption DEF Field
  <1>4. Next => \/ edits' \subseteq edits
                \/ \E n \in Editor, to \in Place : PatchProperty(n, to)
                \/ \E x \in edits : WriteOverride(x)
    BY DEF Next, InboxReceive, FetchSnapshot, IngestReceive, WriteRow, ApplyFails, EditFails, Crash
  <1> QED
    BY <1>1, <1>2, <1>3, <1>4 DEF vars

\* The history starts empty, with nothing to write.
LEMMA InitRaceIInv == RaceInit => RaceIInv
  <1> SUFFICES ASSUME RaceInit PROVE RaceIInv
    OBVIOUS
  <1>1. IInv /\ TimesSound
    BY InitIInv, InitTimes DEF RaceInit
  <1>2. overtaken \in [Node -> [Handler -> SUBSET (Node \X Field)]]
    BY DEF RaceInit
  <1>3. Ahead
    BY DEF RaceInit, Init, Ahead, EmptyTable, EmptyRows
  <1>4. EditsAhead
    BY DEF RaceInit, Init, EditsAhead
  <1> QED
    BY <1>1, <1>2, <1>3, <1>4 DEF RaceIInv

\* A row that is read, merged and not overtaken stays ahead of what is stored.
LEMMA NextAhead ==
    ASSUME RaceIInv, RaceNext
    PROVE  Ahead'
  <1> SUFFICES ASSUME NEW n \in Node, NEW s \in Node, NEW f \in Field, NEW h \in Handler,
                      todo'[n][h][s][f] # NoRow, rows'[n][s][f] # NoRow,
                      <<s, f>> \notin overtaken'[n][h]
               PROVE  Advances(todo'[n][h][s][f], rows'[n][s][f])
    BY DEF Ahead, Advances
  <1>1. IInv /\ TimesSound /\ [Next]_vars
    BY DEF RaceIInv, RaceNext
  <1>2. PICK k \in Node \X Field : k = <<s, f>> /\ k[1] = s /\ k[2] = f
    OBVIOUS
  <1>3. k \notin Overtaken(n, h)
    BY <1>2 DEF RaceNext
  <1>4. CASE todo[n][h][s][f] = NoRow
    <2>1. UNCHANGED rows
      BY <1>1, <1>4, WaitingRow
    <2>2. PICK d \in Table : /\ SoundTable(d)
                             /\ todo'[n][h][s][f] = MergeMetadataOverrides(rows[n], d)[s][f]
      BY <1>1, <1>4, WaitingRow
    <2> QED
      BY <1>1, <2>1, <2>2, MergeAdvances
  <1>5. CASE todo[n][h][s][f] # NoRow
    <2>1. todo'[n][h][s][f] = todo[n][h][s][f]
      BY <1>1, <1>5, WaitingRow
    <2> SUFFICES ASSUME ~Advances(todo'[n][h][s][f], rows'[n][s][f]) PROVE FALSE
      OBVIOUS
    <2>2. k \notin overtaken[n][h] /\ rows'[n][s][f] = rows[n][s][f]
      BY <1>2, <1>3, <1>5 DEF Overtaken, Changed
    <2> QED
      BY <1>2, <1>5, <2>1, <2>2 DEF RaceIInv, Ahead
  <1> QED
    BY <1>4, <1>5

\* An edit's time stays ahead of the rows it has still to write, unless it is outdated.
LEMMA NextEditsAhead ==
    ASSUME RaceIInv, RaceNext
    PROVE  EditsAhead'
  <1> SUFFICES ASSUME NEW e \in edits', NEW f \in Field,
                      e.done[f] = NoRow, rows'[e.src][e.src][f] # NoRow,
                      <<e.src, e.now, f>> \notin outdated'
               PROVE  rows'[e.src][e.src][f].ts < e.now
    BY DEF EditsAhead
  <1>1. IInv /\ TimesSound /\ [Next]_vars /\ IInv'
    BY NextIInv DEF RaceIInv, RaceNext
  <1>2. PICK n \in Node : n = e.src /\ e.now \in Nat
    BY <1>1 DEF IInv, TypeOK, Edit
  <1>3. rows'[n][n][f].ts \in Nat
    BY <1>1, <1>2 DEF IInv, TypeOK, Table, Row
  <1>4. f \notin Outdated(e)
    BY DEF RaceNext
  <1>5. CASE e.now > rows'[n][n][f].ts
    BY <1>2, <1>3, <1>5
  <1>6. CASE <<n, e.now, f>> \notin outdated /\ rows'[n][n][f] = rows[n][n][f]
    <2>1. CASE \E d \in edits : /\ d.src = e.src /\ d.now = e.now
                                /\ \A g \in Field : e.done[g] = NoRow => d.done[g] = NoRow
      BY <1>2, <1>6, <2>1 DEF RaceIInv, EditsAhead
    <2>2. CASE e.now = clock /\ UNCHANGED <<rows, issued>>
      <3>1. PICK i \in issued : i.row = rows[n][n][f]
        BY <1>1, <1>2, <1>6 DEF IInv, SoundTable, SoundRows, Genuine
      <3>2. i.row.ts < clock
        BY <1>1 DEF TimesSound
      <3> QED
        BY <1>2, <1>6, <2>2, <3>1, <3>2
    <2> QED
      BY <1>1, <2>1, <2>2, OpenEdit
  <1> QED
    BY <1>2, <1>3, <1>4, <1>5, <1>6 DEF Outdated, Changed

LEMMA NextRaceIInv == RaceIInv /\ [RaceNext]_raceVars => RaceIInv'
  <1> SUFFICES ASSUME RaceIInv, [RaceNext]_raceVars PROVE RaceIInv'
    OBVIOUS
  <1>1. IInv' /\ TimesSound'
    BY NextIInv, NextTimes DEF RaceIInv, RaceNext, raceVars
  <1>2. CASE UNCHANGED raceVars
    BY <1>1, <1>2 DEF RaceIInv, raceVars, vars, Ahead, EditsAhead, Advances
  <1>3. CASE RaceNext
    <2>1. overtaken' \in [Node -> [Handler -> SUBSET (Node \X Field)]]
      BY <1>3 DEF RaceNext, Overtaken
    <2> QED
      BY <1>1, <1>3, <2>1, NextAhead, NextEditsAhead DEF RaceIInv
  <1> QED
    BY <1>2, <1>3

\* Every reachable state satisfies the invariant of the races.
THEOREM RaceSpecIInv == RaceSpec => []RaceIInv
  BY InitRaceIInv, NextRaceIInv, PTL DEF RaceSpec

\* An edit that writes its row has that field no more to write.
LEMMA WrittenEdit ==
    ASSUME IInv, TimesSound, NEW e \in edits, NEW f \in Field, NEW row \in Row,
           Written(e, f, row)
    PROVE  e \notin edits'
  <1>1. PICK next : next = [e EXCEPT !.done = [e.done EXCEPT !["lat"] = row]]
    OBVIOUS
  <1>2. edits' = edits \ {e} \/ (f = "lat" /\ edits' = (edits \ {e}) \cup {next})
    BY <1>1 DEF Written
  <1>3. f = "lat" => next.done["lat"] # e.done["lat"]
    BY <1>1, EditGoesOn, NoRowAssumption DEF IInv, TypeOK, Written
  <1> QED
    BY <1>2, <1>3

\* An override gives way only to a newer one, unless another handler or edit wrote the
\* row after it was read, for any number of nodes, handlers and edits under way.
THEOREM OnlyRaces == RaceSpec => OnlyRacesLoseOverrides
  <1>1. ASSUME RaceIInv, RaceNext, NEW n \in Node, NEW s \in Node, NEW f \in Field,
               rows[n][s][f] # NoRow
        PROVE  Advances(rows'[n][s][f], rows[n][s][f]) \/ LostToRace(n, s, f)
    <2>1. IInv /\ TimesSound /\ [Next]_vars
      BY <1>1 DEF RaceIInv, RaceNext
    <2>2. CASE rows'[n][s][f] = rows[n][s][f]
      BY <2>2 DEF Advances
    <2>3. ASSUME NEW e \in edits, NEW row \in Row, e.src = n, s = n, Written(e, f, row),
                 rows'[n][s][f] = row
          PROVE  Advances(rows'[n][s][f], rows[n][s][f]) \/ LostToRace(n, s, f)
      <3>1. f = NextField(e) /\ e.done[f] = NoRow /\ row.ts = e.now
        BY <1>1, <2>3 DEF Written
      <3>2. CASE <<n, e.now, f>> \in outdated
        BY <2>1, <2>3, <3>1, <3>2, WrittenEdit DEF LostToRace
      <3>3. CASE <<n, e.now, f>> \notin outdated
        <4>1. rows[n][s][f].ts < e.now
          BY <1>1, <2>3, <3>1, <3>3 DEF RaceIInv, EditsAhead
        <4>2. rows[n][s][f].ts \in Nat /\ e.now \in Nat
          BY <1>1, <2>1 DEF IInv, TypeOK, Table, Row, Edit
        <4> QED
          BY <2>3, <3>1, <4>1, <4>2 DEF Advances
      <3> QED
        BY <3>2, <3>3
    <2>4. ASSUME NEW h \in Handler, todo[n][h][s][f] # NoRow, todo'[n][h][s][f] = NoRow,
                 rows'[n][s][f] = todo[n][h][s][f]
          PROVE  Advances(rows'[n][s][f], rows[n][s][f]) \/ LostToRace(n, s, f)
      <3>1. CASE <<s, f>> \in overtaken[n][h]
        BY <2>4, <3>1 DEF LostToRace
      <3>2. CASE <<s, f>> \notin overtaken[n][h]
        BY <1>1, <2>4, <3>2 DEF RaceIInv, Ahead
      <3> QED
        BY <3>1, <3>2
    <2> QED
      BY <2>1, <2>2, <2>3, <2>4, StoredRow
  <1>2. RaceIInv /\ [RaceNext]_raceVars =>
          [\A n, s \in Node, f \in Field :
             rows[n][s][f] # NoRow =>
                 Advances(rows'[n][s][f], rows[n][s][f]) \/ LostToRace(n, s, f)]_raceVars
    BY <1>1
  <1> QED
    BY <1>2, RaceSpecIInv, PTL DEF RaceSpec, OnlyRacesLoseOverrides
=============================================================================
