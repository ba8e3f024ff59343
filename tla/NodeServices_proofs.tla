------------------------- MODULE NodeServices_proofs -------------------------
(***************************************************************************)
(* Theorems about CommunitySignals, for any number of travelers, calls and *)
(* signals; PropertyIds, for any number of peers, places and rows; and     *)
(* NodeData, for any places, regions and facts.  The last ones are about   *)
(* NodeServices, where these and the components of IngestJob and           *)
(* FactWriters run side by side.                                           *)
(***************************************************************************)
EXTENDS NodeServices, IngestJob_proofs, FactWriters_proofs

-----------------------------------------------------------------------------
(* CommunitySignals. *)

\* Ids are those made so far, and the day's signals are in the table.
RowsSound ==
    /\ made \in 0..MaxSignals
    /\ DOMAIN signal \subseteq 1..made
    /\ \A id \in DOMAIN signal : signal[id] \in Signal
    /\ recent \subseteq DOMAIN signal

\* The row a call r has found, if it is still there, is of the call's reporter.
FoundIsOfReporter(r) ==
    r # NoReport =>
        /\ r.found \in (1..made) \cup {NoReport}
        /\ r.found \in DOMAIN signal => signal[r.found].by = r.report.by

CallsSound ==
    /\ report \in [SignalCall -> Reported \cup {NoReport}]
    /\ \A c \in SignalCall : FoundIsOfReporter(report[c])

\* The calls that passed the limit of traveler r and have not written yet.
Passed(r) == {c \in SignalCall : report[c] # NoReport /\ report[c].at # "count"
                                  /\ report[c].report.by = r}

\* A call takes one place of the day when it passes the limit, and keeps it.
PlacesSound ==
    \A r \in Reporter :
        Cardinality(RecentOf(r)) + Cardinality(Passed(r)) + 1
            <= DailyLimit + Cardinality(SignalCall)

SignalIInv == RowsSound /\ CallsSound /\ SignalIsOfItsReporter /\ PlacesSound

\* The sets that are counted are finite.
LEMMA RecentFinite ==
    ASSUME RowsSound, NEW r
    PROVE  IsFiniteSet(RecentOf(r)) /\ Cardinality(RecentOf(r)) \in Nat
  <1>1. IsFiniteSet(1..made)
    BY FS_Interval DEF RowsSound
  <1>2. RecentOf(r) \in SUBSET (1..made)
    BY DEF RowsSound, RecentOf
  <1> QED
    BY <1>1, <1>2, FS_Subset, FS_CardinalityType

LEMMA PassedFinite ==
    ASSUME NEW r
    PROVE  /\ IsFiniteSet(Passed(r)) /\ Cardinality(Passed(r)) \in Nat
           /\ Cardinality(Passed(r)) <= Cardinality(SignalCall)
           /\ Cardinality(SignalCall) \in Nat /\ Cardinality(SignalCall) > 0
  <1>1. Passed(r) \in SUBSET SignalCall
    BY DEF Passed
  <1>2. Cardinality(SignalCall) \in Nat /\ Cardinality(SignalCall) # 0
    BY SignalAssumption, FS_CardinalityType, FS_EmptySet
  <1> QED
    BY <1>1, <1>2, SignalAssumption, FS_Subset, FS_CardinalityType

\* Where no traveler gains a signal of the day or a call past the limit.
LEMMA PlacesKept ==
    ASSUME SignalIInv, RowsSound',
           \A r \in Reporter : RecentOf(r)' \subseteq RecentOf(r) /\ Passed(r)' \subseteq Passed(r)
    PROVE  PlacesSound'
  <1> SUFFICES ASSUME NEW r \in Reporter
               PROVE  Cardinality(RecentOf(r)') + Cardinality(Passed(r)') + 1
                          <= DailyLimit + Cardinality(SignalCall)
    BY DEF PlacesSound
  <1>1. Cardinality(RecentOf(r)') <= Cardinality(RecentOf(r)) /\ Cardinality(RecentOf(r)') \in Nat
    BY RecentFinite, FS_Subset, FS_CardinalityType DEF SignalIInv
  <1>2. Cardinality(Passed(r)') <= Cardinality(Passed(r)) /\ Cardinality(Passed(r)') \in Nat
    BY PassedFinite, FS_Subset, FS_CardinalityType
  <1>3. /\ Cardinality(RecentOf(r)) \in Nat /\ Cardinality(Passed(r)) \in Nat
        /\ Cardinality(SignalCall) \in Nat /\ DailyLimit \in Nat
    BY RecentFinite, PassedFinite, SignalAssumption DEF SignalIInv
  <1>4. Cardinality(RecentOf(r)) + Cardinality(Passed(r)) + 1 <= DailyLimit + Cardinality(SignalCall)
    BY DEF SignalIInv, PlacesSound
  <1> QED
    BY <1>1, <1>2, <1>3, <1>4

LEMMA InitSignalIInv == SignalInit => SignalIInv
  <1> SUFFICES ASSUME SignalInit PROVE SignalIInv
    OBVIOUS
  <1>1. DOMAIN signal = {}
    BY DEF SignalInit
  <1>2. RowsSound /\ CallsSound /\ SignalIsOfItsReporter
    BY <1>1, SignalAssumption
       DEF SignalInit, RowsSound, CallsSound, FoundIsOfReporter, SignalIsOfItsReporter
  <1>3. ASSUME NEW r PROVE RecentOf(r) = {} /\ Passed(r) = {}
    BY DEF SignalInit, RecentOf, Passed
  <1>4. PlacesSound
    BY <1>3, FS_EmptySet, PassedFinite, SignalAssumption DEF PlacesSound
  <1> QED
    BY <1>2, <1>4 DEF SignalIInv

\* A report comes in.
LEMMA PostIInv ==
    ASSUME SignalIInv, NEW c \in SignalCall, NEW r \in Report, PostSignal(c, r)
    PROVE  SignalIInv'
  <1> DEFINE new == [at |-> "count", report |-> r, found |-> NoReport]
  <1>1. new \in Reported /\ new.at = "count" /\ new.found = NoReport
    BY DEF Reported
  <1> HIDE DEF new
  <1>2. report' = [report EXCEPT ![c] = new]
    BY DEF PostSignal, new
  <1>3. RowsSound' /\ SignalIsOfItsReporter'
    BY DEF SignalIInv, PostSignal, RowsSound, SignalIsOfItsReporter
  <1>4. \A d \in SignalCall : report'[d] = IF d = c THEN new ELSE report[d]
    BY <1>2 DEF SignalIInv, CallsSound
  <1>5. report' \in [SignalCall -> Reported \cup {NoReport}]
    BY <1>1, <1>2 DEF SignalIInv, CallsSound
  <1>6. FoundIsOfReporter(new)'
    BY <1>1, SignalAssumption DEF FoundIsOfReporter, SignalIInv, RowsSound, PostSignal
  <1>7. CallsSound'
    BY <1>4, <1>5, <1>6 DEF SignalIInv, CallsSound, FoundIsOfReporter, PostSignal
  <1>8. \A x \in Reporter : RecentOf(x)' \subseteq RecentOf(x) /\ Passed(x)' \subseteq Passed(x)
    BY <1>1, <1>4 DEF RecentOf, Passed, PostSignal
  <1> QED
    BY <1>3, <1>7, <1>8, PlacesKept DEF SignalIInv

\* The count of a traveler's signals of the day: below the limit, the call goes on.
LEMMA CheckLimitIInv ==
    ASSUME SignalIInv, NEW c \in SignalCall, CheckLimit(c)
    PROVE  SignalIInv'
  <1>1. PICK old \in Reported : old = report[c] /\ old.at = "count"
    BY DEF SignalIInv, CallsSound, CheckLimit
  <1>2. RowsSound' /\ SignalIsOfItsReporter'
    BY DEF SignalIInv, CheckLimit, RowsSound, SignalIsOfItsReporter
  <1>3. \A x \in Reporter : RecentOf(x)' = RecentOf(x)
    BY DEF RecentOf, CheckLimit
  <1>4. CASE LimitReached(old.report.by)
    <2>1. report' = [report EXCEPT ![c] = NoReport]
      BY <1>1, <1>4 DEF CheckLimit
    <2>2. \A d \in SignalCall : report'[d] = IF d = c THEN NoReport ELSE report[d]
      BY <2>1 DEF SignalIInv, CallsSound
    <2>3. CallsSound'
      BY <2>1, <2>2 DEF SignalIInv, CallsSound, FoundIsOfReporter, CheckLimit
    <2>4. \A x \in Reporter : Passed(x)' \subseteq Passed(x)
      BY <2>2 DEF Passed
    <2> QED
      BY <1>2, <1>3, <2>3, <2>4, PlacesKept DEF SignalIInv
  <1>5. CASE ~LimitReached(old.report.by)
    <2> DEFINE new == [at |-> "find", report |-> old.report, found |-> NoReport]
    <2>1. new \in Reported /\ new.found = NoReport /\ new.report = old.report
      BY DEF Reported
    <2>2. report' = [report EXCEPT ![c] = new]
      BY <1>1, <1>5 DEF CheckLimit
    <2> HIDE DEF new
    <2>3. \A d \in SignalCall : report'[d] = IF d = c THEN new ELSE report[d]
      BY <2>2 DEF SignalIInv, CallsSound
    <2>4. report' \in [SignalCall -> Reported \cup {NoReport}]
      BY <2>1, <2>2 DEF SignalIInv, CallsSound
    <2>5. FoundIsOfReporter(new)'
      BY <2>1, SignalAssumption DEF FoundIsOfReporter, SignalIInv, RowsSound, CheckLimit
    <2>6. CallsSound'
      BY <2>3, <2>4, <2>5 DEF SignalIInv, CallsSound, FoundIsOfReporter, CheckLimit
    <2>7. PlacesSound'
      <3> SUFFICES ASSUME NEW r \in Reporter
                   PROVE  Cardinality(RecentOf(r)') + Cardinality(Passed(r)') + 1
                              <= DailyLimit + Cardinality(SignalCall)
        BY DEF PlacesSound
      <3>1. /\ Cardinality(Passed(r)') <= Cardinality(SignalCall)
            /\ Cardinality(Passed(r)') \in Nat /\ Cardinality(SignalCall) \in Nat
            /\ Cardinality(RecentOf(r)) \in Nat /\ DailyLimit \in Nat
        <4>1. Passed(r)' \in SUBSET SignalCall
          BY DEF Passed
        <4> QED
          BY <4>1, FS_Subset, FS_CardinalityType, RecentFinite, SignalAssumption DEF SignalIInv
      <3>2. CASE r = old.report.by
        <4>1. ~(Cardinality(RecentOf(r)) >= DailyLimit)
          BY <1>5, <3>2 DEF LimitReached
        <4> QED
          BY <1>3, <3>1, <4>1
      <3>3. CASE r # old.report.by
        <4>1. Passed(r)' = Passed(r)
          BY <1>1, <2>1, <2>3, <3>3 DEF Passed
        <4> QED
          BY <1>3, <4>1 DEF SignalIInv, PlacesSound
      <3> QED
        BY <3>2, <3>3
    <2> QED
      BY <1>2, <2>6, <2>7 DEF SignalIInv
  <1> QED
    BY <1>4, <1>5

\* The search for an open signal of the same report.
LEMMA FindIInv ==
    ASSUME SignalIInv, NEW c \in SignalCall, FindOpenSignal(c)
    PROVE  SignalIInv'
  <1>1. PICK old \in Reported : old = report[c] /\ old # NoReport /\ old.at = "find"
    BY DEF SignalIInv, CallsSound, FindOpenSignal
  <1>2. PICK id : /\ id = NoReport \/ (id \in DOMAIN signal /\ SameReport(id, old.report))
                  /\ report' = [report EXCEPT ![c] = [at |-> "write", report |-> old.report,
                                                      found |-> id]]
    BY <1>1 DEF FindOpenSignal
  <1> DEFINE new == [at |-> "write", report |-> old.report, found |-> id]
  <1>3. id \in (1..made) \cup {NoReport} /\ id \in (1..MaxSignals) \cup {NoReport}
    <2>1. made \in Nat /\ made <= MaxSignals /\ DOMAIN signal \subseteq 1..made
      BY SignalAssumption DEF SignalIInv, RowsSound
    <2>2. 1..made \subseteq 1..MaxSignals
      BY <2>1, SignalAssumption
    <2> QED
      BY <1>2, <2>1, <2>2
  <1>4. /\ new \in Reported /\ new.found = id /\ new.report = old.report /\ new.at = "write"
    BY <1>1, <1>3 DEF Reported
  <1>5. report' = [report EXCEPT ![c] = new]
    BY <1>2
  <1> HIDE DEF new
  <1>6. RowsSound' /\ SignalIsOfItsReporter'
    BY DEF SignalIInv, FindOpenSignal, RowsSound, SignalIsOfItsReporter
  <1>7. \A d \in SignalCall : report'[d] = IF d = c THEN new ELSE report[d]
    BY <1>5 DEF SignalIInv, CallsSound
  <1>8. report' \in [SignalCall -> Reported \cup {NoReport}]
    BY <1>4, <1>5 DEF SignalIInv, CallsSound
  <1>9. FoundIsOfReporter(new)'
    <2>1. id \in DOMAIN signal => signal[id].by = old.report.by
      BY <1>2, SignalAssumption DEF SameReport, SignalIInv, RowsSound
    <2> QED
      BY <1>3, <1>4, <2>1 DEF FoundIsOfReporter, FindOpenSignal
  <1>10. CallsSound'
    BY <1>7, <1>8, <1>9 DEF SignalIInv, CallsSound, FoundIsOfReporter, FindOpenSignal
  <1>11. \A x \in Reporter : RecentOf(x)' \subseteq RecentOf(x) /\ Passed(x)' \subseteq Passed(x)
    BY <1>1, <1>4, <1>7 DEF RecentOf, Passed, FindOpenSignal
  <1> QED
    BY <1>6, <1>10, <1>11, PlacesKept DEF SignalIInv

\* A call that writes leaves, and its place with it.
LEMMA WriteLeaves ==
    ASSUME SignalIInv, NEW c \in SignalCall, WriteSignal(c), NEW r
    PROVE  /\ \A d \in SignalCall : report'[d] = IF d = c THEN NoReport ELSE report[d]
           /\ report' \in [SignalCall -> Reported \cup {NoReport}]
           /\ Passed(r)' = Passed(r) \ {c}
           /\ report[c].report.by = r => c \in Passed(r)
  <1>1. report' = [report EXCEPT ![c] = NoReport]
    BY DEF WriteSignal
  <1>2. /\ \A d \in SignalCall : report'[d] = IF d = c THEN NoReport ELSE report[d]
        /\ report' \in [SignalCall -> Reported \cup {NoReport}]
    BY <1>1 DEF SignalIInv, CallsSound
  <1> QED
    BY <1>2 DEF Passed, WriteSignal

\* The new row takes the next id, which no call can have found.
LEMMA CreateIInv ==
    ASSUME SignalIInv, NEW c \in SignalCall, WriteSignal(c), report[c].found = NoReport
    PROVE  SignalIInv'
  <1> DEFINE r == report[c].report
             entry == [by |-> r.by, field |-> NoField, status |-> "OPEN", says |-> r]
  <1>1. r \in Report /\ report[c] # NoReport
    BY DEF SignalIInv, CallsSound, WriteSignal, Reported
  <1>2. entry \in Signal /\ entry.by = r.by /\ entry.says.by = r.by
    BY <1>1 DEF Signal, SignalStatus, Report
  <1>3. /\ made < MaxSignals /\ made' = made + 1 /\ recent' = recent \cup {made + 1}
        /\ signal' = [n \in DOMAIN signal \cup {made + 1} |->
                        IF n \in DOMAIN signal THEN signal[n] ELSE entry]
    BY DEF WriteSignal
  <1> HIDE DEF entry, r
  <1>4. made \in Nat /\ MaxSignals \in Nat /\ made + 1 \notin DOMAIN signal /\ made + 1 \notin recent
    BY SignalAssumption DEF SignalIInv, RowsSound
  <1>5. /\ DOMAIN signal' = DOMAIN signal \cup {made + 1}
        /\ signal'[made + 1] = entry
        /\ \A n \in DOMAIN signal : signal'[n] = signal[n]
    BY <1>3, <1>4
  <1>6. RowsSound'
    BY <1>2, <1>3, <1>4, <1>5 DEF SignalIInv, RowsSound
  <1>7. SignalIsOfItsReporter'
    BY <1>2, <1>5 DEF SignalIInv, SignalIsOfItsReporter
  <1>8. CallsSound'
    <2> SUFFICES ASSUME NEW d \in SignalCall PROVE FoundIsOfReporter(report[d])'
      BY WriteLeaves DEF CallsSound
    <2>1. report'[d] = IF d = c THEN NoReport ELSE report[d]
      BY WriteLeaves
    <2>2. FoundIsOfReporter(report[d])
      BY DEF SignalIInv, CallsSound
    <2>3. CASE d = c
      BY <2>1, <2>3 DEF FoundIsOfReporter
    <2>4. CASE d # c /\ report[d] # NoReport
      <3>1. PICK q : q = report[d] /\ report'[d] = q /\ q # NoReport
        BY <2>1, <2>4
      <3>2. q.found \in (1..made) \cup {NoReport}
        BY <2>2, <3>1 DEF FoundIsOfReporter
      <3>3. q.found \in (1..made') \cup {NoReport} /\ q.found # made + 1
        BY <1>3, <1>4, <3>2, SignalAssumption
      <3>4. q.found \in DOMAIN signal' => q.found \in DOMAIN signal /\ signal'[q.found] = signal[q.found]
        BY <1>5, <3>3
      <3> QED
        BY <2>2, <3>1, <3>3, <3>4 DEF FoundIsOfReporter
    <2>5. CASE report[d] = NoReport
      BY <2>1, <2>5 DEF FoundIsOfReporter
    <2> QED
      BY <2>3, <2>4, <2>5
  <1>9. PlacesSound'
    <2> SUFFICES ASSUME NEW x \in Reporter
                 PROVE  Cardinality(RecentOf(x)') + Cardinality(Passed(x)') + 1
                            <= DailyLimit + Cardinality(SignalCall)
      BY DEF PlacesSound
    <2>1. Cardinality(RecentOf(x)) + Cardinality(Passed(x)) + 1
             <= DailyLimit + Cardinality(SignalCall)
      BY DEF SignalIInv, PlacesSound
    <2>2. /\ IsFiniteSet(RecentOf(x)) /\ Cardinality(RecentOf(x)) \in Nat
          /\ IsFiniteSet(Passed(x)) /\ Cardinality(Passed(x)) \in Nat
          /\ Cardinality(SignalCall) \in Nat /\ DailyLimit \in Nat
      BY RecentFinite, PassedFinite, SignalAssumption DEF SignalIInv
    <2>3. Passed(x)' = Passed(x) \ {c} /\ (r.by = x => c \in Passed(x))
      BY WriteLeaves DEF r
    <2>4. Cardinality(Passed(x)') = IF c \in Passed(x) THEN Cardinality(Passed(x)) - 1
                                    ELSE Cardinality(Passed(x))
      BY <2>2, <2>3, FS_RemoveElement
    <2>5. CASE r.by = x
      <3>1. RecentOf(x)' = RecentOf(x) \cup {made + 1} /\ made + 1 \notin RecentOf(x)
        BY <1>2, <1>3, <1>4, <1>5, <2>5 DEF RecentOf
      <3>2. Cardinality(RecentOf(x)') = Cardinality(RecentOf(x)) + 1
        BY <3>1, <2>2, FS_AddElement
      <3> QED
        BY <2>1, <2>2, <2>3, <2>4, <2>5, <3>2
    <2>6. CASE r.by # x
      <3>1. RecentOf(x)' = RecentOf(x)
        BY <1>2, <1>3, <1>4, <1>5, <2>6 DEF RecentOf
      <3> QED
        BY <2>1, <2>2, <2>4, <3>1
    <2> QED
      BY <2>5, <2>6
  <1> QED
    BY <1>6, <1>7, <1>8, <1>9 DEF SignalIInv

\* The row found, if it is still there, is of the reporter; gone, nothing is written.
LEMMA UpdateIInv ==
    ASSUME SignalIInv, NEW c \in SignalCall, WriteSignal(c), report[c].found # NoReport
    PROVE  SignalIInv'
  <1> DEFINE r == report[c].report
             id == report[c].found
             RowOf(n) == IF n = id THEN [signal[n] EXCEPT !.says = r] ELSE signal[n]
  <1>1. r \in Report /\ report[c] # NoReport /\ FoundIsOfReporter(report[c])
    BY DEF SignalIInv, CallsSound, WriteSignal, Reported
  <1>2. \A n \in DOMAIN signal : /\ RowOf(n) \in Signal /\ RowOf(n).by = signal[n].by
                                 /\ RowOf(n).says.by = RowOf(n).by
    <2> SUFFICES ASSUME NEW n \in DOMAIN signal
                 PROVE  /\ RowOf(n) \in Signal /\ RowOf(n).by = signal[n].by
                        /\ RowOf(n).says.by = RowOf(n).by
      OBVIOUS
    <2>1. signal[n] \in Signal /\ signal[n].says.by = signal[n].by
      BY DEF SignalIInv, RowsSound, SignalIsOfItsReporter
    <2>2. n = id => signal[n].by = r.by
      BY <1>1 DEF FoundIsOfReporter
    <2> HIDE DEF r
    <2>3. /\ [signal[n] EXCEPT !.says = r] \in Signal
          /\ [signal[n] EXCEPT !.says = r].by = signal[n].by
          /\ [signal[n] EXCEPT !.says = r].says = r
      BY <1>1, <2>1 DEF Signal
    <2> QED
      BY <2>1, <2>2, <2>3
  <1>3. /\ signal' = [n \in DOMAIN signal |-> RowOf(n)]
        /\ UNCHANGED <<recent, made>>
    BY DEF WriteSignal
  <1> HIDE DEF RowOf, r, id
  <1>4. DOMAIN signal' = DOMAIN signal /\ \A n \in DOMAIN signal : signal'[n] = RowOf(n)
    BY <1>3
  <1>5. RowsSound' /\ SignalIsOfItsReporter'
    BY <1>2, <1>3, <1>4 DEF SignalIInv, RowsSound, SignalIsOfItsReporter
  <1>6. CallsSound'
    <2> SUFFICES ASSUME NEW d \in SignalCall PROVE FoundIsOfReporter(report[d])'
      BY WriteLeaves DEF CallsSound
    <2>1. report'[d] = IF d = c THEN NoReport ELSE report[d]
      BY WriteLeaves
    <2>2. FoundIsOfReporter(report[d])
      BY DEF SignalIInv, CallsSound
    <2> QED
      BY <1>2, <1>3, <1>4, <2>1, <2>2 DEF FoundIsOfReporter
  <1>7. \A x \in Reporter : RecentOf(x)' \subseteq RecentOf(x)
    BY <1>2, <1>3, <1>4 DEF RecentOf
  <1>8. \A x \in Reporter : Passed(x)' \subseteq Passed(x)
    BY WriteLeaves
  <1> QED
    BY <1>5, <1>6, <1>7, <1>8, PlacesKept DEF SignalIInv

\* A status is set, rows go, or a day passes: no call is involved.
LEMMA SettledIInv ==
    ASSUME SignalIInv, UNCHANGED <<report, made>>,
           DOMAIN signal' \subseteq DOMAIN signal, recent' \subseteq recent \cap DOMAIN signal',
           \A n \in DOMAIN signal' : /\ signal'[n] \in Signal /\ signal'[n].by = signal[n].by
                                     /\ signal'[n].says = signal[n].says
    PROVE  SignalIInv'
  <1>1. RowsSound' /\ SignalIsOfItsReporter'
    BY DEF SignalIInv, RowsSound, SignalIsOfItsReporter
  <1>2. CallsSound'
    BY DEF SignalIInv, CallsSound, FoundIsOfReporter
  <1>3. \A x \in Reporter : RecentOf(x)' \subseteq RecentOf(x) /\ Passed(x)' \subseteq Passed(x)
    BY DEF RecentOf, Passed
  <1> QED
    BY <1>1, <1>2, <1>3, PlacesKept DEF SignalIInv

LEMMA PatchIInv ==
    ASSUME SignalIInv, NEW id \in DOMAIN signal, NEW status \in SignalStatus, PatchSignal(id, status)
    PROVE  SignalIInv'
  <1>1. PICK old \in Signal : old = signal[id]
    BY DEF SignalIInv, RowsSound
  <1>2. PICK new : new = [old EXCEPT !.status = status]
    OBVIOUS
  <1>3. new \in Signal /\ new.by = old.by /\ new.says = old.says
    BY <1>2 DEF Signal
  <1>4. signal' = [signal EXCEPT ![id] = new]
    BY <1>1, <1>2 DEF PatchSignal
  <1>5. DOMAIN signal' = DOMAIN signal
        /\ \A n \in DOMAIN signal : signal'[n] = IF n = id THEN new ELSE signal[n]
    BY <1>4
  <1> QED
    BY <1>1, <1>3, <1>5, SettledIInv DEF PatchSignal, SignalIInv, RowsSound

LEMMA RemoveIInv ==
    ASSUME SignalIInv, NEW ids, RemoveSignals(ids)
    PROVE  SignalIInv'
  <1>1. /\ DOMAIN signal' = DOMAIN signal \ ids
        /\ \A n \in DOMAIN signal' : signal'[n] = signal[n]
    BY DEF RemoveSignals
  <1> QED
    BY <1>1, SettledIInv DEF RemoveSignals, SignalIInv, RowsSound

LEMMA DayIInv == ASSUME SignalIInv, DayPasses PROVE SignalIInv'
  BY SettledIInv DEF DayPasses, SignalIInv, RowsSound

\* SignalIInv is inductive.
LEMMA NextSignalIInv == SignalIInv /\ [SignalNext]_signalVars => SignalIInv'
  <1> SUFFICES ASSUME SignalIInv, [SignalNext]_signalVars PROVE SignalIInv'
    OBVIOUS
  <1>1. CASE UNCHANGED signalVars
    BY <1>1, SettledIInv DEF signalVars, SignalIInv, RowsSound
  <1>2. ASSUME NEW c \in SignalCall, WriteSignal(c) PROVE SignalIInv'
    BY <1>2, CreateIInv, UpdateIInv
  <1>3. CASE SignalNext
    BY <1>2, <1>3, PostIInv, CheckLimitIInv, FindIInv, PatchIInv, RemoveIInv, DayIInv
       DEF SignalNext, ClearClosedSignals
  <1> QED
    BY <1>1, <1>3

\* The invariant of the table, the day's count and the calls under way.
THEOREM SpecSignalIInv == SignalSpec => []SignalIInv
  <1> QED
    BY InitSignalIInv, NextSignalIInv, PTL DEF SignalSpec

\* The types of the variables are invariant; the day's signals are stored ones.
THEOREM SignalTypesCorrect == SignalSpec => []SignalTypeOK
  <1>1. SignalIInv => SignalTypeOK
    BY DEF SignalIInv, RowsSound, CallsSound, SignalTypeOK
  <1> QED
    BY <1>1, SpecSignalIInv, PTL

\* Nobody's report is overwritten by another traveler's.
THEOREM SignalsAreOwn == SignalSpec => []SignalIsOfItsReporter
  <1>1. SignalIInv => SignalIsOfItsReporter
    BY DEF SignalIInv
  <1> QED
    BY <1>1, SpecSignalIInv, PTL

\* Calls that overlap pass the daily limit by at most one signal each, less one.
THEOREM OvershootIsBounded == SignalSpec => []LimitOvershootIsBounded
  <1>1. SignalIInv => LimitOvershootIsBounded
    <2> SUFFICES ASSUME SignalIInv, NEW r \in Reporter
                 PROVE  Cardinality(RecentOf(r)) + 1 <= DailyLimit + Cardinality(SignalCall)
      BY DEF LimitOvershootIsBounded
    <2>1. /\ Cardinality(RecentOf(r)) \in Nat /\ Cardinality(Passed(r)) \in Nat
          /\ Cardinality(SignalCall) \in Nat /\ DailyLimit \in Nat
      BY RecentFinite, PassedFinite, SignalAssumption DEF SignalIInv
    <2> QED
      BY <2>1 DEF SignalIInv, PlacesSound
  <1> QED
    BY <1>1, SpecSignalIInv, PTL

-----------------------------------------------------------------------------
(* PropertyIds. *)

\* What a delta has found of its places.
IdsOf == UNION {[D -> RowId] : D \in SUBSET Canonical}
DeltaState == [at : {"idle", "upsert", "refused", "facts", "torn"}, places : SUBSET Canonical,
               seen : IdsOf, bare : SUBSET Canonical, left : SUBSET Canonical, ids : IdsOf]

RowsTyped ==
    /\ row \in [RowId -> Property \cup {NotMade, Gone}]
    /\ \A i, j \in RowId : i # j /\ Live(i) /\ Live(j) =>
         /\ row[i].place # row[j].place
         /\ row[i].osm # NoOsm => row[i].osm # row[j].osm

\* A row that had a name was made, and one that lives had the name it has.
NamesSound ==
    /\ named \subseteq RowId \X Canonical
    /\ \A i \in RowId, p \in Canonical : <<i, p>> \in named => row[i] # NotMade
    /\ \A i \in RowId : Live(i) => <<i, row[i].place>> \in named

DeltasTyped ==
    /\ delta \in [Sender -> DeltaState]
    /\ \A s \in Sender : delta[s].left \subseteq delta[s].places

\* The ids of a delta are of rows that had the name, and the facts of the places it is
\* through with are attached to those that live.
StoredSoFar(s) ==
    \A p \in delta[s].places \ delta[s].left :
        /\ p \in DOMAIN delta[s].ids
        /\ Live(delta[s].ids[p]) => [id |-> delta[s].ids[p], sender |-> s, place |-> p] \in attached
DeltasSound ==
    \A s \in Sender :
        /\ \A p \in DOMAIN delta[s].ids : <<delta[s].ids[p], p>> \in named
        /\ delta[s].at = "facts" => StoredSoFar(s)

AnswersTyped ==
    /\ attached \subseteq [id : RowId, sender : Sender, place : Canonical]
    /\ answered \subseteq [sender : Sender, place : Canonical]
    /\ propertyOps \in Nat

PropertyIInv ==
    /\ RowsTyped /\ NamesSound /\ DeltasTyped /\ DeltasSound /\ AnswersTyped
    /\ AnsweredMeansAttached

LEMMA LiveRow ==
    ASSUME RowsTyped, NEW i \in RowId
    PROVE  /\ Live(i) <=> row[i] \in Property
           /\ Live(i) => row[i].place \in Canonical /\ row[i].osm \in Canonical \cup {NoOsm}
  BY PropertyAssumption DEF RowsTyped, Live, Property

LEMMA NewIdIsUnused == Unused # {} => NewId \in RowId /\ row[NewId] = NotMade
  BY DEF Unused, NewId

\* Writing a row that is not deleted keeps the rows unique and the names sound.
LEMMA SetRowSound ==
    ASSUME RowsTyped, NamesSound, NEW i \in RowId, row[i] # Gone, NEW new \in Property,
           SetRow(i, new)
    PROVE  /\ RowsTyped' /\ NamesSound' /\ named \subseteq named'
           /\ \A j \in RowId : row[j] # NotMade /\ Live(j)' => Live(j)
  <1>1. /\ row' \in [RowId -> Property \cup {NotMade, Gone}]
        /\ row'[i] = new /\ \A j \in RowId : j # i => row'[j] = row[j]
        /\ named' = named \cup {<<i, new.place>>}
    BY DEF SetRow, RowsTyped
  <1>2. \A j \in RowId : j # i /\ Live(j) =>
          /\ row[j].place # new.place
          /\ new.osm # NoOsm => row[j].osm # new.osm
    BY DEF SetRow, Taken
  <1>3. \A j \in RowId : j # i => (Live(j)' <=> Live(j))
    BY <1>1 DEF Live
  <1>4. Live(i)' /\ row'[i].place \in Canonical
    BY <1>1, PropertyAssumption DEF Live, Property
  <1>5. RowsTyped'
    BY <1>1, <1>2, <1>3 DEF RowsTyped
  <1>6. NamesSound'
    BY <1>1, <1>3, <1>4, PropertyAssumption DEF NamesSound
  <1>7. \A j \in RowId : row[j] # NotMade /\ Live(j)' => Live(j)
    BY <1>3 DEF Live
  <1> QED
    BY <1>1, <1>5, <1>6, <1>7

\* More names, and rows that do not come back to life, leave what is attached as it was.
LEMMA NamesGrow ==
    ASSUME PropertyIInv, RowsTyped', NamesSound', named \subseteq named',
           \A j \in RowId : row[j] # NotMade /\ Live(j)' => Live(j),
           UNCHANGED <<attached, answered>>, propertyOps' \in Nat,
           DeltasTyped',
           \A s \in Sender :
              /\ delta'[s].ids = delta[s].ids /\ delta'[s].places = delta[s].places
              /\ delta'[s].at = "facts" => delta[s].at = "facts" /\ delta'[s].left = delta[s].left
    PROVE  PropertyIInv'
  <1>1. AnswersTyped'
    BY DEF PropertyIInv, AnswersTyped
  <1>2. AnsweredMeansAttached'
    BY DEF PropertyIInv, AnsweredMeansAttached
  <1>3. DeltasSound'
    <2> SUFFICES ASSUME NEW s \in Sender
                 PROVE  /\ \A p \in DOMAIN delta[s].ids : <<delta[s].ids[p], p>> \in named'
                        /\ delta'[s].at = "facts" => StoredSoFar(s)'
      BY DEF DeltasSound
    <2>1. \A p \in DOMAIN delta[s].ids : <<delta[s].ids[p], p>> \in named'
      BY DEF PropertyIInv, DeltasSound
    <2>2. \A p \in DOMAIN delta[s].ids : delta[s].ids[p] \in RowId /\ row[delta[s].ids[p]] # NotMade
      BY DEF PropertyIInv, DeltasSound, NamesSound
    <2>3. ASSUME delta'[s].at = "facts" PROVE StoredSoFar(s)'
      <3>1. StoredSoFar(s) /\ delta'[s].left = delta[s].left
        BY <2>3 DEF PropertyIInv, DeltasSound
      <3> QED
        BY <2>2, <3>1 DEF StoredSoFar
    <2> QED
      BY <2>1, <2>3
  <1> QED
    BY <1>1, <1>2, <1>3 DEF PropertyIInv

LEMMA InitPropertyIInv == PropertyInit => PropertyIInv
  <1> SUFFICES ASSUME PropertyInit PROVE PropertyIInv
    OBVIOUS
  <1>1. [p \in {} |-> NotMade] \in IdsOf
    <2>1. [p \in {} |-> NotMade] \in [{} -> RowId]
      OBVIOUS
    <2>2. {} \in SUBSET Canonical
      OBVIOUS
    <2> QED
      BY <2>1, <2>2 DEF IdsOf
  <1>2. NoDelta \in DeltaState /\ NoDelta.left = {} /\ NoDelta.at = "idle" /\ NoDelta.places = {}
        /\ DOMAIN NoDelta.ids = {}
    BY <1>1 DEF NoDelta, DeltaState
  <1>3. \A i \in RowId : row[i] = NotMade /\ ~Live(i)
    BY DEF PropertyInit, Live
  <1>4. RowsTyped /\ NamesSound
    BY <1>3 DEF PropertyInit, RowsTyped, NamesSound
  <1>5. DeltasTyped /\ DeltasSound
    BY <1>2 DEF PropertyInit, DeltasTyped, DeltasSound
  <1> QED
    BY <1>4, <1>5 DEF PropertyInit, PropertyIInv, AnswersTyped, AnsweredMeansAttached

\* A change of one row that the operators make.
LEMMA PropertyChange ==
    ASSUME PropertyIInv, NEW i \in RowId, row[i] # Gone, NEW new \in Property, SetRow(i, new),
           PropertyOp, UNCHANGED <<delta, attached, answered>>
    PROVE  PropertyIInv'
  <1>1. /\ RowsTyped' /\ NamesSound' /\ named \subseteq named'
        /\ \A j \in RowId : row[j] # NotMade /\ Live(j)' => Live(j)
    BY SetRowSound DEF PropertyIInv
  <1>2. propertyOps' \in Nat
    BY DEF PropertyIInv, AnswersTyped, PropertyOp
  <1>3. DeltasTyped'
    BY DEF PropertyIInv, DeltasTyped
  <1> QED
    BY <1>1, <1>2, <1>3, NamesGrow

LEMMA PropertyCreate ==
    ASSUME PropertyIInv, NEW p \in Canonical, CreateProperty(p)
    PROVE  PropertyIInv'
  <1>1. PICK osm \in {p, NoOsm} : SetRow(NewId, [place |-> p, osm |-> osm])
    BY DEF CreateProperty
  <1>2. NewId \in RowId /\ row[NewId] # Gone
    BY NewIdIsUnused, PropertyAssumption DEF CreateProperty
  <1>3. [place |-> p, osm |-> osm] \in Property
    BY DEF Property
  <1>4. PropertyOp /\ UNCHANGED <<delta, attached, answered>>
    BY DEF CreateProperty
  <1> QED
    BY <1>1, <1>2, <1>3, <1>4, PropertyChange

LEMMA PropertyRename ==
    ASSUME PropertyIInv, NEW i \in RowId, NEW p \in Canonical,
           RenameProperty(i, p) \/ LinkProperty(i, p)
    PROVE  PropertyIInv'
  <1>1. PICK new \in {[row[i] EXCEPT !.place = p], [row[i] EXCEPT !.osm = p]} : SetRow(i, new)
    BY DEF RenameProperty, LinkProperty
  <1>2. Live(i) /\ PropertyOp /\ UNCHANGED <<delta, attached, answered>>
    BY DEF RenameProperty, LinkProperty
  <1>3. new \in Property
    <2>1. row[i] \in Property
      BY <1>2, LiveRow DEF PropertyIInv
    <2> QED
      BY <2>1 DEF Property
  <1>4. row[i] # Gone
    BY <1>2 DEF Live
  <1> QED
    BY <1>1, <1>2, <1>3, <1>4, PropertyChange

LEMMA PropertyDelete ==
    ASSUME PropertyIInv, NEW i \in RowId, DeleteProperty(i)
    PROVE  PropertyIInv'
  <1>1. /\ row' = [row EXCEPT ![i] = Gone] /\ delta' = delta /\ named' = named
        /\ attached' = {f \in attached : f.id # i}
        /\ answered' = answered \ {[sender |-> f.sender, place |-> f.place] :
                                     f \in {f \in attached : f.id = i}}
        /\ propertyOps' \in Nat
    BY DEF DeleteProperty, PropertyOp, PropertyIInv, AnswersTyped
  <1>2. /\ row' \in [RowId -> Property \cup {NotMade, Gone}] /\ row'[i] = Gone
        /\ \A j \in RowId : j # i => row'[j] = row[j]
    BY <1>1 DEF PropertyIInv, RowsTyped
  <1>3. ~Live(i)' /\ \A j \in RowId : j # i => (Live(j)' <=> Live(j))
    BY <1>2 DEF Live
  <1>4. RowsTyped' /\ NamesSound'
    BY <1>1, <1>2, <1>3, PropertyAssumption DEF PropertyIInv, RowsTyped, NamesSound
  <1>5. DeltasTyped' /\ AnswersTyped'
    BY <1>1 DEF PropertyIInv, DeltasTyped, AnswersTyped
  <1>6. AnsweredMeansAttached'
    <2> SUFFICES ASSUME NEW a \in answered'
                 PROVE  \E f \in attached' : /\ f.sender = a.sender /\ f.place = a.place
                                             /\ <<f.id, f.place>> \in named
      BY <1>1 DEF AnsweredMeansAttached
    <2>1. PICK f \in attached : /\ f.sender = a.sender /\ f.place = a.place
                                /\ <<f.id, f.place>> \in named
      BY <1>1 DEF PropertyIInv, AnsweredMeansAttached
    <2>2. a = [sender |-> f.sender, place |-> f.place]
      BY <1>1, <2>1 DEF PropertyIInv, AnswersTyped
    <2>3. f.id # i
      BY <1>1, <2>2
    <2> QED
      BY <1>1, <2>1, <2>3
  <1>7. DeltasSound'
    <2> SUFFICES ASSUME NEW s \in Sender, delta[s].at = "facts", NEW p \in delta[s].places \ delta[s].left
                 PROVE  /\ p \in DOMAIN delta[s].ids
                        /\ Live(delta[s].ids[p])' =>
                             [id |-> delta[s].ids[p], sender |-> s, place |-> p] \in attached'
      BY <1>1 DEF DeltasSound, StoredSoFar, PropertyIInv
    <2>1. /\ p \in DOMAIN delta[s].ids
          /\ Live(delta[s].ids[p]) => [id |-> delta[s].ids[p], sender |-> s, place |-> p] \in attached
          /\ <<delta[s].ids[p], p>> \in named
      BY DEF DeltasSound, StoredSoFar, PropertyIInv
    <2>2. delta[s].ids[p] \in RowId
      BY <2>1 DEF PropertyIInv, NamesSound
    <2> QED
      BY <1>1, <1>3, <2>1, <2>2
  <1> QED
    BY <1>4, <1>5, <1>6, <1>7 DEF PropertyIInv

\* The ids read for the places of a delta are of rows that have their names.
LEMMA FoundIds ==
    ASSUME RowsTyped, NamesSound, NEW D \in SUBSET Canonical, \A p \in D : RowsFor(p) # {}
    PROVE  LET ids == [p \in D |-> CHOOSE i \in RowsFor(p) : TRUE]
           IN  ids \in IdsOf /\ DOMAIN ids = D /\ \A p \in D : <<ids[p], p>> \in named
  <1> DEFINE ids == [p \in D |-> CHOOSE i \in RowsFor(p) : TRUE]
  <1>1. \A p \in D : ids[p] \in RowsFor(p)
    OBVIOUS
  <1>2. \A p \in D : ids[p] \in RowId /\ Live(ids[p]) /\ row[ids[p]].place = p
    BY <1>1 DEF RowsFor
  <1>3. ids \in [D -> RowId]
    BY <1>2
  <1>4. ids \in IdsOf
    BY <1>3 DEF IdsOf
  <1> QED
    BY <1>2, <1>4 DEF NamesSound

LEMMA PropertyReceive ==
    ASSUME PropertyIInv, NEW s \in Sender, NEW places \in SUBSET Canonical, ReceiveDelta(s, places)
    PROVE  PropertyIInv'
  <1> DEFINE known == {p \in places : RowsFor(p) # {}}
             seen == [p \in known |-> CHOOSE i \in RowsFor(p) : TRUE]
             bare == {p \in known : \A i \in RowsFor(p) : row[i].osm = NoOsm}
             new == [NoDelta EXCEPT !.at = "upsert", !.places = places, !.left = places,
                                    !.seen = seen, !.bare = bare]
  <1>1. seen \in IdsOf /\ bare \in SUBSET Canonical
    BY FoundIds DEF PropertyIInv
  <1>2. delta' = [delta EXCEPT ![s] = new]
    BY DEF ReceiveDelta
  <1> HIDE DEF known, seen, bare
  <1>3. new \in DeltaState /\ new.at = "upsert" /\ new.left = new.places /\ new.ids = NoDelta.ids
    <2>1. [p \in {} |-> NotMade] \in [{} -> RowId]
      OBVIOUS
    <2>2. [p \in {} |-> NotMade] \in IdsOf
      BY <2>1 DEF IdsOf
    <2> QED
      BY <1>1, <2>2 DEF NoDelta, DeltaState
  <1> HIDE DEF new
  <1>4. DOMAIN new.ids = {}
    BY <1>3 DEF NoDelta
  <1>5. /\ UNCHANGED <<row, attached, answered, named>> /\ propertyOps' \in Nat
    BY DEF ReceiveDelta, PropertyOp, PropertyIInv, AnswersTyped
  <1>6. delta' \in [Sender -> DeltaState] /\ delta'[s] = new
        /\ \A t \in Sender : t # s => delta'[t] = delta[t]
    BY <1>2, <1>3 DEF PropertyIInv, DeltasTyped
  <1>7. DeltasTyped' /\ DeltasSound'
    <2>1. DeltasTyped'
      BY <1>3, <1>6 DEF PropertyIInv, DeltasTyped
    <2>2. ASSUME NEW t \in Sender
          PROVE  /\ \A p \in DOMAIN delta'[t].ids : <<delta'[t].ids[p], p>> \in named'
                 /\ delta'[t].at = "facts" => StoredSoFar(t)'
      BY <1>3, <1>4, <1>5, <1>6 DEF PropertyIInv, DeltasSound, StoredSoFar, Live
    <2> QED
      BY <2>1, <2>2 DEF DeltasSound
  <1>8. RowsTyped' /\ NamesSound' /\ AnswersTyped' /\ AnsweredMeansAttached'
    BY <1>5 DEF PropertyIInv, RowsTyped, NamesSound, AnswersTyped, AnsweredMeansAttached, Live
  <1> QED
    BY <1>7, <1>8 DEF PropertyIInv

\* One statement of a delta less to go.
LEMMA StatementEnds ==
    ASSUME DeltasTyped, NEW s \in Sender, NEW p, Done(s, p) \/ Threw(s, p)
    PROVE  /\ DeltasTyped' /\ \A t \in Sender : t # s => delta'[t] = delta[t]
           /\ delta'[s].ids = delta[s].ids /\ delta'[s].places = delta[s].places
           /\ delta'[s].left = delta[s].left \ {p}
           /\ Done(s, p) => delta'[s].at = delta[s].at
           /\ Threw(s, p) => delta'[s].at \in {"torn", "refused"}
  <1> DEFINE failed == IF delta[s].at \in {"facts", "torn"} THEN "torn" ELSE "refused"
             done == [delta[s] EXCEPT !.left = delta[s].left \ {p}]
             threw == [delta[s] EXCEPT !.left = delta[s].left \ {p}, !.at = failed]
  <1>1. /\ Done(s, p) => delta' = [delta EXCEPT ![s] = done]
        /\ Threw(s, p) => delta' = [delta EXCEPT ![s] = threw]
    BY DEF Done, Threw, DeltasTyped
  <1>2. delta[s] \in DeltaState /\ delta[s].left \subseteq delta[s].places
    BY DEF DeltasTyped
  <1>3. /\ done \in DeltaState /\ done.ids = delta[s].ids /\ done.places = delta[s].places
        /\ done.left = delta[s].left \ {p} /\ done.at = delta[s].at
    BY <1>2 DEF DeltaState
  <1>4. /\ threw \in DeltaState /\ threw.ids = delta[s].ids /\ threw.places = delta[s].places
        /\ threw.left = delta[s].left \ {p} /\ threw.at \in {"torn", "refused"}
    BY <1>2 DEF DeltaState
  <1> HIDE DEF done, threw
  <1>5. CASE Done(s, p)
    <2>1. delta' = [delta EXCEPT ![s] = done]
      BY <1>1, <1>5
    <2>2. /\ delta' \in [Sender -> DeltaState] /\ delta'[s] = done
          /\ \A t \in Sender : t # s => delta'[t] = delta[t]
      BY <1>3, <2>1 DEF DeltasTyped
    <2>3. DeltasTyped'
      BY <1>2, <1>3, <2>2 DEF DeltasTyped
    <2>4. ~Threw(s, p) \/ delta[s].at \in {"torn", "refused"}
      <3>1. Threw(s, p) => threw = done
        BY <1>1, <2>2 DEF DeltasTyped
      <3> QED
        BY <1>3, <1>4, <3>1
    <2> QED
      BY <1>3, <2>2, <2>3, <2>4
  <1>6. CASE Threw(s, p) /\ ~Done(s, p)
    <2>1. delta' = [delta EXCEPT ![s] = threw]
      BY <1>1, <1>6
    <2>2. /\ delta' \in [Sender -> DeltaState] /\ delta'[s] = threw
          /\ \A t \in Sender : t # s => delta'[t] = delta[t]
      BY <1>4, <2>1 DEF DeltasTyped
    <2>3. DeltasTyped'
      BY <1>2, <1>4, <2>2 DEF DeltasTyped
    <2> QED
      BY <1>4, <1>6, <2>2, <2>3
  <1> QED
    BY <1>5, <1>6

LEMMA PropertyUpsert ==
    ASSUME PropertyIInv, NEW s \in Sender, NEW p \in Canonical, UpsertProperty(s, p)
    PROVE  PropertyIInv'
  <1>1. /\ delta[s].at \in {"upsert", "refused"} /\ (Done(s, p) \/ Threw(s, p))
        /\ UNCHANGED <<attached, propertyOps, answered>>
    BY DEF UpsertProperty
  <1>2. /\ DeltasTyped' /\ \A t \in Sender : t # s => delta'[t] = delta[t]
        /\ delta'[s].ids = delta[s].ids /\ delta'[s].places = delta[s].places
        /\ delta'[s].at # "facts"
    BY <1>1, StatementEnds DEF PropertyIInv
  <1>3. \/ UNCHANGED <<row, named>>
        \/ \E i \in RowId, new \in Property : row[i] # Gone /\ SetRow(i, new)
    <2> SUFFICES ASSUME ~UNCHANGED <<row, named>>
                 PROVE  \E i \in RowId, new \in Property : row[i] # Gone /\ SetRow(i, new)
      OBVIOUS
    <2>1. CASE p \notin DOMAIN delta[s].seen
      <3>1. PICK osm \in {p, NoOsm} : SetRow(NewId, [place |-> p, osm |-> osm]) /\ Unused # {}
        BY <2>1 DEF UpsertProperty
      <3>2. [place |-> p, osm |-> osm] \in Property
        BY DEF Property
      <3> QED
        BY <3>1, <3>2, NewIdIsUnused, PropertyAssumption
    <2>2. CASE p \in DOMAIN delta[s].seen
      <3> DEFINE i == delta[s].seen[p]
      <3>1. Live(i) /\ SetRow(i, [row[i] EXCEPT !.osm = p])
        BY <2>2 DEF UpsertProperty
      <3>2. i \in RowId
        <4>1. delta[s].seen \in IdsOf
          BY DEF PropertyIInv, DeltasTyped, DeltaState
        <4> QED
          BY <2>2, <4>1 DEF IdsOf
      <3>3. row[i] \in Property
        BY <3>1, <3>2, LiveRow DEF PropertyIInv
      <3>4. [row[i] EXCEPT !.osm = p] \in Property
        BY <3>3 DEF Property
      <3>5. row[i] # Gone
        BY <3>1 DEF Live
      <3> QED
        BY <3>1, <3>2, <3>4, <3>5
    <2> QED
      BY <2>1, <2>2
  <1>4. /\ RowsTyped' /\ NamesSound' /\ named \subseteq named'
        /\ \A j \in RowId : row[j] # NotMade /\ Live(j)' => Live(j)
    <2>1. CASE UNCHANGED <<row, named>>
      BY <2>1 DEF PropertyIInv, RowsTyped, NamesSound, Live
    <2>2. CASE \E i \in RowId, new \in Property : row[i] # Gone /\ SetRow(i, new)
      BY <2>2, SetRowSound DEF PropertyIInv
    <2> QED
      BY <1>3, <2>1, <2>2
  <1>5. propertyOps' \in Nat
    BY <1>1 DEF PropertyIInv, AnswersTyped
  <1>6. \A t \in Sender :
          /\ delta'[t].ids = delta[t].ids /\ delta'[t].places = delta[t].places
          /\ delta'[t].at = "facts" => delta[t].at = "facts" /\ delta'[t].left = delta[t].left
    BY <1>2
  <1> QED
    BY <1>1, <1>2, <1>4, <1>5, <1>6, NamesGrow

LEMMA PropertyReadIds ==
    ASSUME PropertyIInv, NEW s \in Sender, ReadIds(s)
    PROVE  PropertyIInv'
  <1> DEFINE places == delta[s].places
             D == {p \in places : RowsFor(p) # {}}
             new == [delta[s] EXCEPT !.at = "facts", !.left = places, !.ids = IdMap(places)]
  <1>1. delta[s] \in DeltaState /\ places \in SUBSET Canonical
    BY DEF PropertyIInv, DeltasTyped, DeltaState
  <1>2. IdMap(places) \in IdsOf /\ \A p \in DOMAIN IdMap(places) : <<IdMap(places)[p], p>> \in named
    <2>1. IdMap(places) = [p \in D |-> CHOOSE i \in RowsFor(p) : TRUE]
      BY DEF IdMap
    <2>2. D \in SUBSET Canonical /\ \A p \in D : RowsFor(p) # {}
      BY <1>1
    <2> HIDE DEF D
    <2> QED
      BY <2>1, <2>2, FoundIds DEF PropertyIInv
  <1>3. delta' = [delta EXCEPT ![s] = new] /\ UNCHANGED <<row, attached, propertyOps, answered, named>>
    BY DEF ReadIds
  <1>4. /\ new \in DeltaState /\ new.left = places /\ new.places = places
        /\ new.ids = IdMap(places)
    BY <1>1, <1>2 DEF DeltaState
  <1> HIDE DEF new
  <1>5. delta' \in [Sender -> DeltaState] /\ delta'[s] = new
        /\ \A t \in Sender : t # s => delta'[t] = delta[t]
    BY <1>3, <1>4 DEF PropertyIInv, DeltasTyped
  <1>6. DeltasTyped'
    BY <1>4, <1>5 DEF PropertyIInv, DeltasTyped
  <1>7. DeltasSound'
    <2> SUFFICES ASSUME NEW t \in Sender
                 PROVE  /\ \A p \in DOMAIN delta'[t].ids : <<delta'[t].ids[p], p>> \in named'
                        /\ delta'[t].at = "facts" => StoredSoFar(t)'
      BY DEF DeltasSound
    <2>1. CASE t = s
      BY <1>2, <1>3, <1>4, <1>5, <2>1 DEF StoredSoFar
    <2>2. CASE t # s
      BY <1>3, <1>5, <2>2 DEF PropertyIInv, DeltasSound, StoredSoFar, Live
    <2> QED
      BY <2>1, <2>2
  <1>8. RowsTyped' /\ NamesSound' /\ AnswersTyped' /\ AnsweredMeansAttached'
    BY <1>3 DEF PropertyIInv, RowsTyped, NamesSound, AnswersTyped, AnsweredMeansAttached, Live
  <1> QED
    BY <1>6, <1>7, <1>8 DEF PropertyIInv

LEMMA PropertyStoreFact ==
    ASSUME PropertyIInv, NEW s \in Sender, NEW p \in Canonical, StoreFact(s, p)
    PROVE  PropertyIInv'
  <1> DEFINE f == [id |-> delta[s].ids[p], sender |-> s, place |-> p]
             stored == p \in DOMAIN delta[s].ids /\ Live(delta[s].ids[p])
  <1>1. /\ UNCHANGED <<row, propertyOps, answered, named>>
        /\ \/ stored /\ attached' = attached \cup {f} /\ Done(s, p)
           \/ attached' = attached /\ Threw(s, p)
    BY DEF StoreFact
  <1>2. /\ DeltasTyped' /\ \A t \in Sender : t # s => delta'[t] = delta[t]
        /\ delta'[s].ids = delta[s].ids /\ delta'[s].places = delta[s].places
        /\ delta'[s].left = delta[s].left \ {p}
        /\ Done(s, p) => delta'[s].at = delta[s].at
        /\ Threw(s, p) => delta'[s].at \in {"torn", "refused"}
    BY <1>1, StatementEnds DEF PropertyIInv
  <1>3. AnswersTyped'
    <2>1. stored => f \in [id : RowId, sender : Sender, place : Canonical]
      BY DEF PropertyIInv, DeltasSound, NamesSound
    <2> QED
      BY <1>1, <2>1 DEF PropertyIInv, AnswersTyped
  <1>4. AnsweredMeansAttached'
    BY <1>1 DEF PropertyIInv, AnsweredMeansAttached
  <1>5. RowsTyped' /\ NamesSound'
    BY <1>1 DEF PropertyIInv, RowsTyped, NamesSound, Live
  <1>6. DeltasSound'
    <2> SUFFICES ASSUME NEW t \in Sender
                 PROVE  /\ \A q \in DOMAIN delta'[t].ids : <<delta'[t].ids[q], q>> \in named'
                        /\ delta'[t].at = "facts" => StoredSoFar(t)'
      BY DEF DeltasSound
    <2>1. \A q \in DOMAIN delta'[t].ids : <<delta'[t].ids[q], q>> \in named'
      BY <1>1, <1>2 DEF PropertyIInv, DeltasSound
    <2>2. ASSUME delta'[t].at = "facts", NEW q \in delta'[t].places \ delta'[t].left
          PROVE  /\ q \in DOMAIN delta'[t].ids
                 /\ Live(delta[t].ids[q])' =>
                      [id |-> delta'[t].ids[q], sender |-> t, place |-> q] \in attached'
      <3>1. CASE t # s
        BY <1>1, <1>2, <2>2, <3>1 DEF PropertyIInv, DeltasSound, StoredSoFar, Live
      <3>2. CASE t = s /\ q = p
        BY <1>1, <1>2, <2>2, <3>2
      <3>3. CASE t = s /\ q # p
        <4>1. delta[s].at = "facts" /\ q \in delta[s].places \ delta[s].left
          BY <1>1, <1>2, <2>2, <3>3
        <4> QED
          BY <1>1, <1>2, <3>3, <4>1 DEF PropertyIInv, DeltasSound, StoredSoFar, Live
      <3> QED
        BY <3>1, <3>2, <3>3
    <2> QED
      BY <2>1, <2>2 DEF StoredSoFar
  <1> QED
    BY <1>2, <1>3, <1>4, <1>5, <1>6 DEF PropertyIInv

\* What the peer is told is taken is attached, and was attached to a row of its name.
LEMMA PropertyAnswer ==
    ASSUME PropertyIInv, NEW s \in Sender, AnswerDelta(s) \/ RefuseDelta(s)
    PROVE  PropertyIInv'
  <1> DEFINE told == {[sender |-> s, place |-> p] : p \in {p \in delta[s].places : Live(delta[s].ids[p])}}
  <1>1. /\ delta' = [delta EXCEPT ![s] = NoDelta] /\ UNCHANGED <<row, attached, propertyOps, named>>
        /\ \/ answered' = answered
           \/ answered' = answered \cup told /\ delta[s].at = "facts" /\ delta[s].left = {}
    BY DEF AnswerDelta, RefuseDelta
  <1>2. NoDelta \in DeltaState /\ NoDelta.left = {} /\ NoDelta.at = "idle" /\ NoDelta.places = {}
        /\ DOMAIN NoDelta.ids = {}
    <2>1. [p \in {} |-> NotMade] \in [{} -> RowId]
      OBVIOUS
    <2>2. [p \in {} |-> NotMade] \in IdsOf
      BY <2>1 DEF IdsOf
    <2> QED
      BY <2>2 DEF NoDelta, DeltaState
  <1>3. delta' \in [Sender -> DeltaState] /\ delta'[s] = NoDelta
        /\ \A t \in Sender : t # s => delta'[t] = delta[t]
    BY <1>1, <1>2 DEF PropertyIInv, DeltasTyped
  <1>4. DeltasTyped'
    BY <1>2, <1>3 DEF PropertyIInv, DeltasTyped
  <1>5. DeltasSound'
    <2> SUFFICES ASSUME NEW t \in Sender
                 PROVE  /\ \A p \in DOMAIN delta'[t].ids : <<delta'[t].ids[p], p>> \in named'
                        /\ delta'[t].at = "facts" => StoredSoFar(t)'
      BY DEF DeltasSound
    <2>1. CASE t = s
      BY <1>2, <1>3, <2>1
    <2>2. CASE t # s
      BY <1>1, <1>3, <2>2 DEF PropertyIInv, DeltasSound, StoredSoFar, Live
    <2> QED
      BY <2>1, <2>2
  <1>6. RowsTyped' /\ NamesSound'
    BY <1>1 DEF PropertyIInv, RowsTyped, NamesSound, Live
  <1>7. AnswersTyped'
    <2>1. told \subseteq [sender : Sender, place : Canonical]
      BY DEF PropertyIInv, DeltasTyped, DeltaState
    <2> QED
      BY <1>1, <2>1 DEF PropertyIInv, AnswersTyped
  <1>8. AnsweredMeansAttached'
    <2> SUFFICES ASSUME NEW a \in answered'
                 PROVE  \E f \in attached : /\ f.sender = a.sender /\ f.place = a.place
                                            /\ <<f.id, f.place>> \in named
      BY <1>1 DEF AnsweredMeansAttached
    <2>1. CASE a \in answered
      BY <2>1 DEF PropertyIInv, AnsweredMeansAttached
    <2>2. CASE a \notin answered
      <3>1. PICK p \in delta[s].places : Live(delta[s].ids[p]) /\ a = [sender |-> s, place |-> p]
        BY <1>1, <2>2
      <3>2. StoredSoFar(s) /\ delta[s].left = {}
        BY <1>1, <2>2 DEF PropertyIInv, DeltasSound
      <3>3. /\ p \in DOMAIN delta[s].ids
            /\ [id |-> delta[s].ids[p], sender |-> s, place |-> p] \in attached
        BY <3>1, <3>2 DEF StoredSoFar
      <3>4. <<delta[s].ids[p], p>> \in named
        BY <3>3 DEF PropertyIInv, DeltasSound
      <3> QED
        BY <3>1, <3>3, <3>4
    <2> QED
      BY <2>1, <2>2
  <1> QED
    BY <1>4, <1>5, <1>6, <1>7, <1>8 DEF PropertyIInv

LEMMA NextPropertyIInv == PropertyIInv /\ [PropertyNext]_propertyVars => PropertyIInv'
  <1> SUFFICES ASSUME PropertyIInv, [PropertyNext]_propertyVars PROVE PropertyIInv'
    OBVIOUS
  <1>1. ASSUME NEW p \in Canonical, CreateProperty(p) PROVE PropertyIInv'
    BY <1>1, PropertyCreate
  <1>2. ASSUME NEW i \in RowId, DeleteProperty(i) PROVE PropertyIInv'
    BY <1>2, PropertyDelete
  <1>3. ASSUME NEW i \in RowId, NEW p \in Canonical, RenameProperty(i, p) \/ LinkProperty(i, p)
        PROVE  PropertyIInv'
    BY <1>3, PropertyRename
  <1>4. ASSUME NEW s \in Sender, NEW places \in SUBSET Canonical, ReceiveDelta(s, places)
        PROVE  PropertyIInv'
    BY <1>4, PropertyReceive
  <1>5. ASSUME NEW s \in Sender, NEW p \in Canonical, UpsertProperty(s, p) \/ StoreFact(s, p)
        PROVE  PropertyIInv'
    BY <1>5, PropertyUpsert, PropertyStoreFact
  <1>6. ASSUME NEW s \in Sender, ReadIds(s) \/ AnswerDelta(s) \/ RefuseDelta(s)
        PROVE  PropertyIInv'
    BY <1>6, PropertyReadIds, PropertyAnswer
  <1>7. CASE UNCHANGED propertyVars
    BY <1>7 DEF propertyVars, PropertyIInv, RowsTyped, NamesSound, DeltasTyped, DeltasSound,
                StoredSoFar, AnswersTyped, AnsweredMeansAttached, Live
  <1> QED
    BY <1>1, <1>2, <1>3, <1>4, <1>5, <1>6, <1>7 DEF PropertyNext

LEMMA SpecPropertyIInv == PropertySpec => []PropertyIInv
  <1> QED
    BY InitPropertyIInv, NextPropertyIInv, PTL DEF PropertySpec

\* The variables have their types; no two rows that live have one canonical id or one
\* osmId, however deltas and operators interleave.
THEOREM PropertyTypesHold == PropertySpec => []PropertyTypeOK
  <1>1. PropertyIInv => PropertyTypeOK
    <2> SUFFICES ASSUME PropertyIInv PROVE PropertyTypeOK
      OBVIOUS
    <2>1. \A s \in Sender :
            /\ delta[s].at \in {"idle", "upsert", "refused", "facts", "torn"}
            /\ delta[s].left \subseteq delta[s].places /\ delta[s].places \subseteq Canonical
      BY DEF PropertyIInv, DeltasTyped, DeltaState
    <2> QED
      BY <2>1 DEF PropertyIInv, RowsTyped, NamesSound, AnswersTyped, PropertyTypeOK
  <1> QED
    BY <1>1, SpecPropertyIInv, PTL

\* What a peer is told is taken is attached, to a row that is or was of the place it means.
THEOREM AnsweredFactsAreAttached == PropertySpec => []AnsweredMeansAttached
  <1>1. PropertyIInv => AnsweredMeansAttached
    BY DEF PropertyIInv
  <1> QED
    BY <1>1, SpecPropertyIInv, PTL

-----------------------------------------------------------------------------
(* NodeData. *)

RegionOrNone == Bbox \cup {NoBbox}
IdRow == [place : Place, id : 1..MaxIds]
FactRecord == [place : Place, row : FactRow]

\* No two properties have one id, and the next id is later than every other.
PropsSound ==
    /\ property \in [Place -> 0..MaxIds] /\ nextId \in 1..(MaxIds + 1)
    /\ \A p \in Place : property[p] < nextId
    /\ \A p, q \in Known : property[p] = property[q] => p = q

\* Every fact has its property, and is the only one of its key.
FactsSound ==
    /\ factRow \subseteq FactRow /\ \A f \in factRow : f.prop \in Ids
    /\ \A f, g \in factRow : SameKey(f, g) => f = g

\* Properties that were read, with the ids they had.
IdRows(rows) ==
    /\ rows \subseteq IdRow /\ \A r \in rows : r.id < nextId
    /\ \A r, s \in rows : r.place = s.place \/ r.id = s.id => r = s

\* Facts in a file: one for each place, source and scope.
Records(rows) ==
    /\ rows \subseteq FactRecord
    /\ \A r, s \in rows :
         r.place = s.place /\ r.row.source = s.row.source /\ r.row.scope = s.row.scope => r = s

FilesSound ==
    /\ file = [backup |-> file.backup, audits |-> file.audits, all |-> file.all]
    /\ file.backup # NoFile =>
         /\ IdRows(file.backup.properties) /\ file.backup.facts \subseteq FactRow
         /\ file.backup.bbox \in RegionOrNone /\ file.backup.reimport \in BOOLEAN
    /\ file.audits # NoFile => Records(file.audits)
    /\ file.all # NoFile => /\ Records(file.all.facts) /\ file.all.properties \subseteq Place
                            /\ \A r \in file.all.facts : r.place \in file.all.properties

OpTyped ==
    /\ op = [at |-> op.at, old |-> op.old, new |-> op.new, ids |-> op.ids, rows |-> op.rows]
    /\ op.at \in AdminStep /\ op.old \in RegionOrNone /\ op.new \in RegionOrNone

\* While a region that shrinks is purged, what is outside it is on the list to be
\* deleted or came since.
SaveSound ==
    /\ op.at \in {"find", "purge", "purgeGossip", "pending"} => bbox = op.new
    /\ op.at = "purge" => \A p \in Known \ op.new : property[p] \in op.ids \/ p \in intruded
    /\ op.at = "purgeGossip" \/ (op.at = "pending" /\ op.old # NoBbox /\ IsShrink(op.old, op.new))
         => \A p \in Known \ op.new : p \in intruded

BackupSound == op.at = "backup" => IdRows(op.rows)

\* A fact of the backup with the property, source and value of g.
BackupHas(g) ==
    \E h \in file.backup.facts : h.prop = g.prop /\ h.source = g.source /\ h.value = g.value
FactsOfBackup ==
    \A g \in factRow, p \in Known : property[p] = g.prop => p \in touched \/ BackupHas(g)
BroughtBack(f) ==
    \A r \in file.backup.properties : r.id = f.prop /\ r.place \notin intruded =>
        \E g \in factRow : /\ g.prop = r.id /\ g.source = f.source /\ g.scope = "property"
                           /\ r.place \in touched \/ BackupHas(g)
PutBack(r) == r.place \in intruded \/ property[r.place] = r.id

\* What a restore is through with is back, and what it has to go does not meet
\* an id that is taken.
RestoreSound ==
    /\ op.at \in {"wipe", "properties", "facts"} => file.backup # NoFile
    /\ op.at = "properties" =>
         /\ op.rows \subseteq file.backup.properties
         /\ \A r \in op.rows, p \in Known : property[p] # r.id
         /\ \A r \in file.backup.properties \ op.rows : PutBack(r)
         /\ \A p \in Known : p \in intruded \/ \E r \in file.backup.properties \ op.rows : r.place = p
         /\ FactsOfBackup
    /\ op.at = "facts" =>
         /\ op.rows \subseteq file.backup.facts
         /\ \A r \in file.backup.properties : PutBack(r)
         /\ FactsOfBackup
         /\ \A f \in file.backup.facts \ op.rows : BroughtBack(f)

Reattached(r) ==
    \E g \in factRow : /\ SameKey(g, [r.row EXCEPT !.prop = property[r.place]])
                       /\ r.place \in touched \/ g.value = r.row.value
ReattachSound ==
    op.at = "attach" =>
        /\ file.audits # NoFile /\ op.rows \subseteq file.audits /\ op.ids \subseteq Known
        /\ \A r \in file.audits \ op.rows : r.place \in op.ids => Reattached(r)

\* An import has the properties before it writes their facts.
ImportSound ==
    /\ op.at \in {"create", "protect", "insert"} => file.all # NoFile
    /\ op.at = "create" => /\ op.ids \subseteq file.all.properties
                           /\ file.all.properties \ op.ids \subseteq Known
    /\ op.at \in {"protect", "insert"} => file.all.properties \subseteq Known
    /\ op.at = "insert" => op.rows \subseteq file.all.facts

StepSound == SaveSound /\ BackupSound /\ RestoreSound /\ ReattachSound /\ ImportSound

SettingsTyped ==
    /\ bbox \in RegionOrNone /\ reimport \in BOOLEAN
    /\ arriving \subseteq Place /\ intruded \subseteq Place /\ touched \subseteq Place

NodeIInv == PropsSound /\ FactsSound /\ FilesSound /\ OpTyped /\ StepSound /\ SettingsTyped

LEMMA IdleOp ==
    /\ Idle = [at |-> Idle.at, old |-> Idle.old, new |-> Idle.new, ids |-> Idle.ids, rows |-> Idle.rows]
    /\ Idle.at = "idle" /\ Idle.old \in RegionOrNone /\ Idle.new \in RegionOrNone
  BY DEF Idle, RegionOrNone

\* Nothing is asked of an operation that is idle, or about to begin with its tables unread.
LEMMA IdleSound == op.at \in {"idle", "commit"} => StepSound
  BY DEF StepSound, SaveSound, BackupSound, RestoreSound, ReattachSound, ImportSound

LEMMA InitNodeIInv == NodeInit => NodeIInv
  <1> SUFFICES ASSUME NodeInit PROVE NodeIInv
    OBVIOUS
  <1>1. PropsSound /\ FactsSound
    BY NodeDataAssumption DEF NodeInit, PropsSound, FactsSound, Known
  <1>2. FilesSound
    BY DEF NodeInit, FilesSound
  <1>3. OpTyped
    BY IdleOp DEF NodeInit, OpTyped, AdminStep
  <1>4. StepSound
    BY IdleOp, IdleSound DEF NodeInit
  <1> QED
    BY <1>1, <1>2, <1>3, <1>4 DEF NodeInit, NodeIInv, SettingsTyped, RegionOrNone

LEMMA TablesStay ==
    ASSUME PropsSound, FactsSound, UNCHANGED tables
    PROVE  /\ PropsSound' /\ FactsSound' /\ Known' = Known /\ Ids' = Ids
           /\ property' = property /\ factRow' = factRow /\ nextId' = nextId
  BY DEF tables, PropsSound, FactsSound, Known, Ids

\* Files stay right while ids are given.
LEMMA FilesStay ==
    ASSUME FilesSound, file' = file, nextId \in Nat, nextId' \in Nat, nextId <= nextId'
    PROVE  FilesSound'
  <1>1. CASE file.backup = NoFile
    BY <1>1 DEF FilesSound, Records
  <1>2. CASE file.backup # NoFile
    <2>1. IdRows(file.backup.properties)
      BY <1>2 DEF FilesSound
    <2>2. \A r \in file.backup.properties : r.id \in Nat
      BY <2>1 DEF IdRows, IdRow
    <2>3. IdRows(file.backup.properties)'
      BY <2>1, <2>2 DEF IdRows
    <2> QED
      BY <1>2, <2>3 DEF FilesSound, Records
  <1> QED
    BY <1>1, <1>2

\* A property that is made gets an id of its own.
LEMMA FreshId ==
    ASSUME PropsSound, NEW p \in Place, p \notin Known, nextId <= MaxIds,
           property' = [property EXCEPT ![p] = nextId], nextId' = nextId + 1
    PROVE  /\ PropsSound' /\ Known' = Known \cup {p} /\ Ids' = Ids \cup {nextId}
           /\ property'[p] = nextId /\ \A q \in Place : q # p => property'[q] = property[q]
           /\ nextId \in Nat /\ nextId' \in Nat /\ nextId \notin Ids
  <1>1. /\ nextId \in 1..MaxIds /\ nextId' \in 1..(MaxIds + 1) /\ nextId \in Nat /\ nextId > 0
    BY NodeDataAssumption DEF PropsSound
  <1>2. /\ property' \in [Place -> 0..MaxIds] /\ property'[p] = nextId
        /\ \A q \in Place : q # p => property'[q] = property[q]
    BY <1>1 DEF PropsSound
  <1>3. \A q \in Place : property[q] \in Nat /\ property[q] < nextId /\ property[q] # nextId
    BY <1>1 DEF PropsSound
  <1>4. Known' = Known \cup {p}
    BY <1>1, <1>2 DEF Known
  <1>5. Ids' = Ids \cup {nextId}
    BY <1>2, <1>4 DEF Ids, Known
  <1>6. \A q \in Place : property'[q] < nextId'
    BY <1>1, <1>2, <1>3
  <1>7. \A q, r \in Known' : property'[q] = property'[r] => q = r
    BY <1>2, <1>3, <1>4 DEF PropsSound, Known
  <1>8. nextId \notin Ids
    BY <1>3 DEF Ids, Known
  <1> QED
    BY <1>1, <1>2, <1>4, <1>5, <1>6, <1>7, <1>8 DEF PropsSound

\* A fact written over the one of its key.
LEMMA UpsertIs ==
    ASSUME factRow \subseteq FactRow, \A f, g \in factRow : SameKey(f, g) => f = g,
           NEW new \in FactRow
    PROVE  /\ UpsertFact(new) \subseteq FactRow /\ new \in UpsertFact(new)
           /\ \A f, g \in UpsertFact(new) : SameKey(f, g) => f = g
           /\ \A g \in UpsertFact(new) : g \in factRow \/ g = new
           /\ \A g \in factRow : g \in UpsertFact(new) \/ SameKey(new, g)
  BY DEF UpsertFact, SameKey

\* Facts that are created where none of their key is.
LEMMA CreateIs ==
    ASSUME factRow \subseteq FactRow, \A f, g \in factRow : SameKey(f, g) => f = g,
           NEW new \in SUBSET FactRow, \A f, g \in new : SameKey(f, g) => f = g
    PROVE  /\ CreateFacts(new) \subseteq FactRow /\ factRow \subseteq CreateFacts(new)
           /\ \A f, g \in CreateFacts(new) : SameKey(f, g) => f = g
           /\ \A g \in CreateFacts(new) : g \in factRow \/ g \in new
           /\ \A f \in new : \E g \in CreateFacts(new) : SameKey(f, g)
  BY DEF CreateFacts, SameKey

\* The cascade: no fact is left without its property.
LEMMA DropIs ==
    ASSUME PropsSound, FactsSound, NEW ids, DropProperties(ids), nextId' = nextId
    PROVE  /\ PropsSound' /\ FactsSound'
           /\ Known' = {p \in Known : property[p] \notin ids}
           /\ \A p \in Known' : property'[p] = property[p]
           /\ factRow' = {f \in factRow : f.prop \notin ids}
  <1>1. /\ property' \in [Place -> 0..MaxIds]
        /\ \A p \in Place : property'[p] = IF property[p] \in ids THEN 0 ELSE property[p]
        /\ factRow' = {f \in factRow : f.prop \notin ids}
    BY NodeDataAssumption DEF DropProperties, PropsSound
  <1>2. Known' = {p \in Known : property[p] \notin ids}
    BY <1>1 DEF Known
  <1>3. \A p \in Known' : property'[p] = property[p] /\ p \in Known
    BY <1>1, <1>2 DEF Known
  <1>4. PropsSound'
    <2>1. nextId > 0 /\ nextId \in Nat
      BY DEF PropsSound
    <2>2. \A p \in Place : property'[p] < nextId
      BY <1>1, <2>1 DEF PropsSound
    <2> QED
      BY <1>1, <1>3, <2>2 DEF PropsSound
  <1>5. FactsSound'
    <2>1. ASSUME NEW f \in factRow' PROVE f.prop \in Ids'
      <3>1. f \in factRow /\ f.prop \in Ids /\ f.prop \notin ids
        BY <1>1, <2>1 DEF FactsSound
      <3>2. PICK p \in Known : property[p] = f.prop
        BY <3>1 DEF Ids
      <3> QED
        BY <1>2, <1>3, <3>1, <3>2 DEF Ids
    <2> QED
      BY <1>1, <2>1 DEF FactsSound
  <1> QED
    BY <1>1, <1>2, <1>3, <1>4, <1>5

\* What everyone else does meanwhile: a fact of p is written, and p may be new.
OtherWrites(p, f) ==
    /\ PropsSound' /\ nextId \in Nat /\ nextId' \in Nat /\ nextId <= nextId'
    /\ \A q \in Known : q \in Known' /\ property'[q] = property[q]
    /\ \A q \in Known' \ Known : q \in intruded' /\ property'[q] = nextId
    /\ p \in Known' /\ p \in touched' /\ f.prop = property'[p]
    /\ factRow' \in {factRow, UpsertFact(f)}
    /\ intruded \subseteq intruded' /\ intruded' \subseteq Place
    /\ touched \subseteq touched' /\ touched' \subseteq Place
    /\ UNCHANGED <<op, file, bbox, reimport>> /\ arriving' \subseteq Place

LEMMA OthersFacts ==
    ASSUME NodeIInv, NEW p \in Place, NEW f \in FactRow, OtherWrites(p, f)
    PROVE  /\ FactsSound'
           /\ \A g \in factRow' : g \in factRow \/ g = f
           /\ \A g \in factRow : g \in factRow' \/ (SameKey(f, g) /\ f \in factRow')
           /\ \A q \in Known' : property'[q] = f.prop => q = p
           /\ \A g \in factRow, q \in Known' : property'[q] = g.prop => q \in Known
  <1>1. /\ factRow' \subseteq FactRow /\ \A g, h \in factRow' : SameKey(g, h) => g = h
        /\ \A g \in factRow' : g \in factRow \/ g = f
        /\ \A g \in factRow : g \in factRow' \/ (SameKey(f, g) /\ f \in factRow')
    BY UpsertIs DEF NodeIInv, FactsSound, OtherWrites
  <1>2. \A q, r \in Known' : property'[q] = property'[r] => q = r
    BY DEF OtherWrites, PropsSound
  <1>3. \A g \in factRow : \E q \in Known : property[q] = g.prop
    BY DEF NodeIInv, FactsSound, Ids
  <1>4. \A g \in factRow' : g.prop \in Ids'
    BY <1>1, <1>3 DEF OtherWrites, Ids
  <1>5. \A g \in factRow, q \in Known' : property'[q] = g.prop => q \in Known
    BY <1>2, <1>3 DEF OtherWrites
  <1> QED
    BY <1>1, <1>2, <1>4, <1>5 DEF FactsSound, OtherWrites

LEMMA OthersSave ==
    ASSUME NodeIInv, NEW p \in Place, NEW f \in FactRow, OtherWrites(p, f)
    PROVE  SaveSound' /\ BackupSound' /\ ImportSound'
  <1>1. SaveSound'
    BY DEF NodeIInv, StepSound, OtherWrites, SaveSound, IsShrink
  <1>2. BackupSound'
    BY DEF NodeIInv, StepSound, OtherWrites, BackupSound, IdRows, IdRow
  <1>3. ImportSound'
    BY DEF NodeIInv, StepSound, OtherWrites, ImportSound
  <1> QED
    BY <1>1, <1>2, <1>3

LEMMA OthersRestore ==
    ASSUME NodeIInv, NEW p \in Place, NEW f \in FactRow, OtherWrites(p, f)
    PROVE  RestoreSound'
  <1>1. /\ \A g \in factRow' : g \in factRow \/ g = f
        /\ \A g \in factRow : g \in factRow' \/ (SameKey(f, g) /\ f \in factRow')
        /\ \A q \in Known' : property'[q] = f.prop => q = p
        /\ \A g \in factRow, q \in Known' : property'[q] = g.prop => q \in Known
    BY OthersFacts
  <1>2. op' = op /\ file' = file /\ intruded \subseteq intruded' /\ touched \subseteq touched'
        /\ p \in touched' /\ \A q \in Known : q \in Known' /\ property'[q] = property[q]
    BY DEF OtherWrites
  <1>3. CASE op.at = "properties"
    <2>1. /\ file.backup # NoFile /\ op.rows \subseteq file.backup.properties
          /\ \A r \in op.rows, q \in Known : property[q] # r.id
          /\ \A r \in file.backup.properties \ op.rows : PutBack(r)
          /\ \A q \in Known : q \in intruded \/ \E r \in file.backup.properties \ op.rows : r.place = q
          /\ FactsOfBackup /\ IdRows(file.backup.properties)
      BY <1>3 DEF NodeIInv, StepSound, RestoreSound, FilesSound
    <2>2. \A r \in file.backup.properties :
            r.place \in Place /\ r.id \in Nat /\ r.id > 0 /\ r.id < nextId /\ r.id # nextId
      BY <2>1 DEF IdRows, IdRow, OtherWrites
    <2>3. \A r \in op.rows, q \in Known' : property'[q] # r.id
      BY <1>2, <2>1, <2>2 DEF OtherWrites
    <2>4. \A r \in file.backup.properties : property[r.place] = r.id => r.place \in Known
      BY <2>2 DEF Known
    <2>5. \A r \in file.backup.properties \ op.rows : PutBack(r)'
      BY <1>2, <2>1, <2>4 DEF PutBack
    <2>6. \A q \in Known' : q \in intruded' \/ \E r \in file.backup.properties \ op.rows : r.place = q
      BY <1>2, <2>1 DEF OtherWrites
    <2>7. FactsOfBackup'
      BY <1>1, <1>2, <2>1 DEF FactsOfBackup, BackupHas
    <2> QED
      BY <1>2, <1>3, <2>1, <2>3, <2>5, <2>6, <2>7 DEF RestoreSound
  <1>4. CASE op.at = "facts"
    <2>1. /\ file.backup # NoFile /\ op.rows \subseteq file.backup.facts
          /\ \A r \in file.backup.properties : PutBack(r)
          /\ FactsOfBackup /\ IdRows(file.backup.properties)
          /\ \A h \in file.backup.facts \ op.rows : BroughtBack(h)
      BY <1>4 DEF NodeIInv, StepSound, RestoreSound, FilesSound
    <2>2. \A r \in file.backup.properties : r.place \in Place /\ r.id > 0 /\ r.id \in Nat
      BY <2>1 DEF IdRows, IdRow
    <2>3. \A r \in file.backup.properties : property[r.place] = r.id => r.place \in Known
      BY <2>2 DEF Known
    <2>4. \A r \in file.backup.properties : PutBack(r)'
      BY <1>2, <2>1, <2>3 DEF PutBack
    <2>5. FactsOfBackup'
      BY <1>1, <1>2, <2>1 DEF FactsOfBackup, BackupHas
    <2>6. ASSUME NEW h \in file.backup.facts \ op.rows, NEW r \in file.backup.properties,
                 r.id = h.prop, r.place \notin intruded'
          PROVE  \E g \in factRow' : /\ g.prop = r.id /\ g.source = h.source /\ g.scope = "property"
                                     /\ r.place \in touched' \/ BackupHas(g)
      <3>1. PICK g \in factRow : /\ g.prop = r.id /\ g.source = h.source /\ g.scope = "property"
                                 /\ r.place \in touched \/ BackupHas(g)
        BY <1>2, <2>1, <2>6 DEF BroughtBack
      <3>2. CASE g \in factRow'
        BY <1>2, <3>1, <3>2
      <3>3. CASE g \notin factRow'
        <4>1. SameKey(f, g) /\ f \in factRow'
          BY <1>1, <3>3
        <4>2. r.place \in Known /\ property[r.place] = r.id
          BY <1>2, <2>1, <2>3, <2>6 DEF PutBack
        <4>3. r.place = p
          BY <1>1, <1>2, <3>1, <4>1, <4>2 DEF SameKey
        <4> QED
          BY <1>2, <3>1, <4>1, <4>3 DEF SameKey
      <3> QED
        BY <3>2, <3>3
    <2>7. \A h \in file.backup.facts \ op.rows : BroughtBack(h)'
      BY <1>2, <2>6 DEF BroughtBack, BackupHas
    <2> QED
      BY <1>2, <1>4, <2>1, <2>4, <2>5, <2>7 DEF RestoreSound
  <1>5. CASE op.at \notin {"properties", "facts"}
    BY <1>2, <1>5 DEF NodeIInv, StepSound, RestoreSound
  <1> QED
    BY <1>3, <1>4, <1>5

LEMMA OthersReattach ==
    ASSUME NodeIInv, NEW p \in Place, NEW f \in FactRow, OtherWrites(p, f)
    PROVE  ReattachSound'
  <1>1. /\ \A g \in factRow : g \in factRow' \/ (SameKey(f, g) /\ f \in factRow')
        /\ \A q \in Known' : property'[q] = f.prop => q = p
    BY OthersFacts
  <1>2. op' = op /\ file' = file /\ touched \subseteq touched' /\ p \in touched'
        /\ \A q \in Known : q \in Known' /\ property'[q] = property[q]
    BY DEF OtherWrites
  <1> SUFFICES ASSUME op.at = "attach" PROVE ReattachSound'
    BY <1>2 DEF ReattachSound
  <1>3. /\ file.audits # NoFile /\ op.rows \subseteq file.audits /\ op.ids \subseteq Known
        /\ \A r \in file.audits \ op.rows : r.place \in op.ids => Reattached(r)
        /\ file.audits \subseteq FactRecord
    BY DEF NodeIInv, StepSound, ReattachSound, FilesSound, Records
  <1>4. ASSUME NEW r \in file.audits \ op.rows, r.place \in op.ids
        PROVE  Reattached(r)'
    <2> DEFINE moved == [r.row EXCEPT !.prop = property[r.place]]
    <2>1. PICK g \in factRow : SameKey(g, moved) /\ (r.place \in touched \/ g.value = r.row.value)
      BY <1>3, <1>4 DEF Reattached
    <2>2. property'[r.place] = property[r.place] /\ r.place \in Known'
      BY <1>2, <1>3, <1>4
    <2>3. moved.prop = property[r.place]
      BY <1>3 DEF FactRecord, FactRow
    <2>4. CASE g \in factRow'
      BY <1>2, <2>1, <2>2, <2>4 DEF Reattached
    <2>5. CASE g \notin factRow'
      <3>1. SameKey(f, g) /\ f \in factRow'
        BY <1>1, <2>5
      <3>2. SameKey(f, moved) /\ f.prop = property'[r.place]
        BY <2>1, <2>2, <2>3, <3>1 DEF SameKey
      <3>3. r.place \in touched'
        BY <1>1, <1>2, <2>2, <3>2
      <3> QED
        BY <2>2, <3>1, <3>2, <3>3 DEF Reattached
    <2> QED
      BY <2>4, <2>5
  <1> QED
    BY <1>2, <1>3, <1>4 DEF ReattachSound

LEMMA OthersKeep ==
    ASSUME NodeIInv, NEW p \in Place, NEW f \in FactRow, OtherWrites(p, f)
    PROVE  NodeIInv'
  <1>1. PropsSound' /\ FactsSound' /\ StepSound'
    BY OthersFacts, OthersSave, OthersRestore, OthersReattach DEF OtherWrites, StepSound
  <1>2. FilesSound'
    BY FilesStay DEF NodeIInv, OtherWrites
  <1>3. OpTyped' /\ SettingsTyped'
    BY DEF NodeIInv, OpTyped, SettingsTyped, OtherWrites
  <1> QED
    BY <1>1, <1>2, <1>3 DEF NodeIInv

LEMMA NodeAudit ==
    ASSUME NodeIInv, NEW p \in Place, NEW v \in FactValue, NEW scope \in FactScope,
           Audit(p, scope, v)
    PROVE  NodeIInv'
  <1> DEFINE f == [prop |-> property[p], source |-> "local", scope |-> scope, value |-> v]
  <1>1. p \in Known /\ UNCHANGED <<bbox, reimport, property, nextId, arriving, file, op, intruded>>
        /\ factRow' = UpsertFact(f) /\ touched' = touched \cup {p}
    BY DEF Audit, settings, admin
  <1>2. f \in FactRow
    <2>1. property[p] \in 1..MaxIds
      BY <1>1, NodeDataAssumption DEF Known, NodeIInv, PropsSound
    <2> QED
      BY <2>1 DEF FactRow, FactSource
  <1> HIDE DEF f
  <1>3. f.prop = property[p]
    BY DEF f
  <1>4. PropsSound' /\ Known' = Known
    BY <1>1 DEF NodeIInv, PropsSound, Known
  <1>5. nextId \in Nat
    BY DEF NodeIInv, PropsSound
  <1>6. OtherWrites(p, f)
    BY <1>1, <1>3, <1>4, <1>5 DEF OtherWrites, NodeIInv, SettingsTyped
  <1> QED
    BY <1>2, <1>6, OthersKeep

LEMMA NodeCreate ==
    ASSUME NodeIInv, NEW p \in Place, NEW v \in FactValue, NEW source \in {"osm", "remote"},
           Create(p, source, v), UNCHANGED <<bbox, reimport, file, op>>, arriving' \subseteq Place
    PROVE  NodeIInv'
  <1> DEFINE id == IF p \in Known THEN property[p] ELSE nextId
             f == [prop |-> id, source |-> source, scope |-> "property", value |-> v]
  <1>1. /\ id <= MaxIds /\ nextId' = (IF p \in Known THEN nextId ELSE nextId + 1)
        /\ property' = [property EXCEPT ![p] = id]
        /\ factRow' \in {factRow, UpsertFact(f)}
        /\ intruded' = (IF p \in Known THEN intruded ELSE intruded \cup {p})
        /\ touched' = touched \cup {p}
    BY DEF Create
  <1>2. /\ property \in [Place -> 0..MaxIds] /\ nextId \in Nat /\ nextId \in 1..(MaxIds + 1)
        /\ PropsSound
    BY DEF NodeIInv, PropsSound
  <1>3. id \in 1..MaxIds
    BY <1>1, <1>2, NodeDataAssumption DEF Known
  <1>4. f \in FactRow /\ f.prop = id
    BY <1>3 DEF FactRow, FactSource, FactScope
  <1> HIDE DEF f
  <1>5. CASE p \in Known
    <2>1. property' = property /\ nextId' = nextId /\ id = property[p]
      BY <1>1, <1>2, <1>5
    <2>2. PropsSound' /\ Known' = Known
      BY <1>2, <2>1 DEF PropsSound, Known
    <2>3. OtherWrites(p, f)
      BY <1>1, <1>2, <1>4, <1>5, <2>1, <2>2 DEF OtherWrites, NodeIInv, SettingsTyped
    <2> QED
      BY <1>4, <2>3, OthersKeep
  <1>6. CASE p \notin Known
    <2>1. /\ PropsSound' /\ Known' = Known \cup {p} /\ property'[p] = nextId
          /\ \A q \in Place : q # p => property'[q] = property[q]
      BY <1>1, <1>2, <1>6, FreshId
    <2>2. Known \subseteq Place /\ nextId <= nextId' /\ nextId' \in Nat
      BY <1>1, <1>2 DEF Known
    <2>3. OtherWrites(p, f)
      BY <1>1, <1>2, <1>4, <1>6, <2>1, <2>2 DEF OtherWrites, NodeIInv, SettingsTyped
    <2> QED
      BY <1>4, <2>3, OthersKeep
  <1> QED
    BY <1>5, <1>6

LEMMA NodeOthers ==
    ASSUME NodeIInv, NEW p \in Place, NEW v \in FactValue, IngestOsm(p, v) \/ StoreGossip(p, v)
    PROVE  NodeIInv'
  <1>1. \E source \in {"osm", "remote"} : Create(p, source, v)
    BY DEF IngestOsm, StoreGossip
  <1>2. UNCHANGED <<bbox, reimport, file, op>> /\ arriving' \subseteq arriving
    BY DEF IngestOsm, StoreGossip, settings, admin
  <1>3. arriving' \subseteq Place
    BY <1>2 DEF NodeIInv, SettingsTyped
  <1> QED
    BY <1>1, <1>2, <1>3, NodeCreate

\* What a step that leaves the tables and the files alone has of the invariant.
LEMMA StepKeeps ==
    ASSUME NodeIInv, UNCHANGED tables, file' = file
    PROVE  /\ PropsSound' /\ FactsSound' /\ FilesSound' /\ Known' = Known /\ Ids' = Ids
           /\ property' = property /\ factRow' = factRow /\ nextId' = nextId
  <1>1. PropsSound /\ FactsSound /\ FilesSound /\ nextId \in Nat
    BY DEF NodeIInv, PropsSound
  <1>2. nextId' = nextId
    BY DEF tables
  <1> QED
    BY <1>1, <1>2, TablesStay, FilesStay

LEMMA NodeFilter == ASSUME NodeIInv, NEW p \in Place, FilterGossip(p) PROVE NodeIInv'
  <1>1. UNCHANGED <<bbox, reimport, property, factRow, nextId, file, op, intruded, touched>>
        /\ UNCHANGED tables /\ arriving' = arriving \cup {p}
    BY DEF FilterGossip, settings, tables, admin
  <1>2. PropsSound' /\ FactsSound' /\ FilesSound' /\ Known' = Known
    BY <1>1, StepKeeps
  <1>3. StepSound'
    <2>1. SaveSound' /\ BackupSound' /\ ImportSound'
      BY <1>1, <1>2 DEF NodeIInv, StepSound, SaveSound, BackupSound, ImportSound, IdRows
    <2>2. RestoreSound'
      BY <1>1, <1>2
      DEF NodeIInv, StepSound, RestoreSound, PutBack, FactsOfBackup, BackupHas, BroughtBack
    <2>3. ReattachSound'
      BY <1>1, <1>2 DEF NodeIInv, StepSound, ReattachSound, Reattached
    <2> QED
      BY <2>1, <2>2, <2>3 DEF StepSound
  <1> QED
    BY <1>1, <1>2, <1>3 DEF NodeIInv, OpTyped, SettingsTyped

LEMMA NodePlanSave == ASSUME NodeIInv, NEW new \in Bbox, PlanSave(new) PROVE NodeIInv'
  <1> DEFINE state == [Idle EXCEPT !.at = "commit", !.old = bbox, !.new = new]
  <1>1. op' = state /\ intruded' = {} /\ touched' = {}
        /\ UNCHANGED <<bbox, reimport, arriving, file>> /\ UNCHANGED tables
    BY DEF PlanSave, Begin, settings, tables, beginning
  <1>2. op'.at = "commit" /\ op'.old = bbox /\ op'.new = new
        /\ op' = [at |-> op'.at, old |-> op'.old, new |-> op'.new, ids |-> op'.ids, rows |-> op'.rows]
    BY <1>1 DEF Idle
  <1>3. StepSound'
    BY <1>2, IdleSound DEF StepSound, SaveSound, BackupSound, RestoreSound, ReattachSound, ImportSound
  <1> QED
    BY <1>1, <1>2, <1>3, StepKeeps
    DEF NodeIInv, OpTyped, SettingsTyped, AdminStep, RegionOrNone

LEMMA NodeCommit == ASSUME NodeIInv, CommitNodeBbox PROVE NodeIInv'
  <1>1. /\ op.at = "commit" /\ bbox' = op.new /\ UNCHANGED <<reimport, file, arriving, intruded, touched>>
        /\ UNCHANGED tables
    BY DEF CommitNodeBbox, others
  <1>2. PICK change \in BboxChanges(op.old, op.new) :
          op' = [op EXCEPT !.at = IF change = "shrink" THEN "find" ELSE "pending", !.rows = {change}]
    BY DEF CommitNodeBbox
  <1>3. /\ op'.at \in {"find", "pending"} /\ op'.old = op.old /\ op'.new = op.new
        /\ op'.at = "pending" => change # "shrink"
        /\ op' = [at |-> op'.at, old |-> op'.old, new |-> op'.new, ids |-> op'.ids, rows |-> op'.rows]
    BY <1>2 DEF NodeIInv, OpTyped
  <1>4. ~(op'.at = "pending" /\ op.old # NoBbox /\ IsShrink(op.old, op.new))
    <2> SUFFICES ASSUME op.old # NoBbox, IsShrink(op.old, op.new) PROVE change = "shrink"
      BY <1>3
    <2>1. op.old # op.new /\ ~IsExpand(op.old, op.new)
      BY DEF IsShrink, IsExpand
    <2>2. BboxChanges(op.old, op.new) = {"shrink"}
      BY <2>1, Zenon DEF BboxChanges
    <2> QED
      BY <2>2
  <1>5. StepSound'
    <2>1. SaveSound'
      BY <1>1, <1>3, <1>4 DEF SaveSound, IsShrink
    <2> QED
      BY <1>3, <2>1 DEF StepSound, BackupSound, RestoreSound, ReattachSound, ImportSound
  <1> QED
    BY <1>1, <1>3, <1>5, StepKeeps DEF NodeIInv, OpTyped, SettingsTyped, AdminStep

LEMMA NodeFind == ASSUME NodeIInv, FindOutside PROVE NodeIInv'
  <1>1. /\ op.at = "find" /\ op' = [op EXCEPT !.at = "purge", !.ids = Outside(op.new)]
        /\ UNCHANGED <<bbox, reimport, file, arriving, intruded, touched>> /\ UNCHANGED tables
    BY DEF FindOutside, others, settings
  <1>2. /\ op'.at = "purge" /\ op'.old = op.old /\ op'.new = op.new /\ op'.ids = Outside(op.new)
        /\ op' = [at |-> op'.at, old |-> op'.old, new |-> op'.new, ids |-> op'.ids, rows |-> op'.rows]
    BY <1>1 DEF NodeIInv, OpTyped
  <1>3. PropsSound' /\ FactsSound' /\ FilesSound' /\ Known' = Known /\ property' = property
    BY <1>1, StepKeeps
  <1>4. SaveSound'
    BY <1>1, <1>2, <1>3 DEF NodeIInv, StepSound, SaveSound, Outside
  <1> QED
    BY <1>1, <1>2, <1>3, <1>4
    DEF NodeIInv, OpTyped, SettingsTyped, AdminStep,
        StepSound, BackupSound, RestoreSound, ReattachSound, ImportSound

LEMMA NodePurge == ASSUME NodeIInv, PurgeOutside PROVE NodeIInv'
  <1>1. /\ op.at = "purge" /\ op' = [op EXCEPT !.at = "purgeGossip"] /\ nextId' = nextId
        /\ UNCHANGED <<bbox, reimport, file, arriving, intruded, touched>> /\ DropProperties(op.ids)
    BY DEF PurgeOutside, GoOn, others, settings
  <1>2. /\ op'.at = "purgeGossip" /\ op'.old = op.old /\ op'.new = op.new
        /\ op' = [at |-> op'.at, old |-> op'.old, new |-> op'.new, ids |-> op'.ids, rows |-> op'.rows]
    BY <1>1 DEF NodeIInv, OpTyped
  <1>3. PropsSound' /\ FactsSound' /\ Known' = {p \in Known : property[p] \notin op.ids}
    BY <1>1, DropIs DEF NodeIInv
  <1>4. FilesSound'
    BY <1>1, FilesStay DEF NodeIInv, PropsSound
  <1>5. SaveSound'
    BY <1>1, <1>2, <1>3 DEF NodeIInv, StepSound, SaveSound
  <1> QED
    BY <1>1, <1>2, <1>3, <1>4, <1>5
    DEF NodeIInv, OpTyped, SettingsTyped, AdminStep,
        StepSound, BackupSound, RestoreSound, ReattachSound, ImportSound

LEMMA NodePurgeGossip == ASSUME NodeIInv, PurgeGossipOutside PROVE NodeIInv'
  <1>1. /\ op.at = "purgeGossip" /\ op' = [op EXCEPT !.at = "pending"]
        /\ UNCHANGED <<bbox, reimport, property, nextId, file, arriving, intruded, touched>>
        /\ factRow' \subseteq factRow
    BY DEF PurgeGossipOutside, GoOn, others, settings
  <1>2. /\ op'.at = "pending" /\ op'.old = op.old /\ op'.new = op.new
        /\ op' = [at |-> op'.at, old |-> op'.old, new |-> op'.new, ids |-> op'.ids, rows |-> op'.rows]
    BY <1>1 DEF NodeIInv, OpTyped
  <1>3. PropsSound' /\ FactsSound' /\ Known' = Known
    BY <1>1 DEF NodeIInv, PropsSound, FactsSound, Known, Ids
  <1>4. FilesSound'
    BY <1>1, FilesStay DEF NodeIInv, PropsSound
  <1>5. SaveSound'
    BY <1>1, <1>2, <1>3 DEF NodeIInv, StepSound, SaveSound
  <1> QED
    BY <1>1, <1>2, <1>3, <1>4, <1>5
    DEF NodeIInv, OpTyped, SettingsTyped, AdminStep,
        StepSound, BackupSound, RestoreSound, ReattachSound, ImportSound

\* An operation that ends, or is done in one step.
LEMMA StepEnds ==
    ASSUME PropsSound', FactsSound', FilesSound', SettingsTyped', op' = Idle
    PROVE  NodeIInv'
  <1>1. OpTyped'
    BY IdleOp DEF OpTyped, AdminStep
  <1>2. StepSound'
    BY IdleOp DEF StepSound, SaveSound, BackupSound, RestoreSound, ReattachSound, ImportSound
  <1> QED
    BY <1>1, <1>2 DEF NodeIInv

LEMMA NodePending == ASSUME NodeIInv, SetReimportPending PROVE NodeIInv'
  <1>1. /\ op' = Idle /\ reimport' \in BOOLEAN /\ UNCHANGED <<bbox, file, arriving, intruded, touched>>
        /\ UNCHANGED tables
    BY DEF SetReimportPending, others
  <1> QED
    BY <1>1, StepKeeps, StepEnds DEF NodeIInv, SettingsTyped

LEMMA NodeStartBackup == ASSUME NodeIInv, StartBackup PROVE NodeIInv'
  <1> DEFINE rows == {[place |-> p, id |-> property[p]] : p \in Known}
  <1>1. /\ op' = [Idle EXCEPT !.at = "backup", !.rows = rows] /\ intruded' = {} /\ touched' = {}
        /\ UNCHANGED <<bbox, reimport, arriving, file>> /\ UNCHANGED tables
    BY DEF StartBackup, Begin, settings, tables, beginning
  <1>2. /\ op'.at = "backup" /\ op'.old = Idle.old /\ op'.new = Idle.new /\ op'.rows = rows
        /\ op' = [at |-> op'.at, old |-> op'.old, new |-> op'.new, ids |-> op'.ids, rows |-> op'.rows]
    BY <1>1 DEF Idle
  <1>3. IdRows(rows)
    <2>1. \A p \in Known : p \in Place /\ property[p] \in 1..MaxIds /\ property[p] < nextId
      BY NodeDataAssumption DEF NodeIInv, PropsSound, Known
    <2>2. \A p, q \in Known : property[p] = property[q] => p = q
      BY DEF NodeIInv, PropsSound
    <2> QED
      BY <2>1, <2>2 DEF IdRows, IdRow
  <1> HIDE DEF rows
  <1>4. PropsSound' /\ FactsSound' /\ FilesSound' /\ nextId' = nextId
    BY <1>1, StepKeeps
  <1>5. BackupSound'
    BY <1>2, <1>3, <1>4 DEF BackupSound, IdRows
  <1> QED
    BY <1>1, <1>2, <1>4, <1>5, IdleOp
    DEF NodeIInv, OpTyped, SettingsTyped, AdminStep,
        StepSound, SaveSound, RestoreSound, ReattachSound, ImportSound

LEMMA NodeFinishBackup == ASSUME NodeIInv, FinishBackup PROVE NodeIInv'
  <1> DEFINE saved == [properties |-> op.rows, facts |-> factRow, bbox |-> bbox, reimport |-> reimport]
  <1>1. /\ op.at = "backup" /\ op' = Idle /\ file' = [file EXCEPT !.backup = saved]
        /\ UNCHANGED <<bbox, reimport, arriving, intruded, touched>> /\ UNCHANGED tables
    BY DEF FinishBackup, settings, tables, others
  <1>2. PropsSound' /\ FactsSound' /\ nextId' = nextId
    BY <1>1, TablesStay DEF NodeIInv
  <1>3. IdRows(saved.properties) /\ saved.facts \subseteq FactRow
        /\ saved.bbox \in RegionOrNone /\ saved.reimport \in BOOLEAN
    BY <1>1 DEF NodeIInv, StepSound, BackupSound, FactsSound, SettingsTyped
  <1> HIDE DEF saved
  <1>4. /\ file'.backup = saved /\ file'.audits = file.audits /\ file'.all = file.all
        /\ file' = [backup |-> file'.backup, audits |-> file'.audits, all |-> file'.all]
    BY <1>1 DEF NodeIInv, FilesSound
  <1>5. FilesSound'
    BY <1>2, <1>3, <1>4 DEF NodeIInv, FilesSound, IdRows, Records
  <1> QED
    BY <1>1, <1>2, <1>5, StepEnds DEF NodeIInv, SettingsTyped

\* Facts in a file are told apart by place, source and scope.
LEMMA WrittenIs ==
    ASSUME PropsSound, FactsSound, NEW fs \in SUBSET factRow
    PROVE  Records(Written(fs)) /\ \A r \in Written(fs) : r.place \in Known
  <1>1. ASSUME NEW f \in fs
        PROVE  PlaceOf(f.prop) \in Known /\ property[PlaceOf(f.prop)] = f.prop /\ f \in FactRow
    <2>1. f \in factRow /\ f \in FactRow /\ f.prop \in Ids
      BY DEF FactsSound
    <2>2. \E p \in Place : property[p] = f.prop
      BY <2>1 DEF Ids, Known
    <2>3. PlaceOf(f.prop) \in Place /\ property[PlaceOf(f.prop)] = f.prop
      BY <2>2 DEF PlaceOf
    <2>4. f.prop # 0
      BY <2>1 DEF Ids, Known
    <2> QED
      BY <2>1, <2>3, <2>4 DEF Known
  <1>2. \A r \in Written(fs) : r.row \in fs /\ r = [place |-> PlaceOf(r.row.prop), row |-> r.row]
    BY DEF Written
  <1>3. \A r \in Written(fs) : /\ r.place \in Known /\ r.place \in Place /\ r.row.prop = property[r.place]
                               /\ r \in FactRecord
    BY <1>1, <1>2 DEF Known, FactRecord
  <1>4. ASSUME NEW r \in Written(fs), NEW s \in Written(fs),
               r.place = s.place, r.row.source = s.row.source, r.row.scope = s.row.scope
        PROVE  r = s
    <2>1. SameKey(r.row, s.row)
      BY <1>3, <1>4 DEF SameKey
    <2>2. r.row = s.row
      BY <1>2, <2>1 DEF FactsSound
    <2> QED
      BY <1>2, <2>2
  <1> QED
    BY <1>3, <1>4 DEF Records

LEMMA NodeExport == ASSUME NodeIInv, ExportAudits \/ ExportAll PROVE NodeIInv'
  <1>1. /\ op' = Idle /\ intruded' = {} /\ touched' = {} /\ UNCHANGED <<bbox, reimport, arriving>>
        /\ UNCHANGED tables
    BY DEF ExportAudits, ExportAll, Begin, settings, tables, beginning
  <1>2. PropsSound' /\ FactsSound' /\ nextId' = nextId
    BY <1>1, TablesStay DEF NodeIInv
  <1>3. FilesSound'
    <2>1. CASE ExportAudits
      <3> DEFINE rows == Written({f \in factRow : f.source # "osm"})
      <3>1. Records(rows)
        BY WrittenIs DEF NodeIInv
      <3>2. file' = [file EXCEPT !.audits = rows]
        BY <2>1 DEF ExportAudits
      <3> HIDE DEF rows
      <3>3. /\ file'.backup = file.backup /\ file'.audits = rows /\ file'.all = file.all
            /\ file' = [backup |-> file'.backup, audits |-> file'.audits, all |-> file'.all]
        BY <3>2 DEF NodeIInv, FilesSound
      <3> QED
        BY <1>2, <3>1, <3>3 DEF NodeIInv, FilesSound, IdRows, Records
    <2>2. CASE ExportAll
      <3> DEFINE saved == [properties |-> Known, facts |-> Written(factRow)]
      <3>1. Records(Written(factRow)) /\ (\A r \in Written(factRow) : r.place \in Known)
        BY WrittenIs DEF NodeIInv
      <3>2. /\ Records(saved.facts) /\ saved.properties \subseteq Place
            /\ \A r \in saved.facts : r.place \in saved.properties
        BY <3>1 DEF Known
      <3>3. file' = [file EXCEPT !.all = saved]
        BY <2>2 DEF ExportAll
      <3> HIDE DEF saved
      <3>4. /\ file'.backup = file.backup /\ file'.audits = file.audits /\ file'.all = saved
            /\ file' = [backup |-> file'.backup, audits |-> file'.audits, all |-> file'.all]
        BY <3>3 DEF NodeIInv, FilesSound
      <3> QED
        BY <1>2, <3>2, <3>4 DEF NodeIInv, FilesSound, IdRows, Records
    <2> QED
      BY <2>1, <2>2
  <1> QED
    BY <1>1, <1>2, <1>3, StepEnds DEF NodeIInv, SettingsTyped

LEMMA NodeStartRestore == ASSUME NodeIInv, StartRestore PROVE NodeIInv'
  <1>1. /\ op' = [Idle EXCEPT !.at = "wipe"] /\ intruded' = {} /\ touched' = {}
        /\ file.backup # NoFile /\ UNCHANGED <<bbox, reimport, arriving, file>> /\ UNCHANGED tables
    BY DEF StartRestore, Begin, settings, tables, beginning
  <1>2. /\ op'.at = "wipe" /\ op'.old = Idle.old /\ op'.new = Idle.new
        /\ op' = [at |-> op'.at, old |-> op'.old, new |-> op'.new, ids |-> op'.ids, rows |-> op'.rows]
    BY <1>1 DEF Idle
  <1>3. PropsSound' /\ FactsSound' /\ FilesSound'
    BY <1>1, StepKeeps
  <1>4. RestoreSound'
    BY <1>1, <1>2 DEF RestoreSound
  <1> QED
    BY <1>1, <1>2, <1>3, <1>4, IdleOp
    DEF NodeIInv, OpTyped, SettingsTyped, AdminStep,
        StepSound, SaveSound, BackupSound, ReattachSound, ImportSound

LEMMA NodeWipe == ASSUME NodeIInv, Wipe PROVE NodeIInv'
  <1>1. /\ op.at = "wipe" /\ op' = [op EXCEPT !.at = "properties", !.rows = file.backup.properties]
        /\ UNCHANGED <<bbox, reimport, nextId, file, arriving, intruded, touched>> /\ DropProperties(Ids)
    BY DEF Wipe, settings, others
  <1>2. /\ op'.at = "properties" /\ op'.old = op.old /\ op'.new = op.new
        /\ op'.rows = file.backup.properties
        /\ op' = [at |-> op'.at, old |-> op'.old, new |-> op'.new, ids |-> op'.ids, rows |-> op'.rows]
    BY <1>1 DEF NodeIInv, OpTyped
  <1>3. PropsSound' /\ FactsSound' /\ Known' = {} /\ factRow' = {}
    <2>1. /\ PropsSound' /\ FactsSound' /\ Known' = {p \in Known : property[p] \notin Ids}
          /\ factRow' = {f \in factRow : f.prop \notin Ids}
      BY <1>1, DropIs DEF NodeIInv
    <2> QED
      BY <2>1 DEF NodeIInv, FactsSound, Ids
  <1>4. FilesSound'
    BY <1>1, FilesStay DEF NodeIInv, PropsSound
  <1>5. file.backup # NoFile
    BY <1>1 DEF NodeIInv, StepSound, RestoreSound
  <1>6. RestoreSound'
    BY <1>1, <1>2, <1>3, <1>5 DEF RestoreSound, FactsOfBackup
  <1> QED
    BY <1>1, <1>2, <1>3, <1>4, <1>6
    DEF NodeIInv, OpTyped, SettingsTyped, AdminStep,
        StepSound, SaveSound, BackupSound, ReattachSound, ImportSound

\* What a restore of properties and facts knows of the file it reads.
LEMMA BackupRead ==
    ASSUME NodeIInv, op.at \in {"properties", "facts"}
    PROVE  /\ file.backup # NoFile /\ FactsOfBackup
           /\ IdRows(file.backup.properties) /\ file.backup.facts \subseteq FactRow
           /\ \A r \in file.backup.properties : /\ r.place \in Place /\ r.id \in 1..MaxIds
                                                /\ r.id # 0 /\ r.id < nextId
           /\ \A r, s \in file.backup.properties : r.place = s.place \/ r.id = s.id => r = s
           /\ \A r \in file.backup.properties : property[r.place] = r.id => r.place \in Known
  <1>1. /\ file.backup # NoFile /\ FactsOfBackup
        /\ IdRows(file.backup.properties) /\ file.backup.facts \subseteq FactRow
    BY DEF NodeIInv, StepSound, RestoreSound, FilesSound
  <1>2. \A r \in file.backup.properties : /\ r.place \in Place /\ r.id \in 1..MaxIds
                                          /\ r.id # 0 /\ r.id < nextId
    BY <1>1 DEF IdRows, IdRow
  <1> QED
    BY <1>1, <1>2 DEF IdRows, Known

LEMMA NodeRestoreProperty == ASSUME NodeIInv, RestoreProperty PROVE NodeIInv'
  <1>1. op.at = "properties" /\ UNCHANGED <<bbox, reimport, factRow, nextId, file, arriving, intruded, touched>>
    BY DEF RestoreProperty, settings, others
  <1>2. /\ op.rows \subseteq file.backup.properties
        /\ \A r \in op.rows, p \in Known : property[p] # r.id
        /\ \A r \in file.backup.properties \ op.rows : PutBack(r)
        /\ \A p \in Known : p \in intruded \/ \E r \in file.backup.properties \ op.rows : r.place = p
    BY <1>1 DEF NodeIInv, StepSound, RestoreSound
  <1>3. FilesSound'
    BY <1>1, FilesStay DEF NodeIInv, PropsSound
  <1>4. CASE op.rows = {}
    <2>1. op' = [op EXCEPT !.at = "facts", !.rows = file.backup.facts] /\ UNCHANGED tables
      BY <1>1, <1>4 DEF RestoreProperty, tables
    <2>2. /\ op'.at = "facts" /\ op'.old = op.old /\ op'.new = op.new /\ op'.rows = file.backup.facts
          /\ op' = [at |-> op'.at, old |-> op'.old, new |-> op'.new, ids |-> op'.ids, rows |-> op'.rows]
      BY <2>1 DEF NodeIInv, OpTyped
    <2>3. PropsSound' /\ FactsSound' /\ Known' = Known /\ property' = property
      BY <1>1, <2>1, StepKeeps
    <2>4. RestoreSound'
      BY <1>1, <1>2, <1>4, <2>2, <2>3, BackupRead
      DEF RestoreSound, PutBack, FactsOfBackup, BackupHas
    <2> QED
      BY <1>1, <1>3, <2>2, <2>3, <2>4
      DEF NodeIInv, OpTyped, SettingsTyped, AdminStep,
          StepSound, SaveSound, BackupSound, ReattachSound, ImportSound
  <1>5. CASE op.rows # {}
    <2>1. PICK r \in op.rows :
            /\ op' = [op EXCEPT !.rows = @ \ {r}]
            /\ property' = IF r.place \in Known THEN property ELSE [property EXCEPT ![r.place] = r.id]
      BY <1>5 DEF RestoreProperty
    <2>2. /\ op'.at = "properties" /\ op'.old = op.old /\ op'.new = op.new /\ op'.rows = op.rows \ {r}
          /\ op' = [at |-> op'.at, old |-> op'.old, new |-> op'.new, ids |-> op'.ids, rows |-> op'.rows]
      BY <1>1, <2>1 DEF NodeIInv, OpTyped
    <2>3. r \in file.backup.properties /\ r.place \in Place /\ r.id \in 1..MaxIds /\ r.id # 0 /\ r.id < nextId
      BY <1>1, <1>2, BackupRead
    <2>4. /\ PropsSound' /\ FactsSound' /\ PutBack(r)' /\ Known' = Known \cup {r.place}
          /\ \A p \in Known : property'[p] = property[p]
          /\ r.place \in Known \/ property'[r.place] = r.id
      <3>1. CASE r.place \in Known
        <4>1. property' = property /\ UNCHANGED tables
          BY <1>1, <2>1, <3>1 DEF tables
        <4>2. r.place \in intruded
          <5>1. ASSUME NEW s \in file.backup.properties \ op.rows PROVE s.place # r.place
            BY <1>1, <2>3, <5>1, BackupRead
          <5> QED
            BY <1>2, <3>1, <5>1
        <4> QED
          BY <1>1, <3>1, <4>1, <4>2, TablesStay DEF NodeIInv, PutBack
      <3>2. CASE r.place \notin Known
        <4>1. /\ property' \in [Place -> 0..MaxIds] /\ property'[r.place] = r.id
              /\ \A p \in Place : p # r.place => property'[p] = property[p]
          BY <2>1, <2>3, <3>2, NodeDataAssumption DEF NodeIInv, PropsSound
        <4>2. Known' = Known \cup {r.place} /\ \A p \in Known : property'[p] = property[p]
          BY <2>3, <3>2, <4>1 DEF Known
        <4>3. \A p \in Place : property'[p] < nextId'
          BY <1>1, <2>3, <4>1 DEF NodeIInv, PropsSound
        <4>4. \A p, q \in Known' : property'[p] = property'[q] => p = q
          BY <1>2, <4>1, <4>2 DEF NodeIInv, PropsSound
        <4>5. PropsSound'
          BY <1>1, <4>1, <4>3, <4>4 DEF NodeIInv, PropsSound
        <4>6. Ids \subseteq Ids'
          BY <4>2 DEF Ids
        <4>7. FactsSound'
          BY <1>1, <4>6 DEF NodeIInv, FactsSound
        <4> QED
          BY <1>1, <4>1, <4>2, <4>5, <4>7 DEF PutBack
      <3> QED
        BY <3>1, <3>2
    <2>5. \A s \in op'.rows, p \in Known' : property'[p] # s.id
      <3>1. \A s \in op'.rows : s \in op.rows /\ s.id # r.id
        BY <1>1, <1>2, <2>2, <2>3, BackupRead
      <3> QED
        BY <1>2, <2>4, <3>1
    <2>6. \A s \in file.backup.properties \ op'.rows : PutBack(s)'
      <3>1. ASSUME NEW s \in file.backup.properties \ op.rows PROVE PutBack(s)'
        BY <1>1, <1>2, <2>4, <3>1, BackupRead DEF PutBack
      <3> QED
        BY <2>2, <2>4, <3>1
    <2>7. \A p \in Known' : p \in intruded' \/ \E s \in file.backup.properties \ op'.rows : s.place = p
      BY <1>1, <1>2, <2>2, <2>3, <2>4
    <2>8. FactsOfBackup'
      <3>1. ASSUME NEW g \in factRow, NEW p \in Known', property'[p] = g.prop
            PROVE  p \in Known /\ property[p] = g.prop
        <4>1. PICK q \in Known : property[q] = g.prop
          BY DEF NodeIInv, FactsSound, Ids
        <4> QED
          BY <1>2, <2>4, <3>1, <4>1
      <3> QED
        BY <1>1, <3>1, BackupRead DEF FactsOfBackup, BackupHas
    <2>9. RestoreSound'
      BY <1>1, <1>2, <2>2, <2>5, <2>6, <2>7, <2>8, BackupRead DEF RestoreSound
    <2> QED
      BY <1>1, <1>3, <2>2, <2>4, <2>9
      DEF NodeIInv, OpTyped, SettingsTyped, AdminStep,
          StepSound, SaveSound, BackupSound, ReattachSound, ImportSound
  <1> QED
    BY <1>4, <1>5

LEMMA NodeRestoreFact == ASSUME NodeIInv, RestoreFact PROVE NodeIInv'
  <1>1. op.at = "facts" /\ UNCHANGED <<property, nextId, file, arriving, intruded, touched>>
    BY DEF RestoreFact, others
  <1>2. /\ op.rows \subseteq file.backup.facts /\ \A r \in file.backup.properties : PutBack(r)
        /\ \A h \in file.backup.facts \ op.rows : BroughtBack(h)
    BY <1>1 DEF NodeIInv, StepSound, RestoreSound
  <1>3. PropsSound' /\ FilesSound' /\ Known' = Known /\ Ids' = Ids
    BY <1>1, FilesStay DEF NodeIInv, PropsSound, Known, Ids
  <1>4. CASE op.rows = {}
    <2>1. /\ op' = Idle /\ factRow' = factRow
          /\ bbox' = file.backup.bbox /\ reimport' = file.backup.reimport
      BY <1>4 DEF RestoreFact
    <2>2. bbox' \in RegionOrNone /\ reimport' \in BOOLEAN
      BY <1>1, <2>1, BackupRead DEF NodeIInv, FilesSound
    <2>3. FactsSound'
      BY <1>3, <2>1 DEF NodeIInv, FactsSound
    <2> QED
      BY <1>1, <1>3, <2>1, <2>2, <2>3, StepEnds DEF NodeIInv, SettingsTyped
  <1>5. CASE op.rows # {}
    <2>1. PICK f \in op.rows :
            /\ bbox' = bbox /\ reimport' = reimport /\ op' = [op EXCEPT !.rows = @ \ {f}]
            /\ factRow' = CreateFacts({g \in {[f EXCEPT !.scope = "property"]} : Restorable(g)})
      BY <1>5 DEF RestoreFact, settings
    <2> DEFINE back == [f EXCEPT !.scope = "property"]
               new == {g \in {back} : Restorable(g)}
    <2>2. /\ op'.at = "facts" /\ op'.old = op.old /\ op'.new = op.new /\ op'.rows = op.rows \ {f}
          /\ op' = [at |-> op'.at, old |-> op'.old, new |-> op'.new, ids |-> op'.ids, rows |-> op'.rows]
      BY <1>1, <2>1 DEF NodeIInv, OpTyped
    <2>3. f \in file.backup.facts /\ f \in FactRow
      BY <1>1, <1>2, BackupRead
    <2>4. /\ back \in FactRow /\ back.prop = f.prop /\ back.source = f.source
          /\ back.scope = "property" /\ back.value = f.value
      BY <2>3 DEF FactRow, FactScope
    <2> HIDE DEF back
    <2>5. /\ new \in SUBSET FactRow /\ \A g, h \in new : SameKey(g, h) => g = h
      BY <2>4
    <2>6. /\ CreateFacts(new) \subseteq FactRow /\ factRow \subseteq CreateFacts(new)
          /\ \A g, h \in CreateFacts(new) : SameKey(g, h) => g = h
          /\ \A g \in CreateFacts(new) : g \in factRow \/ g \in new
          /\ \A g \in new : \E h \in CreateFacts(new) : SameKey(g, h)
      <3> HIDE DEF new
      <3> QED
        BY <2>5, CreateIs DEF NodeIInv, FactsSound
    <2>7. /\ factRow' \subseteq FactRow /\ factRow \subseteq factRow'
          /\ \A g, h \in factRow' : SameKey(g, h) => g = h
          /\ \A g \in factRow' : g \in factRow \/ (g = back /\ Restorable(back))
          /\ Restorable(back) => \E h \in factRow' : SameKey(back, h)
      BY <2>1, <2>6 DEF back
    <2>8. FactsSound'
      BY <1>3, <2>7 DEF NodeIInv, FactsSound, Restorable
    <2>9. FactsOfBackup'
      BY <1>1, <1>3, <2>3, <2>4, <2>7, BackupRead DEF FactsOfBackup, BackupHas
    <2>10. BroughtBack(f)'
      <3> SUFFICES ASSUME NEW r \in file.backup.properties, r.id = f.prop, r.place \notin intruded
                   PROVE  \E g \in factRow' : /\ g.prop = r.id /\ g.source = f.source
                                              /\ g.scope = "property"
                                              /\ r.place \in touched' \/ BackupHas(g)'
        BY <1>1 DEF BroughtBack
      <3>1. property[r.place] = r.id /\ r.place \in Known
        BY <1>1, <1>2, BackupRead DEF PutBack
      <3>2. Restorable(back)
        BY <2>4, <3>1 DEF Restorable, Ids
      <3>3. PICK g \in factRow' : SameKey(back, g)
        BY <2>7, <3>2
      <3>4. r.place \in touched' \/ BackupHas(g)'
        BY <1>1, <1>3, <2>4, <2>9, <3>1, <3>3 DEF FactsOfBackup, SameKey
      <3> QED
        BY <2>4, <3>3, <3>4 DEF SameKey
    <2>11. \A h \in file.backup.facts \ op'.rows : BroughtBack(h)'
      <3>1. ASSUME NEW h \in file.backup.facts \ op.rows PROVE BroughtBack(h)'
        BY <1>1, <1>2, <2>7 DEF BroughtBack, BackupHas
      <3> QED
        BY <2>2, <2>10, <3>1
    <2>12. RestoreSound'
      BY <1>1, <1>2, <2>2, <2>9, <2>11, BackupRead DEF RestoreSound, PutBack
    <2> QED
      BY <1>1, <1>3, <2>1, <2>2, <2>8, <2>12
      DEF NodeIInv, OpTyped, SettingsTyped, AdminStep,
          StepSound, SaveSound, BackupSound, ReattachSound, ImportSound
  <1> QED
    BY <1>4, <1>5

LEMMA NodeStartReattach == ASSUME NodeIInv, StartReattach PROVE NodeIInv'
  <1>1. /\ op' = [Idle EXCEPT !.at = "attach", !.ids = Known, !.rows = file.audits]
        /\ intruded' = {} /\ touched' = {} /\ file.audits # NoFile
        /\ UNCHANGED <<bbox, reimport, arriving, file>> /\ UNCHANGED tables
    BY DEF StartReattach, Begin, settings, tables, beginning
  <1>2. /\ op'.at = "attach" /\ op'.old = Idle.old /\ op'.new = Idle.new
        /\ op'.ids = Known /\ op'.rows = file.audits
        /\ op' = [at |-> op'.at, old |-> op'.old, new |-> op'.new, ids |-> op'.ids, rows |-> op'.rows]
    BY <1>1 DEF Idle
  <1>3. PropsSound' /\ FactsSound' /\ FilesSound' /\ Known' = Known
    BY <1>1, StepKeeps
  <1>4. ReattachSound'
    BY <1>1, <1>2, <1>3 DEF ReattachSound
  <1> QED
    BY <1>1, <1>2, <1>3, <1>4, IdleOp
    DEF NodeIInv, OpTyped, SettingsTyped, AdminStep,
        StepSound, SaveSound, BackupSound, RestoreSound, ImportSound

\* A fact that is written to the row its place has now.
LEMMA MovedFact ==
    ASSUME PropsSound, NEW r \in FactRecord, r.place \in Known,
           NEW moved, moved = [r.row EXCEPT !.prop = property[r.place]]
    PROVE  /\ moved \in FactRow /\ moved.prop = property[r.place] /\ moved.prop \in Ids
           /\ moved.source = r.row.source /\ moved.scope = r.row.scope
           /\ moved.value = r.row.value
  <1>1. property[r.place] \in 1..MaxIds
    BY NodeDataAssumption DEF PropsSound, Known
  <1> QED
    BY <1>1 DEF FactRecord, FactRow, Ids

LEMMA NodeReattach == ASSUME NodeIInv, Reattach PROVE NodeIInv'
  <1>1. op.at = "attach" /\ UNCHANGED <<bbox, property, nextId, file, arriving, intruded, touched>>
    BY DEF Reattach, others
  <1>2. /\ file.audits # NoFile /\ op.rows \subseteq file.audits /\ op.ids \subseteq Known
        /\ Records(file.audits) /\ file.audits \subseteq FactRecord
        /\ \A r \in file.audits \ op.rows : r.place \in op.ids => Reattached(r)
    BY <1>1 DEF NodeIInv, StepSound, ReattachSound, FilesSound, Records
  <1>3. PropsSound' /\ FilesSound' /\ Known' = Known /\ Ids' = Ids
    BY <1>1, FilesStay DEF NodeIInv, PropsSound, Known, Ids
  <1>4. CASE op.rows = {}
    <2>1. op' = Idle /\ reimport' = FALSE /\ factRow' = factRow
      BY <1>4 DEF Reattach
    <2> QED
      BY <1>1, <1>3, <2>1, StepEnds DEF NodeIInv, FactsSound, SettingsTyped
  <1>5. CASE op.rows # {}
    <2>1. PICK r \in op.rows :
            /\ op' = [op EXCEPT !.rows = @ \ {r}] /\ reimport' = reimport
            /\ factRow' = IF r.place \in op.ids /\ LocalId(r) \in Ids
                          THEN UpsertFact([r.row EXCEPT !.prop = LocalId(r)]) ELSE factRow
      BY <1>5 DEF Reattach
    <2>2. /\ op'.at = "attach" /\ op'.old = op.old /\ op'.new = op.new
          /\ op'.ids = op.ids /\ op'.rows = op.rows \ {r}
          /\ op' = [at |-> op'.at, old |-> op'.old, new |-> op'.new, ids |-> op'.ids, rows |-> op'.rows]
      BY <1>1, <2>1 DEF NodeIInv, OpTyped
    <2>3. r \in file.audits /\ r \in FactRecord
      BY <1>2
    <2>4. FactsSound' /\ \A s \in file.audits \ op'.rows : s.place \in op.ids => Reattached(s)'
      <3>1. CASE r.place \in op.ids
        <4> DEFINE moved == [r.row EXCEPT !.prop = property[r.place]]
        <4>1. r.place \in Known
          BY <1>2, <3>1
        <4>2. /\ moved \in FactRow /\ moved.prop = property[r.place] /\ moved.prop \in Ids
              /\ moved.source = r.row.source /\ moved.scope = r.row.scope
              /\ moved.value = r.row.value
          BY <2>3, <4>1, MovedFact DEF NodeIInv
        <4>3. factRow' = UpsertFact(moved)
          BY <2>1, <3>1, <4>2 DEF LocalId
        <4>4. moved' = moved
          BY <1>1
        <4>5. SameKey(moved, [r.row EXCEPT !.prop = property[r.place]])
          BY DEF SameKey
        <4>6. ASSUME NEW s \in file.audits \ op.rows, s.place \in op.ids
              PROVE  /\ s \in FactRecord /\ s.place \in Known
                     /\ ~SameKey(moved, [s.row EXCEPT !.prop = property[s.place]])
          <5>1. s \in FactRecord /\ s.place \in Known
            BY <1>2, <4>6
          <5> DEFINE other == [s.row EXCEPT !.prop = property[s.place]]
          <5>2. /\ other.prop = property[s.place] /\ other.source = s.row.source
                /\ other.scope = s.row.scope
            BY <5>1, MovedFact DEF NodeIInv
          <5> HIDE DEF moved, other
          <5>3. SameKey(moved, other) => r = s
            BY <1>2, <2>3, <4>1, <4>2, <5>1, <5>2 DEF SameKey, NodeIInv, PropsSound, Records
          <5>4. ~SameKey(moved, other)
            BY <4>6, <5>3
          <5> QED
            BY <5>1, <5>4 DEF other
        <4> HIDE DEF moved
        <4>7. /\ factRow' \subseteq FactRow /\ moved \in factRow'
              /\ \A f, g \in factRow' : SameKey(f, g) => f = g
              /\ \A g \in factRow' : g \in factRow \/ g = moved
              /\ \A g \in factRow : g \in factRow' \/ SameKey(moved, g)
          BY <4>2, <4>3, UpsertIs DEF NodeIInv, FactsSound
        <4>8. FactsSound'
          BY <1>3, <4>2, <4>7 DEF NodeIInv, FactsSound
        <4>9. Reattached(r)'
          BY <1>1, <4>2, <4>5, <4>7 DEF Reattached
        <4>10. ASSUME NEW s \in file.audits \ op.rows, s.place \in op.ids PROVE Reattached(s)'
          <5> DEFINE other == [s.row EXCEPT !.prop = property[s.place]]
          <5>1. PICK g \in factRow : SameKey(g, other) /\ (s.place \in touched \/ g.value = s.row.value)
            BY <1>2, <4>10 DEF Reattached
          <5>2. ~SameKey(moved, other) /\ other' = other
            BY <1>1, <4>6, <4>10
          <5>3. ~SameKey(moved, g)
            BY <5>1, <5>2 DEF SameKey
          <5> QED
            BY <1>1, <4>7, <5>1, <5>2, <5>3 DEF Reattached
        <4> QED
          BY <2>2, <4>8, <4>9, <4>10
      <3>2. CASE r.place \notin op.ids
        <4>1. factRow' = factRow
          BY <2>1, <3>2
        <4>2. \A s \in file.audits \ op.rows : s.place \in op.ids => Reattached(s)'
          BY <1>1, <1>2, <4>1 DEF Reattached
        <4> QED
          BY <1>3, <2>2, <3>2, <4>1, <4>2 DEF NodeIInv, FactsSound
      <3> QED
        BY <3>1, <3>2
    <2>5. ReattachSound'
      BY <1>1, <1>2, <1>3, <2>2, <2>4 DEF ReattachSound
    <2> QED
      BY <1>1, <1>3, <2>1, <2>2, <2>4, <2>5
      DEF NodeIInv, OpTyped, SettingsTyped, AdminStep,
          StepSound, SaveSound, BackupSound, RestoreSound, ImportSound
  <1> QED
    BY <1>4, <1>5

LEMMA NodeStartImport == ASSUME NodeIInv, StartImportAll PROVE NodeIInv'
  <1>1. /\ op' = [Idle EXCEPT !.at = "create", !.ids = file.all.properties]
        /\ intruded' = {} /\ touched' = {} /\ file.all # NoFile
        /\ UNCHANGED <<bbox, reimport, arriving, file>> /\ UNCHANGED tables
    BY DEF StartImportAll, Begin, settings, tables, beginning
  <1>2. /\ op'.at = "create" /\ op'.old = Idle.old /\ op'.new = Idle.new
        /\ op'.ids = file.all.properties
        /\ op' = [at |-> op'.at, old |-> op'.old, new |-> op'.new, ids |-> op'.ids, rows |-> op'.rows]
    BY <1>1 DEF Idle
  <1>3. PropsSound' /\ FactsSound' /\ FilesSound'
    BY <1>1, StepKeeps
  <1>4. ImportSound'
    BY <1>1, <1>2 DEF ImportSound
  <1> QED
    BY <1>1, <1>2, <1>3, <1>4, IdleOp
    DEF NodeIInv, OpTyped, SettingsTyped, AdminStep,
        StepSound, SaveSound, BackupSound, RestoreSound, ReattachSound

LEMMA NodeImportProperty == ASSUME NodeIInv, ImportProperty PROVE NodeIInv'
  <1>1. op.at = "create" /\ UNCHANGED <<bbox, reimport, factRow, file, arriving, intruded, touched>>
    BY DEF ImportProperty, settings, others
  <1>2. /\ file.all # NoFile /\ op.ids \subseteq file.all.properties
        /\ file.all.properties \ op.ids \subseteq Known /\ file.all.properties \subseteq Place
    BY <1>1 DEF NodeIInv, StepSound, ImportSound, FilesSound
  <1>3. CASE op.ids = {}
    <2>1. op' = [op EXCEPT !.at = "protect"] /\ UNCHANGED tables
      BY <1>1, <1>3 DEF ImportProperty, GoOn, tables
    <2>2. /\ op'.at = "protect" /\ op'.old = op.old /\ op'.new = op.new
          /\ op' = [at |-> op'.at, old |-> op'.old, new |-> op'.new, ids |-> op'.ids, rows |-> op'.rows]
      BY <2>1 DEF NodeIInv, OpTyped
    <2>3. PropsSound' /\ FactsSound' /\ FilesSound' /\ Known' = Known
      BY <1>1, <2>1, StepKeeps
    <2>4. ImportSound'
      BY <1>1, <1>2, <1>3, <2>2, <2>3 DEF ImportSound
    <2> QED
      BY <1>1, <2>2, <2>3, <2>4
      DEF NodeIInv, OpTyped, SettingsTyped, AdminStep,
          StepSound, SaveSound, BackupSound, RestoreSound, ReattachSound
  <1>4. CASE op.ids # {}
    <2>1. PICK p \in op.ids :
            /\ op' = [op EXCEPT !.ids = @ \ {p}]
            /\ IF p \in Known THEN UNCHANGED <<property, nextId>>
               ELSE nextId <= MaxIds /\ nextId' = nextId + 1
                    /\ property' = [property EXCEPT ![p] = nextId]
      BY <1>4 DEF ImportProperty
    <2>2. /\ op'.at = "create" /\ op'.old = op.old /\ op'.new = op.new /\ op'.ids = op.ids \ {p}
          /\ op' = [at |-> op'.at, old |-> op'.old, new |-> op'.new, ids |-> op'.ids, rows |-> op'.rows]
      BY <1>1, <2>1 DEF NodeIInv, OpTyped
    <2>3. p \in Place /\ PropsSound /\ nextId \in Nat
      BY <1>2 DEF NodeIInv, PropsSound
    <2>4. /\ PropsSound' /\ Known' = Known \cup {p} /\ Ids \subseteq Ids'
          /\ nextId' \in Nat /\ nextId <= nextId'
      <3>1. CASE p \in Known
        BY <2>1, <2>3, <3>1 DEF PropsSound, Known, Ids
      <3>2. CASE p \notin Known
        BY <2>1, <2>3, <3>2, FreshId
      <3> QED
        BY <3>1, <3>2
    <2>5. FactsSound' /\ FilesSound'
      BY <1>1, <2>3, <2>4, FilesStay DEF NodeIInv, FactsSound
    <2>6. ImportSound'
      BY <1>1, <1>2, <2>2, <2>4 DEF ImportSound
    <2> QED
      BY <1>1, <2>2, <2>4, <2>5, <2>6
      DEF NodeIInv, OpTyped, SettingsTyped, AdminStep,
          StepSound, SaveSound, BackupSound, RestoreSound, ReattachSound
  <1> QED
    BY <1>3, <1>4

LEMMA NodeNoteProtected == ASSUME NodeIInv, NoteProtected PROVE NodeIInv'
  <1> DEFINE free == {r \in file.all.facts :
                        ~\E f \in factRow : f.prop = property[r.place] /\ f.source # "osm"}
  <1>1. /\ op.at = "protect" /\ op' = [op EXCEPT !.at = "insert", !.rows = free]
        /\ UNCHANGED <<bbox, reimport, file, arriving, intruded, touched>> /\ UNCHANGED tables
    BY DEF NoteProtected, settings, tables, others
  <1>2. free \subseteq file.all.facts
    OBVIOUS
  <1> HIDE DEF free
  <1>3. /\ op'.at = "insert" /\ op'.old = op.old /\ op'.new = op.new /\ op'.rows = free
        /\ op' = [at |-> op'.at, old |-> op'.old, new |-> op'.new, ids |-> op'.ids, rows |-> op'.rows]
    BY <1>1 DEF NodeIInv, OpTyped
  <1>4. PropsSound' /\ FactsSound' /\ FilesSound' /\ Known' = Known
    BY <1>1, StepKeeps
  <1>5. ImportSound'
    BY <1>1, <1>2, <1>3, <1>4 DEF NodeIInv, StepSound, ImportSound
  <1> QED
    BY <1>1, <1>3, <1>4, <1>5
    DEF NodeIInv, OpTyped, SettingsTyped, AdminStep,
        StepSound, SaveSound, BackupSound, RestoreSound, ReattachSound

LEMMA NodeInsertFacts == ASSUME NodeIInv, InsertFacts PROVE NodeIInv'
  <1> DEFINE Reborn(r) == [r.row EXCEPT !.prop = property[r.place]]
             new == {Reborn(r) : r \in op.rows}
  <1>1. /\ op.at = "insert" /\ op' = Idle /\ factRow' = CreateFacts(new)
        /\ UNCHANGED <<bbox, reimport, property, nextId, file, arriving, intruded, touched>>
    BY DEF InsertFacts, settings, others
  <1>2. /\ op.rows \subseteq file.all.facts /\ Records(file.all.facts)
        /\ \A r \in op.rows : r \in FactRecord /\ r.place \in Known
    BY <1>1 DEF NodeIInv, StepSound, ImportSound, FilesSound, Records
  <1>3. \A r \in op.rows : /\ Reborn(r) \in FactRow /\ Reborn(r).prop = property[r.place]
                           /\ Reborn(r).prop \in Ids /\ Reborn(r).source = r.row.source
                           /\ Reborn(r).scope = r.row.scope
    BY <1>2, MovedFact DEF NodeIInv
  <1> HIDE DEF Reborn
  <1>4. ASSUME NEW r \in op.rows, NEW s \in op.rows, SameKey(Reborn(r), Reborn(s)) PROVE r = s
    BY <1>2, <1>3, <1>4 DEF SameKey, NodeIInv, PropsSound, Records
  <1>5. /\ new \in SUBSET FactRow /\ \A f \in new : f.prop \in Ids
        /\ \A f, g \in new : SameKey(f, g) => f = g
    BY <1>3, <1>4
  <1> HIDE DEF new
  <1>6. /\ factRow' \subseteq FactRow /\ \A f, g \in factRow' : SameKey(f, g) => f = g
        /\ \A g \in factRow' : g \in factRow \/ g \in new
    BY <1>1, <1>5, CreateIs DEF NodeIInv, FactsSound
  <1>7. PropsSound' /\ FilesSound' /\ Ids' = Ids
    BY <1>1, FilesStay DEF NodeIInv, PropsSound, Known, Ids
  <1>8. FactsSound'
    BY <1>5, <1>6, <1>7 DEF NodeIInv, FactsSound
  <1> QED
    BY <1>1, <1>7, <1>8, StepEnds DEF NodeIInv, SettingsTyped

LEMMA NodeStops == ASSUME NodeIInv, NodeRestart PROVE NodeIInv'
  <1>1. /\ op' = Idle /\ arriving' = {} /\ UNCHANGED <<bbox, reimport, file, intruded, touched>>
        /\ UNCHANGED tables
    BY DEF NodeRestart, settings, tables
  <1> QED
    BY <1>1, StepKeeps, StepEnds DEF NodeIInv, SettingsTyped

LEMMA NodeStutter == ASSUME NodeIInv, UNCHANGED nodeVars PROVE NodeIInv'
  <1>1. UNCHANGED <<bbox, reimport, property, factRow, nextId, arriving, file, op, intruded, touched>>
    BY DEF nodeVars
  <1>2. PropsSound' /\ FactsSound' /\ FilesSound'
    BY <1>1 DEF NodeIInv, PropsSound, FactsSound, FilesSound, Known, Ids, IdRows, Records
  <1>3. SaveSound' /\ BackupSound' /\ ImportSound'
    BY <1>1 DEF NodeIInv, StepSound, SaveSound, BackupSound, ImportSound, IdRows, Known
  <1>4. RestoreSound' /\ ReattachSound'
    BY <1>1 DEF NodeIInv, StepSound, RestoreSound, ReattachSound, PutBack, FactsOfBackup,
                BackupHas, BroughtBack, Reattached, Known
  <1> QED
    BY <1>1, <1>2, <1>3, <1>4 DEF NodeIInv, StepSound, OpTyped, SettingsTyped

LEMMA NextNodeIInv == NodeIInv /\ [NodeNext]_nodeVars => NodeIInv'
  <1> SUFFICES ASSUME NodeIInv, [NodeNext]_nodeVars PROVE NodeIInv'
    OBVIOUS
  <1>1. ASSUME NEW p \in Place, FilterGossip(p) PROVE NodeIInv'
    BY <1>1, NodeFilter
  <1>2. ASSUME NEW p \in Place, NEW v \in FactValue, NEW scope \in FactScope, Audit(p, scope, v)
        PROVE  NodeIInv'
    BY <1>2, NodeAudit
  <1>3. ASSUME NEW p \in Place, NEW v \in FactValue, IngestOsm(p, v) \/ StoreGossip(p, v)
        PROVE  NodeIInv'
    BY <1>3, NodeOthers
  <1>4. ASSUME NEW new \in Bbox, PlanSave(new) PROVE NodeIInv'
    BY <1>4, NodePlanSave
  <1>5. CASE CommitNodeBbox \/ FindOutside \/ PurgeOutside \/ PurgeGossipOutside \/ SetReimportPending
    BY <1>5, NodeCommit, NodeFind, NodePurge, NodePurgeGossip, NodePending
  <1>6. CASE StartBackup \/ FinishBackup \/ ExportAudits \/ ExportAll
    BY <1>6, NodeStartBackup, NodeFinishBackup, NodeExport
  <1>7. CASE StartRestore \/ Wipe \/ RestoreProperty \/ RestoreFact
    BY <1>7, NodeStartRestore, NodeWipe, NodeRestoreProperty, NodeRestoreFact
  <1>8. CASE StartReattach \/ Reattach
    BY <1>8, NodeStartReattach, NodeReattach
  <1>9. CASE StartImportAll \/ ImportProperty \/ NoteProtected \/ InsertFacts
    BY <1>9, NodeStartImport, NodeImportProperty, NodeNoteProtected, NodeInsertFacts
  <1>10. CASE NodeRestart
    BY <1>10, NodeStops
  <1>11. CASE UNCHANGED nodeVars
    BY <1>11, NodeStutter
  <1> QED
    BY <1>1, <1>2, <1>3, <1>4, <1>5, <1>6, <1>7, <1>8, <1>9, <1>10, <1>11 DEF NodeNext

LEMMA SpecNodeIInv == NodeSpec => []NodeIInv
  BY InitNodeIInv, NextNodeIInv, PTL DEF NodeSpec

\* The tables of a node keep their types, no two properties share an id and no
\* fact is left without its property.
THEOREM NodeTypesHold == NodeSpec => []NodeDataTypeOK
  <1>1. NodeIInv => NodeDataTypeOK
    BY DEF NodeIInv, PropsSound, FactsSound, OpTyped, SettingsTyped, RegionOrNone, NodeDataTypeOK
  <1> QED
    BY <1>1, SpecNodeIInv, PTL

\* A region that shrinks leaves no property outside it but those that came
\* while it was being saved.
THEOREM ShrunkRegionIsClean == NodeSpec => []ShrinkLeavesNothingOutside
  <1>1. NodeIInv => ShrinkLeavesNothingOutside
    BY DEF NodeIInv, StepSound, SaveSound, IsShrink, ShrinkLeavesNothingOutside
  <1> QED
    BY <1>1, SpecNodeIInv, PTL

\* When a restore is through with its facts, every property of the backup that
\* nobody created in the gap has one of each source it had there.
THEOREM BackupsAreBrought == NodeSpec => []RestoreBringsBack
  <1>1. NodeIInv => RestoreBringsBack
    <2> SUFFICES ASSUME NodeIInv, op.at = "facts", op.rows = {},
                        NEW f \in file.backup.facts, NEW r \in file.backup.properties,
                        r.id = f.prop, r.place \notin intruded
                 PROVE  \E g \in factRow :
                          /\ g.prop = r.id /\ g.source = f.source /\ g.scope = "property"
                          /\ \/ r.place \in touched
                             \/ \E h \in file.backup.facts :
                                  h.prop = f.prop /\ h.source = f.source /\ h.value = g.value
      BY DEF RestoreBringsBack
    <2>1. BroughtBack(f)
      BY DEF NodeIInv, StepSound, RestoreSound
    <2> QED
      BY <2>1 DEF BroughtBack, BackupHas
  <1> QED
    BY <1>1, SpecNodeIInv, PTL

\* When a re-import is through, every audit of its file is stored again at each
\* property the node had, under the id that property has.
THEOREM ReimportsAreComplete == NodeSpec => []ReattachIsComplete
  <1>1. NodeIInv => ReattachIsComplete
    BY DEF NodeIInv, StepSound, ReattachSound, Reattached, ReattachIsComplete
  <1> QED
    BY <1>1, SpecNodeIInv, PTL

-----------------------------------------------------------------------------
(* The components side by side. *)

\* A step of the composition moves the component that was chosen and leaves the
\* variables of the others: each component sees a step of its own or a stutter.
LEMMA ServicesStep ==
    [ServicesNext]_serviceVars =>
        /\ [JobNext]_jobVars
        /\ [WritersNext]_writersVars
        /\ [NodeNext]_nodeVars
        /\ [SignalNext]_signalVars
        /\ [PropertyNext]_propertyVars
  BY DEF ServicesNext, serviceVars

\* A behaviour of the composition is one of every component, so that every
\* theorem about a component holds where TLC checks them together.
THEOREM ServicesImplementComponents ==
    ServicesSpec => JobSpec /\ WritersSpec /\ NodeSpec /\ SignalSpec /\ PropertySpec
  <1>1. ServicesInit => JobInit /\ WritersInit /\ NodeInit /\ SignalInit /\ PropertyInit
    BY DEF ServicesInit
  <1> QED
    BY <1>1, ServicesStep, PTL
    DEF ServicesSpec, JobSpec, WritersSpec, NodeSpec, SignalSpec, PropertySpec

\* The types of the variables of all components of a node.
THEOREM ServicesTypesHold == ServicesSpec => []ServicesTypeOK
  <1>1. JobTypeOK /\ WritersTypeOK /\ NodeDataTypeOK /\ SignalTypeOK /\ PropertyTypeOK
            => ServicesTypeOK
    BY DEF ServicesTypeOK
  <1> QED
    BY <1>1, ServicesImplementComponents, JobTypesCorrect, WritersTypesHold,
       NodeTypesHold, SignalTypesCorrect, PropertyTypesHold, PTL
=============================================================================
