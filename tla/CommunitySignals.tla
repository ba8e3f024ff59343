--------------------------- MODULE CommunitySignals ---------------------------
(***************************************************************************)
(* Reports travelers make about one property: the route that limits and    *)
(* stores them, and the queue in which auditors and administrators settle  *)
(* them.  A report is counted, looked up and written in three statements.  *)
(***************************************************************************)
EXTENDS Naturals, FiniteSets

CONSTANTS
    Reporter, SignalType, SignalField,
    NoField,      \* fieldName is null
    SignalCall,    \* concurrent calls of POST signals
    NoReport,     \* idle; no open signal found
    DailyLimit,   \* 20 in the code
    MaxSignals    \* bound: signals and reports ever made

ASSUME SignalAssumption ==
    /\ IsFiniteSet(SignalCall) /\ SignalCall # {}
    /\ NoField \notin SignalField /\ NoReport \notin 1..MaxSignals
    /\ DailyLimit \in Nat /\ MaxSignals \in Nat

VARIABLES
    signal,     \* the table CommunitySignal, by id
    recent,     \* ids of the signals created in the last 24 hours
    report,     \* the calls of POST signals
    made        \* signals ever created: the next id

signalVars == <<signal, recent, report, made>>

\* "CLOSED" stands for RESOLVED and DISMISSED, which differ in nothing here.
SignalStatus == {"OPEN", "IN_PROGRESS", "CLOSED"}
Report == [by : Reporter, type : SignalType, field : SignalField \cup {NoField}]
Signal == [by : Reporter, field : SignalField \cup {NoField}, status : SignalStatus,
           says : Report]   \* the report the row's other columns come from
Reported == [at : {"count", "find", "write"}, report : Report,
             found : (1..MaxSignals) \cup {NoReport}]

SignalInit ==
    /\ signal = <<>>
    /\ recent = {}
    /\ report = [c \in SignalCall |-> NoReport]
    /\ made = 0

PostSignal(c, r) ==
    /\ report[c] = NoReport
    /\ report' = [report EXCEPT ![c] = [at |-> "count", report |-> r, found |-> NoReport]]
    /\ UNCHANGED <<signal, recent, made>>

RecentOf(r) == {id \in recent \cap DOMAIN signal : signal[id].by = r}

\* Mutant: one report too many.
LimitReachedLate(r) == Cardinality(RecentOf(r)) > DailyLimit

LimitReached(r) == Cardinality(RecentOf(r)) >= DailyLimit

\* Updates count against the limit as well: it is checked first.
CheckLimit(c) ==
    /\ report[c] # NoReport /\ report[c].at = "count"
    /\ report' = [report EXCEPT ![c] = IF LimitReached(@.report.by) THEN NoReport
                                       ELSE [at |-> "find", report |-> @.report, found |-> NoReport]]
    /\ UNCHANGED <<signal, recent, made>>

\* Mutant: whoever reported first.
SameReportOfAnyone(id, r) ==
    /\ signal[id].field = r.field /\ signal[id].says.type = r.type
    /\ signal[id].status = "OPEN"

SameReport(id, r) ==
    /\ signal[id].by = r.by
    /\ signal[id].field = r.field /\ signal[id].says.type = r.type
    /\ signal[id].status = "OPEN"

FindOpenSignal(c) ==
    LET open == {id \in DOMAIN signal : SameReport(id, report[c].report)} IN
    /\ report[c] # NoReport /\ report[c].at = "find"
    /\ \E id \in IF open = {} THEN {NoReport} ELSE open :
         report' = [report EXCEPT ![c] = [at |-> "write", report |-> @.report, found |-> id]]
    /\ UNCHANGED <<signal, recent, made>>

\* The row found is updated by id, whatever its status is now, and gone is an
\* error.  A new row gets every column but fieldName, which stays null.
WriteSignal(c) ==
    LET r == report[c].report
        id == report[c].found
    IN
    /\ report[c] # NoReport /\ report[c].at = "write"
    /\ IF id = NoReport
       THEN /\ made < MaxSignals
            /\ made' = made + 1
            /\ recent' = recent \cup {made'}
            /\ signal' = [n \in DOMAIN signal \cup {made'} |->
                            IF n \in DOMAIN signal THEN signal[n]
                            ELSE [by |-> r.by, field |-> NoField, status |-> "OPEN", says |-> r]]
       ELSE /\ signal' = [n \in DOMAIN signal |->
                            IF n = id THEN [signal[n] EXCEPT !.says = r] ELSE signal[n]]
            /\ UNCHANGED <<recent, made>>
    /\ report' = [report EXCEPT ![c] = NoReport]

\* PATCH: any status may follow any other.
PatchSignal(id, status) ==
    /\ signal' = [signal EXCEPT ![id].status = status]
    /\ UNCHANGED <<recent, report, made>>

RemoveSignals(ids) ==
    /\ signal' = [n \in DOMAIN signal \ ids |-> signal[n]]
    /\ recent' = recent \ ids
    /\ UNCHANGED <<report, made>>

ClearClosedSignals == RemoveSignals({id \in DOMAIN signal : signal[id].status = "CLOSED"})

\* The window of 24 hours moves on: the oldest signal leaves it.
DayPasses ==
    /\ \E id \in recent : /\ \A other \in recent : id <= other
                         /\ recent' = recent \ {id}
    /\ UNCHANGED <<signal, report, made>>

SignalNext ==
    \/ \E c \in SignalCall :
         \/ \E r \in Report : PostSignal(c, r)
         \/ CheckLimit(c) \/ FindOpenSignal(c) \/ WriteSignal(c)
    \/ \E id \in DOMAIN signal : \E status \in SignalStatus : PatchSignal(id, status)
    \/ \E id \in DOMAIN signal : RemoveSignals({id})
    \/ ClearClosedSignals
    \/ DayPasses

SignalSpec == SignalInit /\ [][SignalNext]_signalVars
-----------------------------------------------------------------------------
\* The types of the variables; a day's signals are stored ones.
SignalTypeOK ==
    /\ DOMAIN signal \subseteq 1..made
    /\ \A id \in DOMAIN signal : signal[id] \in Signal
    /\ recent \subseteq DOMAIN signal
    /\ report \in [SignalCall -> Reported \cup {NoReport}]
    /\ made \in 0..MaxSignals

\* The limit is checked before the write, so calls of one traveler that overlap
\* pass it together, but never more than one signal for each of the calls that
\* can be under way.
LimitOvershootIsBounded ==
    \A r \in Reporter :
        Cardinality(RecentOf(r)) + 1 <= DailyLimit + Cardinality(SignalCall)

\* A signal only ever says what its own reporter said, though reports, updates
\* by id, reopening and clean-up interleave: nobody's report is overwritten by
\* another traveler's.
SignalIsOfItsReporter == \A id \in DOMAIN signal : signal[id].says.by = signal[id].by
===============================================================================
