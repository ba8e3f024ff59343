------------------------------ MODULE FactMerge ------------------------------
(***************************************************************************)
(* The trust-tier merge of packages/core/src/merge.ts, for the facts of    *)
(* one (property, field, scope).  The database key of a fact is            *)
(* (property, field, sourceNodeId, scope), so what a node stores for one   *)
(* property, field and scope is a table with at most one row per source.   *)
(***************************************************************************)
EXTENDS Naturals, FiniteSets

CONSTANTS
    Source,            \* values of sourceNodeId
    Auditor,           \* values of submittedBy
    NoAuditor,         \* submittedBy is null
    Value,             \* values of the field
    ConfirmThreshold,  \* default parameter of evaluateConfirmed (3)
    NoRow              \* no fact stored for this key

ASSUME SourceAssumption == IsFiniteSet(Source)
ASSUME ThresholdAssumption == ConfirmThreshold \in Nat

Tier == {"OFFICIAL", "AI_GUESS", "VERIFIED", "CONFIRMED"}

TierRank == [OFFICIAL |-> 0, AI_GUESS |-> 1, VERIFIED |-> 2, CONFIRMED |-> 3]

Row == [value : Value, tier : Tier, by : Auditor \cup {NoAuditor}, ts : Nat]

ASSUME NoRowAssumption == NoRow \notin Row

Table == [Source -> Row \cup {NoRow}]
EmptyTable == [s \in Source |-> NoRow]

\* Mutant: the key of auditorSet forgets the value.
ReportingAnyValue(table, v) ==
    {s \in Source : table[s] # NoRow /\ table[s].by # NoAuditor}

\* The sources whose row reports the value v and names an auditor.
Reporting(table, v) ==
    {s \in Source : /\ table[s] # NoRow
                    /\ table[s].value = v
                    /\ table[s].by # NoAuditor}

\* The distinct auditors behind the value v: auditorSet of evaluateConfirmed.
Agreeing(table, v) == {table[s].by : s \in Reporting(table, v)}

IsConfirmed(table, v) == Cardinality(Agreeing(table, v)) >= ConfirmThreshold

\* Every row whose value has enough auditors becomes CONFIRMED, whatever its
\* own tier and author; no row is ever demoted.
EvaluateConfirmed(table) ==
    [s \in Source |->
        IF table[s] # NoRow /\ IsConfirmed(table, table[s].value)
        THEN [table[s] EXCEPT !.tier = "CONFIRMED"]
        ELSE table[s]]

\* Mutant: a newer fact of the same tier does not replace the stored one.
SupersedesByTierOnly(incoming, existing) ==
    TierRank[incoming.tier] > TierRank[existing.tier]

\* An incoming fact replaces the stored one when its tier is higher OR it is newer.
Supersedes(incoming, existing) ==
    \/ TierRank[incoming.tier] > TierRank[existing.tier]
    \/ incoming.ts > existing.ts

\* Mutant: of a newer fact only the time is taken over.
MergeRowTimeOnly(existing, incoming) ==
    IF incoming = NoRow THEN existing
    ELSE IF existing = NoRow THEN incoming
    ELSE IF Supersedes(incoming, existing) THEN [existing EXCEPT !.ts = incoming.ts]
    ELSE existing

\* Mutant: whatever comes in replaces what is stored.
MergeRowIncoming(existing, incoming) == IF incoming = NoRow THEN existing ELSE incoming

MergeRow(existing, incoming) ==
    IF incoming = NoRow THEN existing
    ELSE IF existing = NoRow \/ Supersedes(incoming, existing) THEN incoming
    ELSE existing

MergeGossipDelta(existing, delta) ==
    EvaluateConfirmed([s \in Source |-> MergeRow(existing[s], delta[s])])
=============================================================================
